-------------------------- MODULE InfoStreamProofs --------------------------
(***************************************************************************)
(* Theorems about InfoStream, for every number of streams, every bound and *)
(* every set of volumes.                                                   *)
(***************************************************************************)
EXTENDS InfoStream, TLAPS

LEMMA InitTypeOK == Init => TypeOK
<1> SUFFICES ASSUME Init PROVE TypeOK
  OBVIOUS
<1> USE InfoStreamAssumption DEF Init, TypeOK
<1>1. PlaybackTypeOK /\ state \in PlayerStates /\ setting \in PlayerStates \cup {Idle}
  BY DEF PlaybackInit, PlaybackTypeOK, PlayerStates, States, PLAYING, PAUSED,
         STOPPED, Idle
<1>2. log \in Seq(PlayerStates)
  BY DEF PlayerStates
<1>3. info \in [Streams -> Messages] /\ view \in [Streams -> Views]
      /\ sample \in [Streams -> Samples] /\ wire \in [Streams -> Seq(Messages)]
  BY DEF Messages, Views, Samples, Stamps, EmptyInfo, EmptyView, NoSample,
         SampledStates
<1>4. /\ volume \in Nat /\ volumeCalls \in Nat /\ faults \in Nat
      /\ svcState \in SampledStates /\ svcStamp \in Stamps
      /\ oldState \in [Streams -> SampledStates]
      /\ pc \in [Streams -> HandlerPcs]
  BY DEF SampledStates, Stamps, HandlerPcs
<1> QED
  BY <1>1, <1>2, <1>3, <1>4

(***************************************************************************)
(* Waking the waiting handlers keeps every program counter a program       *)
(* counter.                                                                *)
(***************************************************************************)
LEMMA NotifiedType ==
    ASSUME NEW pcs \in [Streams -> HandlerPcs]
    PROVE  Notified(pcs) \in [Streams -> HandlerPcs]
BY DEF Notified, HandlerPcs

(***************************************************************************)
(* SetState hands a state of the player's on to its store as it is: the    *)
(* test for a finished song never applies, Player does not use FINISHED.   *)
(***************************************************************************)
LEMMA StoredIsNew ==
    ASSUME NEW old \in PlayerStates, NEW new
    PROVE  Stored(old, new) = new
BY DEF Stored, PlayerStates, PLAYING, PAUSED, STOPPED, FINISHED, FINISHED_ERROR

(***************************************************************************)
(* A message composed from a typed message and a typed sample is typed,    *)
(* and so is what the client makes of a message.                           *)
(***************************************************************************)
LEMMA WithStateType ==
    ASSUME NEW m \in Messages, NEW smp \in Samples, NEW isNew \in BOOLEAN
    PROVE  WithState(m, smp, isNew) \in Messages
BY DEF WithState, Messages, Samples, SampledStates, Stamps

LEMMA TimedType ==
    ASSUME NEW m \in Messages, NEW b \in BOOLEAN
    PROVE  [m EXCEPT !.timed = b] \in Messages
BY DEF Messages

LEMMA ShownType ==
    ASSUME NEW v \in Views, NEW m \in Messages
    PROVE  Shown(v, m) \in Views
BY DEF Shown, Views, Messages, SampledStates, Stamps

LEMMA TypeStep == TypeOK /\ [Next]_vars => TypeOK'
<1> SUFFICES ASSUME TypeOK, [Next]_vars PROVE TypeOK'
  OBVIOUS
<1> USE InfoStreamAssumption DEF TypeOK
<1> USE DEF playbackVars, serverVars, handlerVars, clientVars
<1>1. ASSUME NEW new \in PlayerStates, PlayerSetsState(new) PROVE TypeOK'
  <2>1. state' = new /\ setting' = new /\ callback' = callback
    BY <1>1, StoredIsNew DEF PlayerSetsState, SetStateStore
  <2>2. log' \in Seq(PlayerStates)
    BY <1>1, <2>1 DEF PlayerSetsState
  <2>3. PlaybackTypeOK'
    BY <2>1 DEF PlaybackTypeOK, PlayerStates, States
  <2> QED
    BY <1>1, <2>1, <2>2, <2>3 DEF PlayerSetsState
<1>2. CASE CallbackRuns
  <2>1. PlaybackTypeOK' /\ state' = state /\ setting' = Idle
    BY <1>2 DEF CallbackRuns, SetStateReturn, PlaybackTypeOK
  <2>2. svcState' \in SampledStates /\ svcStamp' \in Stamps
    BY <1>2 DEF CallbackRuns, SetStateReturn, SampledStates, Stamps
  <2>3. pc' \in [Streams -> HandlerPcs]
    BY <1>2, NotifiedType DEF CallbackRuns
  <2> QED
    BY <1>2, <2>1, <2>2, <2>3 DEF CallbackRuns
<1>3. CASE RegisterCallback
  BY <1>3 DEF RegisterCallback, SetStateChangeCallback, PlaybackTypeOK
<1>4. ASSUME NEW v \in Volumes, VolumeCall(v) PROVE TypeOK'
  <2>1. pc' \in [Streams -> HandlerPcs]
    BY <1>4, NotifiedType DEF VolumeCall
  <2> QED
    BY <1>4, <2>1 DEF VolumeCall, PlaybackTypeOK
<1>5. ASSUME NEW st \in Streams, Open(st) PROVE TypeOK'
  <2>1. pc' \in [Streams -> HandlerPcs] /\ readerDone' \in [Streams -> BOOLEAN]
    BY <1>5 DEF Open, HandlerPcs
  <2>2. [state |-> state, stamp |-> Len(log)] \in Samples
    BY DEF Samples, SampledStates, Stamps
  <2>3. sample' \in [Streams -> Samples]
    BY <1>5, <2>2 DEF Open
  <2> QED
    BY <1>5, <2>1, <2>3 DEF Open, PlaybackTypeOK
<1>6. ASSUME NEW st \in Streams, Compose(st) PROVE TypeOK'
  <2> DEFINE isNew == sample[st].state # oldState[st]
  <2>1. pc' \in [Streams -> HandlerPcs]
    BY <1>6 DEF Compose, HandlerPcs
  <2>2. WithState(info[st], sample[st], isNew) \in Messages
    BY WithStateType
  <2>3. PICK available \in BOOLEAN :
          info' = [info EXCEPT ![st] =
                    [WithState(info[st], sample[st], isNew) EXCEPT
                       !.timed = WantsTimes(sample[st], isNew) /\ available]]
    BY <1>6 DEF Compose
  <2>4. info' \in [Streams -> Messages]
    BY <2>2, <2>3, TimedType DEF WantsTimes
  <2>5. oldState' \in [Streams -> SampledStates] /\ changed' \in [Streams -> BOOLEAN]
    BY <1>6 DEF Compose, Samples
  <2>6. faults' \in Nat
    BY <1>6 DEF Compose
  <2> QED
    BY <1>6, <2>1, <2>4, <2>5, <2>6 DEF Compose, PlaybackTypeOK
<1>7. ASSUME NEW st \in Streams, LeaveLoop(st) PROVE TypeOK'
  BY <1>7 DEF LeaveLoop, HandlerPcs, PlaybackTypeOK
<1>8. ASSUME NEW st \in Streams, QueryVolume(st) PROVE TypeOK'
  <2>1. info' \in [Streams -> Messages]
    BY <1>8 DEF QueryVolume, Messages
  <2>2. pc' \in [Streams -> HandlerPcs]
    BY <1>8 DEF QueryVolume, HandlerPcs
  <2> QED
    BY <1>8, <2>1, <2>2 DEF QueryVolume, PlaybackTypeOK
<1>9. ASSUME NEW st \in Streams, VolumeFails(st) PROVE TypeOK'
  BY <1>9 DEF VolumeFails, HandlerPcs, PlaybackTypeOK
<1>10. ASSUME NEW st \in Streams, Write(st) PROVE TypeOK'
  <2>1. wire' = wire \/ wire' = [wire EXCEPT ![st] = Append(wire[st], info[st])]
    BY <1>10 DEF Write
  <2>2. Append(wire[st], info[st]) \in Seq(Messages)
    OBVIOUS
  <2>3. wire' \in [Streams -> Seq(Messages)]
    BY <2>1, <2>2
  <2>4. pc' \in [Streams -> HandlerPcs] /\ closeStream' \in [Streams -> BOOLEAN]
    BY <1>10 DEF Write, HandlerPcs
  <2> QED
    BY <1>10, <2>3, <2>4 DEF Write, PlaybackTypeOK
<1>11. ASSUME NEW st \in Streams, Woken(st) \/ TimesOut(st) PROVE TypeOK'
  <2> NextSample(st)
    BY <1>11 DEF Woken, TimesOut
  <2>1. [state |-> svcState, stamp |-> svcStamp] \in Samples
    BY DEF Samples
  <2>2. sample' \in [Streams -> Samples]
    BY <2>1 DEF NextSample
  <2>3. pc' \in [Streams -> HandlerPcs]
    BY DEF NextSample, HandlerPcs
  <2> QED
    BY <2>2, <2>3 DEF NextSample, PlaybackTypeOK
<1>12. ASSUME NEW st \in Streams, Join(st) PROVE TypeOK'
  BY <1>12 DEF Join, HandlerPcs, PlaybackTypeOK
<1>13. ASSUME NEW st \in Streams, ReaderEnds(st) PROVE TypeOK'
  <2>1. pc' \in [Streams -> HandlerPcs]
    BY <1>13, NotifiedType DEF ReaderEnds
  <2> QED
    BY <1>13, <2>1 DEF ReaderEnds, PlaybackTypeOK
<1>14. ASSUME NEW st \in Streams, ClientOpens(st) PROVE TypeOK'
  BY <1>14 DEF ClientOpens, HandlerPcs, PlaybackTypeOK
<1>15. ASSUME NEW st \in Streams, ClientReads(st) PROVE TypeOK'
  <2>1. Head(wire[st]) \in Messages /\ Tail(wire[st]) \in Seq(Messages)
    BY <1>15 DEF ClientReads
  <2>2. wire' \in [Streams -> Seq(Messages)]
    BY <1>15, <2>1 DEF ClientReads
  <2>3. view' \in [Streams -> Views]
    BY <1>15, <2>1, ShownType DEF ClientReads
  <2> QED
    BY <1>15, <2>2, <2>3 DEF ClientReads, PlaybackTypeOK
<1>16. ASSUME NEW st \in Streams, ClientEnds(st) \/ ClientStops(st) PROVE TypeOK'
  BY <1>16 DEF ClientEnds, ClientStops, PlaybackTypeOK
<1>17. ASSUME NEW st \in Streams, LinkDown(st) PROVE TypeOK'
  <2>1. PICK kept \in 0 .. Len(wire[st]) :
          wire' = [wire EXCEPT ![st] = SubSeq(wire[st], 1, kept)]
    BY <1>17 DEF LinkDown
  <2>2. SubSeq(wire[st], 1, kept) \in Seq(Messages)
    OBVIOUS
  <2> QED
    BY <1>17, <2>1, <2>2 DEF LinkDown, PlaybackTypeOK
<1>18. CASE UNCHANGED vars
  BY <1>18 DEF vars, PlaybackTypeOK
<1> QED
  BY <1>1, <1>2, <1>3, <1>4, <1>5, <1>6, <1>7, <1>8, <1>9, <1>10, <1>11, <1>12,
     <1>13, <1>14, <1>15, <1>16, <1>17, <1>18
     DEF Next, PlayerStep, HandlerStep, ClientStep

(***************************************************************************)
(* Type correctness of the stream.                                         *)
(***************************************************************************)
THEOREM TypeCorrect == Spec => []TypeOK
<1> QED
  BY InitTypeOK, TypeStep, PTL DEF Spec

-----------------------------------------------------------------------------
(***************************************************************************)
(* What was a state of the player's stays one when log grows: IsActual     *)
(* with log extended.                                                      *)
(***************************************************************************)
LEMMA ActualStays ==
    ASSUME TypeOK, NEW s \in PlayerStates, log' = Append(log, s),
           NEW r, r.stamp \in Nat, NEW none, IsActual(r, none)
    PROVE  IsActual(r, none)'
<1>1. CASE r.stamp = 0
  BY <1>1 DEF IsActual
<1>2. CASE r.stamp # 0
  BY <1>2 DEF IsActual, TypeOK
<1> QED
  BY <1>1, <1>2

(***************************************************************************)
(* All but three actions leave the player and the service's copy alone.    *)
(***************************************************************************)
sourceVars == <<state, setting, callback, log, svcState, svcStamp>>

LEMMA SourceSteps ==
    ASSUME [Next]_vars
    PROVE  \/ \E new \in PlayerStates : PlayerSetsState(new)
           \/ CallbackRuns \/ RegisterCallback \/ UNCHANGED sourceVars
<1> USE DEF sourceVars, playbackVars, serverVars
<1>1. ASSUME NEW v \in Volumes, VolumeCall(v) PROVE UNCHANGED sourceVars
  BY <1>1 DEF VolumeCall
<1>2. ASSUME NEW st \in Streams, HandlerStep(st) PROVE UNCHANGED sourceVars
  BY <1>2 DEF HandlerStep, Open, Compose, LeaveLoop, QueryVolume, Write, Woken,
              NextSample, Join
<1>3. ASSUME NEW st \in Streams,
             VolumeFails(st) \/ TimesOut(st) \/ ReaderEnds(st) \/ LinkDown(st)
      PROVE  UNCHANGED sourceVars
  BY <1>3 DEF VolumeFails, TimesOut, NextSample, ReaderEnds, LinkDown
<1>4. ASSUME NEW st \in Streams, ClientStep(st) PROVE UNCHANGED sourceVars
  BY <1>4 DEF ClientStep, ClientOpens, ClientReads, ClientEnds, ClientStops
<1>5. CASE UNCHANGED vars
  BY <1>5 DEF vars
<1> QED
  BY <1>1, <1>2, <1>3, <1>4, <1>5 DEF Next, PlayerStep

LEMMA SourceStep ==
    ASSUME TypeOK, HistoryOK, CopyLagsByOne, [Next]_vars
    PROVE  HistoryOK' /\ CopyLagsByOne'
<1> USE DEF HistoryOK, CopyLagsByOne
<1>1. ASSUME NEW new \in PlayerStates, PlayerSetsState(new)
      PROVE  HistoryOK' /\ CopyLagsByOne'
  <2>1. /\ setting = Idle /\ state' = new /\ setting' = new
        /\ log' = Append(log, new)
        /\ ~callback => new = STOPPED
        /\ UNCHANGED <<callback, svcState, svcStamp>>
    BY <1>1, StoredIsNew DEF PlayerSetsState, SetStateStore, TypeOK
  <2>2. /\ Len(log') = Len(log) + 1 /\ log'[Len(log')] = new
        /\ \A i \in 1 .. Len(log) : log'[i] = log[i]
        /\ DOMAIN log' = 1 .. Len(log')
    BY <2>1 DEF TypeOK
  <2>3. new # Idle
    BY DEF PlayerStates, PLAYING, PAUSED, STOPPED, Idle
  <2>4. HistoryOK'
    <3>1. log' # <<>> /\ state' = log'[Len(log')] /\ setting' = state'
      BY <2>1, <2>2
    <3>2. svcStamp' = 0 => svcState' = UNDEFINED'
      BY <2>1 DEF UNDEFINED
    <3>3. ~callback' => svcStamp' = 0 /\ \A i \in DOMAIN log' : log'[i] = STOPPED'
      BY <2>1, <2>2 DEF TypeOK, STOPPED
    <3> QED
      BY <3>1, <3>2, <3>3
  <2>5. CopyLagsByOne'
    <3>1. CASE svcStamp = 0
      BY <2>1, <2>2, <2>3, <3>1 DEF TypeOK, STOPPED
    <3>2. CASE svcStamp # 0
      BY <2>1, <2>2, <2>3, <3>2 DEF TypeOK, Stamps
    <3> QED
      BY <3>1, <3>2
  <2> QED
    BY <2>4, <2>5
<1>2. CASE CallbackRuns
  <2>1. /\ setting # Idle /\ setting' = Idle
        /\ UNCHANGED <<state, callback, log>>
        /\ IF callback THEN svcState' = setting /\ svcStamp' = Len(log)
                       ELSE UNCHANGED <<svcState, svcStamp>>
    BY <1>2 DEF CallbackRuns, SetStateReturn
  <2>2. Len(log) \in Nat /\ Len(log) # 0
    BY DEF TypeOK
  <2>3. CASE callback
    BY <2>1, <2>2, <2>3
  <2>4. CASE ~callback
    BY <2>1, <2>2, <2>4 DEF TypeOK
  <2> QED
    BY <2>3, <2>4
<1>3. CASE RegisterCallback
  BY <1>3 DEF RegisterCallback, SetStateChangeCallback, serverVars
<1>4. CASE UNCHANGED sourceVars
  BY <1>4 DEF sourceVars
<1> QED
  BY <1>1, <1>2, <1>3, <1>4, SourceSteps

(***************************************************************************)
(* What the client shows of an actual message is actual, and so is the     *)
(* message a handler composes from an actual sample: the field that        *)
(* UNDEFINED leaves alone was actual before.                               *)
(***************************************************************************)
LEMMA ShownActual ==
    ASSUME NEW v \in Views, NEW m \in Messages,
           IsActual(v, UNDEFINED), IsActual(m, NOT_CHANGED)
    PROVE  IsActual(Shown(v, m), UNDEFINED)
BY DEF IsActual, Shown

LEMMA WithStateActual ==
    ASSUME TypeOK, NEW m \in Messages, NEW smp \in Samples, NEW isNew \in BOOLEAN,
           NEW b \in BOOLEAN,
           IsActual(m, NOT_CHANGED), IsActual(smp, UNDEFINED)
    PROVE  IsActual([WithState(m, smp, isNew) EXCEPT !.timed = b], NOT_CHANGED)
<1>1. WithState(m, smp, isNew) \in Messages
  BY WithStateType
<1>2. IsActual(WithState(m, smp, isNew), NOT_CHANGED)
  <2>1. CASE ~isNew
    BY <2>1 DEF WithState, IsActual, Messages
  <2>2. CASE isNew /\ smp.state = UNDEFINED
    BY <2>2 DEF WithState
  <2>3. CASE isNew /\ smp.state # UNDEFINED
    BY <2>3 DEF WithState, IsActual, Messages, Samples
  <2> QED
    BY <2>1, <2>2, <2>3
<1> QED
  BY <1>1, <1>2 DEF IsActual, Messages

(***************************************************************************)
(* HandlersOK and ReportedWasActual, one stream at a time.                 *)
(***************************************************************************)
StreamActual(st) ==
    /\ IsActual(sample[st], UNDEFINED) /\ IsActual(info[st], NOT_CHANGED)
    /\ IsActual(view[st], UNDEFINED)
    /\ \A i \in DOMAIN wire[st] : IsActual(wire[st][i], NOT_CHANGED)

LEMMA StreamsActual ==
    HandlersOK /\ ReportedWasActual <=> \A st \in Streams : StreamActual(st)
BY DEF HandlersOK, ReportedWasActual, StreamActual

LEMMA StreamsActualNext ==
    (\A st \in Streams : StreamActual(st)') => HandlersOK' /\ ReportedWasActual'
BY DEF HandlersOK, ReportedWasActual, StreamActual

(***************************************************************************)
(* The service's copy is an actual sample.                                 *)
(***************************************************************************)
LEMMA CopyActual ==
    ASSUME TypeOK, HistoryOK, CopyLagsByOne
    PROVE  IsActual([state |-> svcState, stamp |-> svcStamp], UNDEFINED)
<1>1. CASE svcStamp = 0
  BY <1>1 DEF IsActual, HistoryOK
<1>2. CASE svcStamp # 0
  <2>1. svcStamp \in 1 .. Len(log)
    BY <1>2 DEF CopyLagsByOne, TypeOK, Stamps
  <2> QED
    BY <2>1, <1>2 DEF IsActual, CopyLagsByOne, TypeOK
<1> QED
  BY <1>1, <1>2

LEMMA StreamStep ==
    ASSUME TypeOK, HistoryOK, CopyLagsByOne, HandlersOK, ReportedWasActual,
           [Next]_vars, NEW q \in Streams
    PROVE  StreamActual(q)'
<1>a. StreamActual(q)
  BY StreamsActual
<1>b. /\ sample[q] \in Samples /\ info[q] \in Messages /\ view[q] \in Views
      /\ wire[q] \in Seq(Messages)
  BY DEF TypeOK
<1>c. ASSUME UNCHANGED <<log, sample, info, view, wire>> PROVE StreamActual(q)'
  BY <1>a, <1>c DEF StreamActual, IsActual
<1> USE DEF playbackVars, serverVars, handlerVars, clientVars
<1>1. ASSUME NEW new \in PlayerStates, PlayerSetsState(new) PROVE StreamActual(q)'
  <2>1. log' = Append(log, new) /\ UNCHANGED <<sample, info, view, wire>>
    BY <1>1, StoredIsNew DEF PlayerSetsState, SetStateStore, TypeOK
  <2>2. /\ sample[q].stamp \in Nat /\ info[q].stamp \in Nat /\ view[q].stamp \in Nat
        /\ \A i \in DOMAIN wire[q] : wire[q][i].stamp \in Nat
    <3>1. \A i \in DOMAIN wire[q] : wire[q][i] \in Messages
      BY <1>b
    <3>2. \A m \in Messages : m.stamp \in Nat
      BY DEF Messages, Stamps
    <3>3. sample[q].stamp \in Nat /\ view[q].stamp \in Nat
      BY <1>b DEF Samples, Views, Stamps
    <3> QED
      BY <1>b, <3>1, <3>2, <3>3
  <2>3. IsActual(sample[q], UNDEFINED)'
    BY <1>a, <2>1, <2>2, ActualStays DEF StreamActual, IsActual
  <2>4. IsActual(info[q], NOT_CHANGED)' /\ IsActual(view[q], UNDEFINED)'
    BY <1>a, <2>1, <2>2, ActualStays DEF StreamActual, IsActual
  <2>5. ASSUME NEW i \in DOMAIN wire[q] PROVE IsActual(wire[q][i], NOT_CHANGED)'
    BY <1>a, <2>1, <2>2, ActualStays DEF StreamActual, IsActual
  <2> QED
    BY <2>1, <2>3, <2>4, <2>5 DEF StreamActual
<1>2. CASE CallbackRuns \/ RegisterCallback
  BY <1>2, <1>c DEF CallbackRuns, RegisterCallback
<1>3. ASSUME NEW v \in Volumes, VolumeCall(v) PROVE StreamActual(q)'
  BY <1>3, <1>c DEF VolumeCall
<1>4. ASSUME NEW st \in Streams, Open(st) PROVE StreamActual(q)'
  <2>1. /\ UNCHANGED <<log, info, view, wire>>
        /\ sample' = sample \/ sample' = [sample EXCEPT ![st] =
                                          [state |-> state, stamp |-> Len(log)]]
    BY <1>4 DEF Open
  <2>2. IsActual([state |-> state, stamp |-> Len(log)], UNDEFINED)
    BY DEF IsActual, HistoryOK, TypeOK
  <2>3. sample'[q] = sample[q] \/ sample'[q] = [state |-> state, stamp |-> Len(log)]
    BY <2>1 DEF TypeOK
  <2>4. IsActual(sample'[q], UNDEFINED)
    BY <1>a, <2>2, <2>3 DEF StreamActual
  <2> QED
    BY <1>a, <2>1, <2>4 DEF StreamActual, IsActual
<1>5. ASSUME NEW st \in Streams, Compose(st) PROVE StreamActual(q)'
  <2> DEFINE isNew == sample[st].state # oldState[st]
  <2>1. UNCHANGED <<log, sample, view, wire>>
    BY <1>5 DEF Compose
  <2>2. PICK available \in BOOLEAN :
          info' = [info EXCEPT ![st] =
                    [WithState(info[st], sample[st], isNew) EXCEPT
                       !.timed = WantsTimes(sample[st], isNew) /\ available]]
    BY <1>5 DEF Compose
  <2>3. IsActual(info[st], NOT_CHANGED) /\ IsActual(sample[st], UNDEFINED)
    BY DEF HandlersOK
  <2>4. info[st] \in Messages /\ sample[st] \in Samples
        /\ info \in [Streams -> Messages]
    BY DEF TypeOK
  <2>5. (WantsTimes(sample[st], isNew) /\ available) \in BOOLEAN
    BY DEF WantsTimes
  <2>6. IsActual([WithState(info[st], sample[st], isNew) EXCEPT
                    !.timed = WantsTimes(sample[st], isNew) /\ available],
                 NOT_CHANGED)
    BY <2>3, <2>4, <2>5, WithStateActual
  <2>7. IsActual(info'[q], NOT_CHANGED)
    BY <1>a, <2>2, <2>4, <2>6 DEF StreamActual
  <2> QED
    BY <1>a, <2>1, <2>7 DEF StreamActual, IsActual
<1>6. ASSUME NEW st \in Streams, QueryVolume(st) PROVE StreamActual(q)'
  <2>1. UNCHANGED <<log, sample, view, wire>>
    BY <1>6 DEF QueryVolume
  <2>2. info'[q].state = info[q].state /\ info'[q].stamp = info[q].stamp
    BY <1>6, <1>b DEF QueryVolume, TypeOK, Messages
  <2> QED
    BY <1>a, <2>1, <2>2 DEF StreamActual, IsActual
<1>7. ASSUME NEW st \in Streams, Write(st) PROVE StreamActual(q)'
  <2>1. /\ UNCHANGED <<log, sample, info, view>>
        /\ wire' = wire \/ wire' = [wire EXCEPT ![st] = Append(wire[st], info[st])]
    BY <1>7 DEF Write
  <2>2. wire'[q] = wire[q] \/ wire'[q] = Append(wire[q], info[q])
    BY <2>1 DEF TypeOK
  <2>3. ASSUME NEW i \in DOMAIN wire'[q]
        PROVE  IsActual(wire'[q][i], NOT_CHANGED)
    BY <1>a, <1>b, <2>2 DEF StreamActual
  <2> QED
    BY <1>a, <2>1, <2>3 DEF StreamActual, IsActual
<1>8. ASSUME NEW st \in Streams, Woken(st) \/ TimesOut(st) PROVE StreamActual(q)'
  <2>1. /\ UNCHANGED <<log, info, view, wire>>
        /\ sample' = [sample EXCEPT ![st] =
                        [state |-> svcState, stamp |-> svcStamp]]
    BY <1>8 DEF Woken, TimesOut, NextSample
  <2>2. sample'[q] = sample[q]
        \/ sample'[q] = [state |-> svcState, stamp |-> svcStamp]
    BY <2>1 DEF TypeOK
  <2>3. IsActual(sample'[q], UNDEFINED)
    BY <1>a, <2>2, CopyActual DEF StreamActual
  <2> QED
    BY <1>a, <2>1, <2>3 DEF StreamActual, IsActual
<1>9. ASSUME NEW st \in Streams,
             LeaveLoop(st) \/ VolumeFails(st) \/ Join(st) \/ ReaderEnds(st)
      PROVE  StreamActual(q)'
  BY <1>9, <1>c DEF LeaveLoop, VolumeFails, Join, ReaderEnds
<1>10. ASSUME NEW st \in Streams,
              ClientOpens(st) \/ ClientEnds(st) \/ ClientStops(st)
       PROVE  StreamActual(q)'
  BY <1>10, <1>c DEF ClientOpens, ClientEnds, ClientStops
<1>11. ASSUME NEW st \in Streams, ClientReads(st) PROVE StreamActual(q)'
  <2>1. UNCHANGED <<log, sample, info>> /\ wire[st] # <<>>
    BY <1>11 DEF ClientReads
  <2>2. CASE q # st
    <3>1. view'[q] = view[q] /\ wire'[q] = wire[q]
      BY <1>11, <2>2 DEF ClientReads, TypeOK
    <3> QED
      BY <1>a, <2>1, <3>1 DEF StreamActual, IsActual
  <2>3. CASE q = st
    <3>1. view'[q] = Shown(view[q], Head(wire[q])) /\ wire'[q] = Tail(wire[q])
      BY <1>11, <2>3 DEF ClientReads, TypeOK
    <3>2. Head(wire[q]) \in Messages /\ IsActual(Head(wire[q]), NOT_CHANGED)
      BY <1>a, <1>b, <2>1, <2>3 DEF StreamActual
    <3>3. IsActual(view'[q], UNDEFINED)
      BY <1>a, <1>b, <3>1, <3>2, ShownActual DEF StreamActual
    <3>4. \A i \in DOMAIN wire'[q] : IsActual(wire'[q][i], NOT_CHANGED)
      BY <1>a, <1>b, <2>1, <2>3, <3>1 DEF StreamActual
    <3> QED
      BY <1>a, <2>1, <3>3, <3>4 DEF StreamActual, IsActual
  <2> QED
    BY <2>2, <2>3
<1>12. ASSUME NEW st \in Streams, LinkDown(st) PROVE StreamActual(q)'
  <2>1. PICK kept \in 0 .. Len(wire[st]) :
          wire' = [wire EXCEPT ![st] = SubSeq(wire[st], 1, kept)]
    BY <1>12 DEF LinkDown
  <2>2. UNCHANGED <<log, sample, info, view>>
    BY <1>12 DEF LinkDown
  <2>3. \A i \in DOMAIN wire'[q] : i \in DOMAIN wire[q] /\ wire'[q][i] = wire[q][i]
    BY <1>b, <2>1 DEF TypeOK
  <2> QED
    BY <1>a, <2>2, <2>3 DEF StreamActual, IsActual
<1>13. CASE UNCHANGED vars
  BY <1>13, <1>c DEF vars
<1> QED
  BY <1>1, <1>2, <1>3, <1>4, <1>5, <1>6, <1>7, <1>8, <1>9, <1>10, <1>11, <1>12,
     <1>13 DEF Next, PlayerStep, HandlerStep, ClientStep

-----------------------------------------------------------------------------
(***************************************************************************)
(* A step leaves the state of a stream alone, except that it may wake its  *)
(* handler, or it is a step of that stream.                                *)
(***************************************************************************)
Undisturbed(q) ==
    /\ sample'[q] = sample[q] /\ oldState'[q] = oldState[q] /\ changed'[q] = changed[q]
    /\ info'[q] = info[q] /\ newVolume'[q] = newVolume[q] /\ oldVolume'[q] = oldVolume[q]
    /\ view'[q] = view[q] /\ wire'[q] = wire[q] /\ link'[q] = link[q]
    /\ clientPc'[q] = clientPc[q]
    /\ pc'[q] = pc[q] \/ (pc[q] = "wait" /\ pc'[q] = "woken")

LEMMA NotifiedWakes ==
    ASSUME NEW pcs \in [Streams -> HandlerPcs], NEW q \in Streams
    PROVE  Notified(pcs)[q] = pcs[q] \/ (pcs[q] = "wait" /\ Notified(pcs)[q] = "woken")
BY DEF Notified

LEMMA OneStreamMoves ==
    ASSUME TypeOK, [Next]_vars, NEW q \in Streams
    PROVE  \/ Undisturbed(q)
           \/ HandlerStep(q) \/ VolumeFails(q) \/ TimesOut(q)
           \/ ClientStep(q) \/ LinkDown(q)
<1> USE DEF Undisturbed, playbackVars, serverVars, handlerVars, clientVars
<1>0. pc \in [Streams -> HandlerPcs]
  BY DEF TypeOK
<1>1. CASE PlayerStep
  <2>1. ASSUME NEW new \in PlayerStates, PlayerSetsState(new) PROVE Undisturbed(q)
    BY <2>1 DEF PlayerSetsState
  <2>2. CASE CallbackRuns
    BY <2>2, <1>0, NotifiedWakes DEF CallbackRuns
  <2>3. CASE RegisterCallback
    BY <2>3 DEF RegisterCallback
  <2>4. ASSUME NEW v \in Volumes, VolumeCall(v) PROVE Undisturbed(q)
    BY <2>4, <1>0, NotifiedWakes DEF VolumeCall
  <2> QED
    BY <1>1, <2>1, <2>2, <2>3, <2>4 DEF PlayerStep
<1>2. ASSUME NEW st \in Streams, st # q, HandlerStep(st) PROVE Undisturbed(q)
  BY <1>2 DEF HandlerStep, Open, Compose, LeaveLoop, QueryVolume, Write, Woken,
              NextSample, Join, TypeOK
<1>3. ASSUME NEW st \in Streams, st # q, VolumeFails(st) \/ TimesOut(st) \/ LinkDown(st)
      PROVE  Undisturbed(q)
  BY <1>3 DEF VolumeFails, TimesOut, NextSample, LinkDown, TypeOK
<1>4. ASSUME NEW st \in Streams, ReaderEnds(st) PROVE Undisturbed(q)
  BY <1>4, <1>0, NotifiedWakes DEF ReaderEnds
<1>5. ASSUME NEW st \in Streams, st # q, ClientStep(st) PROVE Undisturbed(q)
  BY <1>5 DEF ClientStep, ClientOpens, ClientReads, ClientEnds, ClientStops, TypeOK
<1>6. CASE UNCHANGED vars
  BY <1>6 DEF vars
<1> QED
  BY <1>1, <1>2, <1>3, <1>4, <1>5, <1>6 DEF Next

(***************************************************************************)
(* What the copy will hold next is at most one state behind the player,    *)
(* and never older than before.                                            *)
(***************************************************************************)
LEMMA NextCopyRange ==
    ASSUME TypeOK, HistoryOK, CopyLagsByOne
    PROVE  NextCopy \in Nat /\ NextCopy <= Len(log) /\ Len(log) <= NextCopy + 1
<1>1. Len(log) \in Nat /\ svcStamp \in Nat
  BY DEF TypeOK, Stamps
<1> QED
  BY <1>1 DEF NextCopy, CopyLagsByOne

LEMMA NextCopyGrows ==
    ASSUME TypeOK, HistoryOK, CopyLagsByOne, [Next]_vars
    PROVE  NextCopy' \in Nat /\ NextCopy <= NextCopy'
<1>1. NextCopy \in Nat /\ NextCopy <= Len(log) /\ Len(log) \in Nat /\ svcStamp \in Nat
  BY NextCopyRange DEF TypeOK, Stamps
<1>2. ASSUME NEW new \in PlayerStates, PlayerSetsState(new)
      PROVE  NextCopy' \in Nat /\ NextCopy <= NextCopy'
  <2>1. Len(log') = Len(log) + 1 /\ svcStamp' = svcStamp
    BY <1>2, StoredIsNew DEF PlayerSetsState, SetStateStore, TypeOK
  <2> QED
    BY <1>1, <2>1 DEF NextCopy
<1>3. CASE CallbackRuns
  <2>1. log' = log /\ (svcStamp' = svcStamp \/ svcStamp' = Len(log))
    BY <1>3 DEF CallbackRuns
  <2> QED
    BY <1>1, <2>1 DEF NextCopy
<1>4. CASE RegisterCallback \/ UNCHANGED sourceVars
  BY <1>1, <1>4 DEF NextCopy, RegisterCallback, sourceVars, serverVars
<1> QED
  BY <1>2, <1>3, <1>4, SourceSteps

(***************************************************************************)
(* Positions of the states on their way to a client are numbers; a client  *)
(* that is settled has had a first state.                                  *)
(***************************************************************************)
LEMMA StampType ==
    ASSUME TypeOK, NEW q \in Streams
    PROVE  /\ Len(wire[q]) \in Nat
           /\ \A i \in 0 .. Len(wire[q]) : Stamp(q, i) \in Nat
           /\ sample[q].stamp \in Nat /\ info[q].stamp \in Nat /\ view[q].stamp \in Nat
<1>1. /\ sample[q] \in Samples /\ info[q] \in Messages /\ view[q] \in Views
      /\ wire[q] \in Seq(Messages)
  BY DEF TypeOK
<1>2. \A i \in 1 .. Len(wire[q]) : wire[q][i].stamp \in Nat
  <2>1. \A i \in 1 .. Len(wire[q]) : wire[q][i] \in Messages
    BY <1>1
  <2> QED
    BY <2>1 DEF Messages, Stamps
<1> QED
  BY <1>1, <1>2 DEF Samples, Messages, Views, Stamps, Stamp

(***************************************************************************)
(* If every state that is on its way after a step was on its way before    *)
(* it, in the same order, and the first one is still the first, then what  *)
(* may follow it may still follow, and the wire stays in order.            *)
(***************************************************************************)
From(q, g) ==
    /\ \A i \in News(q)' :
         /\ g[i] \in News(q) /\ Stamp(q, i)' = Stamp(q, g[i])
         /\ IsFirst(q, g[i]) => IsFirst(q, i)'
    /\ \A i, j \in News(q)' : i < j => g[i] < g[j]
    /\ view'[q].settled => view'[q].stamp # 0

LEMMA FollowsFrom ==
    ASSUME NEW q, NEW g, From(q, g), NEW s, NEW i \in News(q)', MayFollow(q, g[i], s)
    PROVE  MayFollow(q, i, s)'
BY DEF From, MayFollow

LEMMA WireFrom ==
    ASSUME TypeOK, HistoryOK, CopyLagsByOne, [Next]_vars, NEW q \in Streams,
           WireInOrder(q), NEW g, From(q, g)
    PROVE  WireInOrder(q)'
<1>1. /\ NextCopy \in Nat /\ NextCopy' \in Nat /\ NextCopy <= NextCopy'
      /\ \A i \in News(q) : Stamp(q, i) \in Nat
  BY NextCopyRange, NextCopyGrows, StampType DEF News
<1>2. ASSUME NEW i \in News(q)' PROVE (IsFirst(q, i) \/ Stamp(q, i) <= NextCopy)'
  <2>1. g[i] \in News(q) /\ Stamp(q, i)' = Stamp(q, g[i])
        /\ (IsFirst(q, g[i]) => IsFirst(q, i)')
    BY DEF From
  <2>2. IsFirst(q, g[i]) \/ Stamp(q, g[i]) <= NextCopy
    BY <2>1 DEF WireInOrder
  <2> QED
    BY <1>1, <2>1, <2>2
<1>3. ASSUME NEW i \in News(q)', NEW j \in News(q)', i < j
      PROVE  MayFollow(q, i, Stamp(q, j))'
  <2>1. /\ g[i] \in News(q) /\ g[j] \in News(q) /\ g[i] < g[j]
        /\ Stamp(q, j)' = Stamp(q, g[j])
    BY <1>3 DEF From
  <2>2. MayFollow(q, g[i], Stamp(q, g[j]))
    BY <2>1 DEF WireInOrder
  <2> QED
    BY <2>1, <2>2 DEF MayFollow, From
<1> QED
  BY <1>2, <1>3 DEF WireInOrder, From

(***************************************************************************)
(* A message carries a stamp exactly if it carries a state.                *)
(***************************************************************************)
LEMMA NewsHaveStates ==
    ASSUME TypeOK, NEW m \in Messages, IsActual(m, NOT_CHANGED)
    PROVE  m.state # NOT_CHANGED <=> m.stamp # 0
<1>1. CASE m.stamp = 0
  BY <1>1 DEF IsActual
<1>2. CASE m.stamp # 0
  <2>1. m.state \in PlayerStates
    BY <1>2 DEF IsActual, TypeOK
  <2> QED
    BY <1>2, <2>1 DEF PlayerStates, PLAYING, PAUSED, STOPPED, NOT_CHANGED
<1> QED
  BY <1>1, <1>2

(***************************************************************************)
(* The three ways in which states stay in order: nothing is read or lost,  *)
(* the end of the wire is lost, or the first message is read.              *)
(***************************************************************************)
Here == [i \in Nat |-> i]

LEMMA StayFrom ==
    ASSUME NEW q, view'[q] = view[q], wire'[q] = wire[q], Len(wire[q]) \in Nat,
           WireInOrder(q)
    PROVE  From(q, Here)
<1>1. News(q)' = News(q) /\ News(q) \subseteq Nat
  BY DEF News, Stamp
<1>2. \A i \in News(q) : Stamp(q, i)' = Stamp(q, i) /\ (IsFirst(q, i) => IsFirst(q, i)')
  BY <1>1 DEF Stamp, IsFirst
<1> QED
  BY <1>1, <1>2 DEF From, Here, WireInOrder

LEMMA CutFrom ==
    ASSUME TypeOK, NEW q \in Streams, WireInOrder(q), LinkDown(q)
    PROVE  From(q, Here)
<1>1. PICK kept \in 0 .. Len(wire[q]) :
        wire' = [wire EXCEPT ![q] = SubSeq(wire[q], 1, kept)]
  BY DEF LinkDown
<1>2. wire[q] \in Seq(Messages) /\ view' = view
  BY DEF TypeOK, LinkDown, clientVars
<1>3. wire'[q] = SubSeq(wire[q], 1, kept)
  BY <1>1 DEF TypeOK
<1>4. Len(wire'[q]) = kept /\ \A i \in 1 .. kept : wire'[q][i] = wire[q][i]
  BY <1>2, <1>3
<1>5. News(q)' \subseteq News(q) /\ News(q) \subseteq Nat
  BY <1>2, <1>4 DEF News, Stamp
<1>6. \A i \in News(q)' : Stamp(q, i)' = Stamp(q, i)
  BY <1>2, <1>4 DEF News, Stamp
<1>7. \A i \in News(q)' : IsFirst(q, i) => IsFirst(q, i)'
  BY <1>2, <1>5 DEF IsFirst
<1> QED
  BY <1>2, <1>5, <1>6, <1>7 DEF From, Here, WireInOrder

\* Where a message was before the first one was read.
Before(q) == [i \in Nat |-> IF i = 0 /\ wire[q][1].stamp = 0 THEN 0 ELSE i + 1]

LEMMA ReadFrom ==
    ASSUME TypeOK, ReportedWasActual, NEW q \in Streams, WireInOrder(q), ClientReads(q)
    PROVE  From(q, Before(q))
<1> DEFINE m == wire[q][1]
<1>1. /\ wire[q] \in Seq(Messages) /\ wire[q] # <<>> /\ m \in Messages
      /\ view[q] \in Views
      /\ view'[q] = Shown(view[q], m) /\ wire'[q] = Tail(wire[q])
  BY DEF ClientReads, TypeOK
<1>2. m.state # NOT_CHANGED <=> m.stamp # 0
  BY <1>1, NewsHaveStates DEF ReportedWasActual
<1>3. /\ Len(wire[q]) \in Nat /\ Len(wire'[q]) = Len(wire[q]) - 1
      /\ \A i \in 1 .. Len(wire'[q]) : wire'[q][i] = wire[q][i + 1]
  BY <1>1
<1>4. CASE m.stamp = 0
  <2>1. view'[q].stamp = view[q].stamp /\ view'[q].settled = view[q].settled
    BY <1>1, <1>2, <1>4 DEF Shown, Views
  <2>2. 1 \notin News(q)
    BY <1>4 DEF News, Stamp
  <2>3. \A i \in News(q)' : Before(q)[i] \in News(q)
                          /\ Stamp(q, i)' = Stamp(q, Before(q)[i])
    BY <1>3, <1>4, <2>1 DEF News, Stamp, Before
  <2>4. ASSUME NEW i \in News(q)', IsFirst(q, Before(q)[i]) PROVE IsFirst(q, i)'
    <3>1. ASSUME NEW k \in News(q)' PROVE i <= k
      <4>1. Before(q)[k] \in News(q) /\ Before(q)[i] <= Before(q)[k]
        BY <2>3, <2>4 DEF IsFirst
      <4>2. i \in Nat /\ k \in Nat
        BY <1>3 DEF News
      <4> QED
        BY <4>1, <4>2, <1>4, <2>2 DEF Before
    <3> QED
      BY <2>1, <2>4, <3>1 DEF IsFirst
  <2>5. \A i, j \in News(q)' : i < j => Before(q)[i] < Before(q)[j]
    BY <1>3, <1>4 DEF News, Before
  <2> QED
    BY <2>1, <2>3, <2>4, <2>5 DEF From, WireInOrder
<1>5. CASE m.stamp # 0
  <2>1. /\ view'[q].stamp = m.stamp
        /\ view'[q].settled = (view[q].settled \/ view[q].stamp # 0)
    BY <1>1, <1>2, <1>5 DEF Shown, Views
  <2>2. 0 \in News(q)' /\ 1 \in News(q) /\ News(q)' \subseteq Nat /\ News(q) \subseteq Nat
    BY <1>1, <1>3, <1>5, <2>1 DEF News, Stamp
  <2>3. \A i \in News(q)' : Before(q)[i] = i + 1
    BY <1>5, <2>2 DEF Before
  <2>4. \A i \in News(q)' : i + 1 \in News(q) /\ Stamp(q, i)' = Stamp(q, i + 1)
    BY <1>3, <1>5, <2>1 DEF News, Stamp
  <2>5. ASSUME NEW i \in News(q)', IsFirst(q, i + 1) PROVE IsFirst(q, i)'
    <3>1. i = 0 /\ 0 \notin News(q) /\ ~view[q].settled
      BY <2>2, <2>5 DEF IsFirst
    <3>2. view[q].stamp = 0
      BY <1>3, <3>1 DEF News, Stamp
    <3>3. ~view'[q].settled
      BY <2>1, <3>1, <3>2
    <3>4. \A k \in News(q)' : i <= k
      BY <2>2, <3>1
    <3> QED
      BY <3>3, <3>4 DEF IsFirst
  <2> QED
    BY <1>5, <2>1, <2>2, <2>3, <2>4, <2>5 DEF From
<1> QED
  BY <1>4, <1>5

LEMMA HandlerFrom ==
    ASSUME TypeOK, HistoryOK, CopyLagsByOne, [Next]_vars, NEW q \in Streams,
           HandlerInOrder(q), NEW g, From(q, g),
           sample'[q] = sample[q], oldState'[q] = oldState[q], info'[q] = info[q],
           clientPc'[q] = "idle" => clientPc[q] = "idle",
           \/ pc'[q] = pc[q]
           \/ pc[q] # "none" /\ pc'[q] \in {"wait", "woken", "join", "done"}
    PROVE  HandlerInOrder(q)'
<1>1. /\ NextCopy \in Nat /\ NextCopy' \in Nat /\ NextCopy <= NextCopy'
      /\ sample[q].stamp \in Nat /\ info[q].stamp \in Nat
  BY NextCopyRange, NextCopyGrows, StampType
<1>2. News(q) = {} => News(q)' = {}
  BY DEF From
<1>3. ASSUME NEW s, \A i \in News(q) : MayFollow(q, i, s)
      PROVE  \A i \in News(q)' : MayFollow(q, i, s)'
  BY <1>3, FollowsFrom DEF From
<1>4. info'[q].stamp # 0 => \A i \in News(q)' : MayFollow(q, i, info[q].stamp)'
  BY <1>3 DEF HandlerInOrder
<1>5. pc'[q] = "compose" /\ sample'[q].stamp # 0 /\ sample'[q].state # oldState'[q]
        => \A i \in News(q)' : MayFollow(q, i, sample[q].stamp)'
  BY <1>3 DEF HandlerInOrder
<1> QED
  BY <1>1, <1>2, <1>4, <1>5 DEF HandlerInOrder, MayFollow

(***************************************************************************)
(* A sample has a stamp unless it is UNDEFINED, and so the message composed *)
(* from it has its stamp, none, or the one the message had before.         *)
(***************************************************************************)
LEMMA ComposedStamp ==
    ASSUME TypeOK, HandlersOK, NEW q \in Streams, Compose(q)
    PROVE  \/ info'[q].stamp = 0
           \/ /\ sample[q].stamp # 0 /\ sample[q].state # oldState[q]
              /\ info'[q].stamp = sample[q].stamp
           \/ sample[q].stamp = 0 /\ info'[q].stamp = info[q].stamp
<1> DEFINE isNew == sample[q].state # oldState[q]
<1>1. info[q] \in Messages /\ sample[q] \in Samples /\ info \in [Streams -> Messages]
  BY DEF TypeOK
<1>2. PICK available \in BOOLEAN :
        info' = [info EXCEPT ![q] = [WithState(info[q], sample[q], isNew) EXCEPT
                   !.timed = WantsTimes(sample[q], isNew) /\ available]]
  BY DEF Compose
<1>3. WithState(info[q], sample[q], isNew) \in Messages
  BY <1>1, WithStateType
<1>4. info'[q].stamp = WithState(info[q], sample[q], isNew).stamp
  BY <1>1, <1>2, <1>3 DEF Messages
<1>5. sample[q].state = UNDEFINED => sample[q].stamp = 0
  <2>1. IsActual(sample[q], UNDEFINED)
    BY DEF HandlersOK
  <2>2. \A i \in DOMAIN log : log[i] \in PlayerStates
    BY DEF TypeOK
  <2>3. UNDEFINED \notin PlayerStates
    BY DEF PlayerStates, PLAYING, PAUSED, STOPPED, UNDEFINED
  <2> QED
    BY <2>1, <2>2, <2>3 DEF IsActual
<1>6. sample[q].stamp = 0 => sample[q].state = UNDEFINED
  BY DEF HandlersOK, IsActual
<1>7. CASE ~isNew
  BY <1>1, <1>4, <1>7 DEF WithState, Messages
<1>8. CASE isNew /\ sample[q].state = UNDEFINED
  BY <1>4, <1>5, <1>8 DEF WithState
<1>9. CASE isNew /\ sample[q].state # UNDEFINED
  BY <1>1, <1>4, <1>6, <1>9 DEF WithState, Messages
<1> QED
  BY <1>7, <1>8, <1>9

(***************************************************************************)
(* A message that may follow all those before it may be written.           *)
(***************************************************************************)
LEMMA AppendInOrder ==
    ASSUME TypeOK, HistoryOK, CopyLagsByOne, [Next]_vars, NEW q \in Streams,
           WireInOrder(q), HandlerInOrder(q), pc[q] = "write",
           wire'[q] = Append(wire[q], info[q]), view'[q] = view[q], info'[q] = info[q]
    PROVE  /\ WireInOrder(q)'
           /\ info[q].stamp # 0 => \A i \in News(q)' : MayFollow(q, i, info[q].stamp)'
<1>0. Len(wire[q]) \in Nat
  BY StampType
<1>n. PICK n \in Nat : n = Len(wire[q]) + 1
  BY <1>0
<1>1. /\ NextCopy \in Nat /\ NextCopy' \in Nat /\ NextCopy <= NextCopy'
      /\ info[q].stamp \in Nat /\ n \in Nat /\ n > 0 /\ view[q].stamp \in Nat
      /\ \A i \in News(q) : Stamp(q, i) \in Nat
  BY <1>0, <1>n, NextCopyRange, NextCopyGrows, StampType DEF News
<1>2. /\ Len(wire'[q]) = n /\ wire'[q][n] = info[q]
      /\ \A i \in 1 .. Len(wire[q]) : wire'[q][i] = wire[q][i]
  BY <1>n DEF TypeOK
<1>3. /\ Stamp(q, n)' = info[q].stamp
      /\ \A i \in 0 .. Len(wire[q]) : Stamp(q, i)' = Stamp(q, i)
  BY <1>0, <1>n, <1>1, <1>2 DEF Stamp
<1>4. News(q)' = News(q) \cup (IF info[q].stamp # 0 THEN {n} ELSE {})
  BY <1>0, <1>n, <1>1, <1>2, <1>3 DEF News
<1>5. \A i \in News(q) : i \in 0 .. Len(wire[q]) /\ i < n
  BY <1>0, <1>n DEF News
<1>6. \A i \in News(q) : IsFirst(q, i) => IsFirst(q, i)'
  BY <1>1, <1>4, <1>5 DEF IsFirst
<1>7. \A i \in News(q) : \A s : MayFollow(q, i, s) => MayFollow(q, i, s)'
  BY <1>3, <1>5, <1>6 DEF MayFollow
<1>8. News(q) = {} /\ info[q].stamp # 0 => IsFirst(q, n)'
  <2>1. ASSUME News(q) = {}, info[q].stamp # 0 PROVE IsFirst(q, n)'
    <3>1. view[q].stamp = 0
      BY <1>0, <1>1, <2>1 DEF News, Stamp
    <3>2. ~view[q].settled
      BY <3>1 DEF WireInOrder
    <3> QED
      BY <1>1, <1>4, <2>1, <3>2 DEF IsFirst
  <2> QED
    BY <2>1
<1>9. ASSUME info[q].stamp # 0, NEW i \in News(q)'
      PROVE  MayFollow(q, i, info[q].stamp)'
  <2>1. CASE i \in News(q)
    BY <1>7, <1>9, <2>1 DEF HandlerInOrder
  <2>2. CASE i = n
    BY <1>1, <1>3, <2>2 DEF MayFollow
  <2> QED
    BY <1>4, <2>1, <2>2
<1>10. ASSUME NEW i \in News(q)', NEW j \in News(q)', i < j
       PROVE  MayFollow(q, i, Stamp(q, j))'
  <2>1. i \in News(q)
    BY <1>1, <1>4, <1>5, <1>10
  <2>2. CASE j \in News(q)
    <3>1. MayFollow(q, i, Stamp(q, j))
      BY <1>10, <2>1, <2>2 DEF WireInOrder
    <3>2. Stamp(q, j)' = Stamp(q, j)
      BY <1>3, <1>5, <2>2
    <3> QED
      BY <1>3, <1>5, <1>6, <2>1, <3>1, <3>2 DEF MayFollow
  <2>3. CASE j = n /\ info[q].stamp # 0
    <3>1. MayFollow(q, i, info[q].stamp)'
      BY <1>9, <2>3
    <3> QED
      BY <1>3, <2>3, <3>1 DEF MayFollow
  <2> QED
    BY <1>4, <2>2, <2>3
<1>11. ASSUME NEW i \in News(q)' PROVE (IsFirst(q, i) \/ Stamp(q, i) <= NextCopy)'
  <2>1. CASE i \in News(q)
    <3>1. IsFirst(q, i) \/ Stamp(q, i) <= NextCopy
      BY <2>1 DEF WireInOrder
    <3>2. Stamp(q, i)' = Stamp(q, i) /\ Stamp(q, i) \in Nat
      BY <1>1, <1>3, <1>5, <2>1
    <3> QED
      BY <1>1, <1>6, <2>1, <3>1, <3>2
  <2>2. CASE i = n /\ info[q].stamp # 0
    BY <1>1, <1>3, <1>8, <2>2 DEF HandlerInOrder
  <2> QED
    BY <1>4, <2>1, <2>2
<1>12. view'[q].settled => view'[q].stamp # 0
  BY DEF WireInOrder
<1> QED
  BY <1>9, <1>10, <1>11, <1>12 DEF WireInOrder

(***************************************************************************)
(* The states of every stream stay in order.                               *)
(***************************************************************************)
LEMMA OrderStep ==
    ASSUME TypeOK, HistoryOK, CopyLagsByOne, HandlersOK, ReportedWasActual, OrderOK,
           [Next]_vars, NEW q \in Streams
    PROVE  WireInOrder(q)' /\ HandlerInOrder(q)'
<1>a. WireInOrder(q) /\ HandlerInOrder(q)
  BY DEF OrderOK
<1>b. /\ NextCopy \in Nat /\ NextCopy' \in Nat /\ NextCopy <= NextCopy'
      /\ NextCopy <= Len(log) /\ Len(log) <= NextCopy + 1 /\ Len(log) \in Nat
      /\ sample[q].stamp \in Nat /\ info[q].stamp \in Nat /\ svcStamp \in Nat
      /\ \A i \in News(q) : Stamp(q, i) \in Nat
  BY NextCopyRange, NextCopyGrows, StampType DEF TypeOK, Stamps, News
<1>c. ASSUME view'[q] = view[q], wire'[q] = wire[q]
      PROVE  /\ From(q, Here) /\ WireInOrder(q)'
             /\ News(q)' = News(q)
             /\ \A s : (\A i \in News(q) : MayFollow(q, i, s))
                         => \A i \in News(q)' : MayFollow(q, i, s)'
  <2>1. Len(wire[q]) \in Nat
    BY StampType
  <2>2. From(q, Here)
    BY <1>a, <1>c, <2>1, StayFrom
  <2>3. News(q)' = News(q) /\ News(q) \subseteq Nat
    BY <1>c, <2>1 DEF News, Stamp
  <2>4. ASSUME NEW s, \A i \in News(q) : MayFollow(q, i, s), NEW i \in News(q)'
        PROVE  MayFollow(q, i, s)'
    BY <2>2, <2>3, <2>4, FollowsFrom DEF Here
  <2> QED
    BY <1>a, <2>2, <2>3, <2>4, WireFrom
<1>1. CASE Undisturbed(q)
  BY <1>1, <1>a, <1>c, HandlerFrom DEF Undisturbed
<1> USE DEF playbackVars, serverVars, handlerVars, clientVars
<1>2. CASE Open(q)
  <2>1. /\ view'[q] = view[q] /\ wire'[q] = wire[q] /\ info' = info
        /\ clientPc' = clientPc /\ pc[q] = "opening"
    BY <1>2 DEF Open
  <2>2. \/ pc'[q] = "compose" /\ sample'[q].stamp = Len(log)
        \/ pc'[q] = "done" /\ sample' = sample
    BY <1>2 DEF Open, TypeOK
  <2>3. News(q)' = {} /\ info'[q].stamp = 0 /\ clientPc'[q] # "idle"
    BY <1>a, <1>c, <2>1 DEF HandlerInOrder
  <2>4. WireInOrder(q)'
    BY <1>c, <2>1
  <2> QED
    BY <1>b, <2>2, <2>3, <2>4 DEF HandlerInOrder
<1>3. CASE Compose(q)
  <2>1. /\ view'[q] = view[q] /\ wire'[q] = wire[q] /\ sample' = sample
        /\ clientPc' = clientPc /\ pc[q] = "compose" /\ pc'[q] = "volume"
        /\ oldState'[q] = sample[q].state
    BY <1>3 DEF Compose, TypeOK
  <2>2. \/ info'[q].stamp = 0
        \/ /\ sample[q].stamp # 0 /\ sample[q].state # oldState[q]
           /\ info'[q].stamp = sample[q].stamp
        \/ sample[q].stamp = 0 /\ info'[q].stamp = info[q].stamp
    BY <1>3, ComposedStamp
  <2>3. info'[q].stamp # 0 => \A i \in News(q) : MayFollow(q, i, info'[q].stamp)
    BY <1>a, <2>1, <2>2 DEF HandlerInOrder
  <2>4. PICK s \in Nat : s = info'[q].stamp
    BY <1>b, <2>2
  <2>5. s # 0 => \A i \in News(q)' : MayFollow(q, i, s)'
    BY <1>c, <2>1, <2>3, <2>4
  <2>6. info'[q].stamp # 0 => \A i \in News(q)' : MayFollow(q, i, info[q].stamp)'
    BY <2>4, <2>5 DEF MayFollow
  <2>7. News(q) # {} => info'[q].stamp <= NextCopy /\ sample[q].stamp <= NextCopy
    BY <1>a, <1>b, <2>1, <2>2 DEF HandlerInOrder
  <2>8. sample[q].stamp = 0 => info'[q].stamp <= NextCopy
    BY <1>a, <1>b, <2>1, <2>2 DEF HandlerInOrder
  <2>9. clientPc[q] # "idle"
    BY <1>a, <2>1 DEF HandlerInOrder
  <2>10. info'[q].stamp \in Nat
    BY <1>b, <2>2
  <2>11. WireInOrder(q)' /\ News(q)' = News(q)
    BY <1>c, <2>1
  <2> QED
    BY <1>b, <2>1, <2>6, <2>7, <2>8, <2>9, <2>10, <2>11 DEF HandlerInOrder
<1>4. CASE LeaveLoop(q) \/ Join(q)
  <2>1. /\ view'[q] = view[q] /\ wire'[q] = wire[q] /\ sample' = sample /\ info' = info
        /\ oldState' = oldState /\ clientPc' = clientPc
        /\ pc[q] # "none" /\ pc'[q] \in {"join", "done"}
    BY <1>4 DEF LeaveLoop, Join, TypeOK
  <2> QED
    BY <1>a, <1>c, <2>1, HandlerFrom
<1>5. CASE QueryVolume(q) \/ VolumeFails(q)
  <2>1. /\ view'[q] = view[q] /\ wire'[q] = wire[q] /\ sample' = sample
        /\ oldState' = oldState /\ clientPc' = clientPc
        /\ pc[q] = "volume" /\ pc'[q] \in {"write", "compose"}
    BY <1>5 DEF QueryVolume, VolumeFails, TypeOK
  <2>2. info'[q].stamp = info[q].stamp
    BY <1>5 DEF QueryVolume, VolumeFails, TypeOK, Messages
  <2>3. info[q].stamp # 0 => \A i \in News(q)' : MayFollow(q, i, info[q].stamp)'
    <3>1. PICK s \in Nat : s = info[q].stamp
      BY <1>b
    <3>2. s # 0 => \A i \in News(q)' : MayFollow(q, i, s)'
      BY <1>a, <1>c, <2>1, <3>1 DEF HandlerInOrder
    <3> QED
      BY <2>2, <3>1, <3>2 DEF MayFollow
  <2>4. WireInOrder(q)' /\ News(q)' = News(q)
    BY <1>c, <2>1
  <2> QED
    BY <1>a, <1>b, <2>1, <2>2, <2>3, <2>4 DEF HandlerInOrder
<1>6. CASE Write(q)
  <2>1. /\ view'[q] = view[q] /\ sample' = sample /\ info' = info
        /\ oldState' = oldState /\ clientPc' = clientPc
        /\ pc[q] = "write" /\ pc'[q] \in {"wait", "join"}
    BY <1>6 DEF Write, TypeOK
  <2>2. CASE wire' = wire
    BY <1>a, <1>c, <2>1, <2>2, HandlerFrom
  <2>3. CASE wire'[q] = Append(wire[q], info[q])
    <3>1. /\ WireInOrder(q)'
          /\ info[q].stamp # 0 => \A i \in News(q)' : MayFollow(q, i, info[q].stamp)'
      BY <1>a, <2>1, <2>3, AppendInOrder
    <3>2. clientPc[q] # "idle"
      BY <1>a, <2>1 DEF HandlerInOrder
    <3> QED
      BY <2>1, <3>1, <3>2 DEF HandlerInOrder
  <2> QED
    BY <1>6, <2>2, <2>3 DEF Write, TypeOK
<1>7. CASE Woken(q) \/ TimesOut(q)
  <2>1. /\ view'[q] = view[q] /\ wire'[q] = wire[q] /\ info' = info
        /\ log' = log /\ svcStamp' = svcStamp
        /\ clientPc' = clientPc /\ pc[q] \in {"wait", "woken"} /\ pc'[q] = "compose"
        /\ sample'[q].stamp = svcStamp
    BY <1>7 DEF Woken, TimesOut, NextSample, TypeOK
  <2>2. WireInOrder(q)' /\ News(q)' = News(q) /\ NextCopy' = NextCopy
    BY <1>c, <2>1 DEF NextCopy
  <2>3. svcStamp # 0 => \A i \in News(q) : MayFollow(q, i, svcStamp)
    <3>1. ASSUME svcStamp # 0, NEW i \in News(q) PROVE MayFollow(q, i, svcStamp)
      <4>1. CASE IsFirst(q, i)
        <5>1. Stamp(q, i) <= Len(log)
          <6>1. CASE i = 0
            BY <1>b, <3>1, <6>1 DEF News, Stamp, ReportedWasActual, IsActual, TypeOK
          <6>2. CASE i # 0
            <7>1. i \in DOMAIN wire[q] /\ wire[q][i].stamp # 0
              BY <3>1, <6>2 DEF News, Stamp, TypeOK
            <7>2. wire[q][i].stamp \in DOMAIN log
              BY <7>1 DEF ReportedWasActual, IsActual
            <7> QED
              BY <6>2, <7>2 DEF Stamp, TypeOK
          <6> QED
            BY <6>1, <6>2
        <5> QED
          BY <1>b, <3>1, <4>1, <5>1 DEF MayFollow, NextCopy
      <4>2. CASE ~IsFirst(q, i)
        BY <1>a, <3>1, <4>2 DEF WireInOrder, MayFollow, NextCopy
      <4> QED
        BY <4>1, <4>2
    <3> QED
      BY <3>1
  <2>4. PICK s \in Nat : s = svcStamp
    BY <1>b
  <2>5. s # 0 => \A i \in News(q)' : MayFollow(q, i, s)'
    BY <1>c, <2>1, <2>3, <2>4
  <2>6. sample'[q].stamp # 0 => \A i \in News(q)' : MayFollow(q, i, sample[q].stamp)'
    BY <2>1, <2>4, <2>5 DEF MayFollow
  <2>7. info[q].stamp # 0 => \A i \in News(q)' : MayFollow(q, i, info[q].stamp)'
    <3>1. PICK t \in Nat : t = info[q].stamp
      BY <1>b
    <3>2. t # 0 => \A i \in News(q)' : MayFollow(q, i, t)'
      BY <1>a, <1>c, <2>1, <3>1 DEF HandlerInOrder
    <3> QED
      BY <2>1, <3>1, <3>2 DEF MayFollow
  <2>8. info[q].stamp <= Len(log)
    <3>1. IsActual(info[q], NOT_CHANGED) /\ DOMAIN log = 1 .. Len(log)
      BY DEF HandlersOK, TypeOK
    <3> QED
      BY <1>b, <3>1 DEF IsActual
  <2>9. clientPc[q] # "idle"
    BY <1>a, <2>1 DEF HandlerInOrder
  <2>10. svcStamp <= NextCopy /\ (svcStamp = 0 => info[q].stamp <= NextCopy)
    BY <1>b, <2>8 DEF NextCopy
  <2> QED
    BY <1>b, <2>1, <2>2, <2>6, <2>7, <2>9, <2>10 DEF HandlerInOrder
<1>8. CASE ClientOpens(q)
  <2>1. /\ view'[q] = view[q] /\ wire'[q] = wire[q] /\ info' = info
        /\ clientPc[q] = "idle" /\ clientPc'[q] = "reading" /\ pc'[q] = "opening"
    BY <1>8 DEF ClientOpens, TypeOK
  <2>2. WireInOrder(q)' /\ News(q)' = {} /\ info'[q].stamp = 0
    BY <1>a, <1>c, <2>1 DEF HandlerInOrder
  <2> QED
    BY <2>1, <2>2 DEF HandlerInOrder
<1>9. CASE ClientReads(q)
  <2>1. From(q, Before(q))
    BY <1>a, <1>9, ReadFrom
  <2>2. WireInOrder(q)'
    BY <1>a, <2>1, WireFrom
  <2>3. HandlerInOrder(q)'
    BY <1>a, <1>9, <2>1, HandlerFrom DEF ClientReads
  <2> QED
    BY <2>2, <2>3
<1>10. CASE ClientEnds(q) \/ ClientStops(q)
  <2>1. /\ view'[q] = view[q] /\ wire'[q] = wire[q] /\ info' = info
        /\ sample' = sample /\ oldState' = oldState /\ pc' = pc
        /\ clientPc'[q] = "idle" => clientPc[q] = "idle"
    BY <1>10 DEF ClientEnds, ClientStops, TypeOK
  <2> QED
    BY <1>a, <1>c, <2>1, HandlerFrom
<1>11. CASE LinkDown(q)
  <2>1. From(q, Here)
    BY <1>a, <1>11, CutFrom
  <2>2. WireInOrder(q)'
    BY <1>a, <2>1, WireFrom
  <2>3. HandlerInOrder(q)'
    BY <1>a, <1>11, <2>1, HandlerFrom DEF LinkDown
  <2> QED
    BY <2>2, <2>3
<1> QED
  BY <1>1, <1>2, <1>3, <1>4, <1>5, <1>6, <1>7, <1>8, <1>9, <1>10, <1>11,
     OneStreamMoves DEF HandlerStep, ClientStep

-----------------------------------------------------------------------------
(***************************************************************************)
(* What the messages add up to: a message without a state leaves the last  *)
(* state as it was, one with a state replaces it, and reading the first    *)
(* message changes nothing.                                                *)
(***************************************************************************)
LEMMA StateAppended ==
    ASSUME TypeOK, NEW q \in Streams, view'[q] = view[q],
           NEW m \in Messages, wire'[q] = Append(wire[q], m), NEW s,
           m.state = s \/ (m.state = NOT_CHANGED /\ LastStateIs(q, s))
    PROVE  LastStateIs(q, s)'
<1>1. wire[q] \in Seq(Messages) /\ Len(wire[q]) \in Nat
  BY DEF TypeOK
<1>2. PICK n \in Nat : n = Len(wire[q]) + 1
  BY <1>1
<1>3. /\ Len(wire'[q]) = n /\ wire'[q][n] = m /\ DOMAIN wire'[q] = 1 .. n
      /\ DOMAIN wire[q] = 1 .. (n - 1) /\ \A i \in 1 .. (n - 1) : wire'[q][i] = wire[q][i]
  BY <1>1, <1>2
<1>4. CASE m.state = s
  <2>1. StateAt(q, n)' = s
    BY <1>2, <1>1, <1>3, <1>4 DEF StateAt
  <2> QED
    BY <1>3, <2>1 DEF LastStateIs
<1>5. CASE m.state = NOT_CHANGED /\ LastStateIs(q, s)
  <2>1. PICK i \in 0 .. Len(wire[q]) :
          /\ StateAt(q, i) = s
          /\ \A j \in DOMAIN wire[q] : j > i => wire[q][j].state = NOT_CHANGED
    BY <1>5 DEF LastStateIs
  <2>2. StateAt(q, i)' = s /\ i \in 0 .. n
    BY <1>1, <1>2, <1>3, <2>1 DEF StateAt
  <2>3. \A j \in DOMAIN wire'[q] : j > i => wire'[q][j].state = NOT_CHANGED
    BY <1>3, <1>5, <2>1
  <2> QED
    BY <1>3, <2>2, <2>3 DEF LastStateIs
<1> QED
  BY <1>4, <1>5

LEMMA StateRead ==
    ASSUME TypeOK, NEW q \in Streams, ClientReads(q),
           NEW s \in SampledStates, LastStateIs(q, s)
    PROVE  LastStateIs(q, s)'
<1> DEFINE m == wire[q][1]
<1>1. /\ wire[q] \in Seq(Messages) /\ wire[q] # <<>> /\ m \in Messages
      /\ view[q] \in Views
      /\ view'[q] = Shown(view[q], m) /\ wire'[q] = Tail(wire[q])
  BY DEF ClientReads, TypeOK
<1>2. /\ Len(wire[q]) \in Nat /\ Len(wire'[q]) = Len(wire[q]) - 1
      /\ DOMAIN wire[q] = 1 .. Len(wire[q]) /\ DOMAIN wire'[q] = 1 .. Len(wire'[q])
      /\ \A i \in 1 .. Len(wire'[q]) : wire'[q][i] = wire[q][i + 1]
  BY <1>1
<1>3. PICK i \in 0 .. Len(wire[q]) :
        /\ StateAt(q, i) = s
        /\ \A j \in DOMAIN wire[q] : j > i => wire[q][j].state = NOT_CHANGED
  BY DEF LastStateIs
<1>4. s # NOT_CHANGED
  BY DEF SampledStates, PlayerStates, PLAYING, PAUSED, STOPPED, UNDEFINED, NOT_CHANGED
<1>5. view'[q].state = IF m.state # NOT_CHANGED THEN m.state ELSE view[q].state
  BY <1>1 DEF Shown
<1>6. CASE i <= 1
  <2>1. view'[q].state = s
    <3>1. CASE i = 0
      BY <1>1, <1>2, <1>3, <1>5, <3>1 DEF StateAt
    <3>2. CASE i = 1
      BY <1>3, <1>4, <1>5, <3>2 DEF StateAt
    <3> QED
      BY <1>2, <1>3, <1>6, <3>1, <3>2
  <2>2. \A j \in DOMAIN wire'[q] : wire'[q][j].state = NOT_CHANGED
    <3>1. \A j \in 1 .. Len(wire'[q]) : j + 1 \in DOMAIN wire[q] /\ j + 1 > i
      BY <1>2, <1>3, <1>6
    <3> QED
      BY <1>2, <1>3, <3>1
  <2>3. 0 \in 0 .. Len(wire'[q]) /\ StateAt(q, 0)' = s
    BY <1>1, <1>2, <2>1 DEF StateAt
  <2> QED
    BY <2>2, <2>3 DEF LastStateIs
<1>7. CASE i > 1
  <2>1. PICK k \in Nat : k = i - 1
    BY <1>2, <1>3, <1>7
  <2>2. k \in 0 .. Len(wire'[q]) /\ StateAt(q, k)' = s
    BY <1>2, <1>3, <1>7, <2>1 DEF StateAt
  <2>3. \A j \in DOMAIN wire'[q] : j > k => wire'[q][j].state = NOT_CHANGED
    <3>1. \A j \in 1 .. Len(wire'[q]) : j > k => j + 1 \in DOMAIN wire[q] /\ j + 1 > i
      BY <1>2, <1>3, <2>1
    <3> QED
      BY <1>2, <1>3, <3>1
  <2> QED
    BY <2>2, <2>3 DEF LastStateIs
<1> QED
  BY <1>2, <1>3, <1>6, <1>7

LEMMA VolumeRead ==
    ASSUME TypeOK, NEW q \in Streams, ClientReads(q)
    PROVE  LastVolume(q)' = LastVolume(q)
<1>1. /\ wire[q] \in Seq(Messages) /\ wire[q] # <<>>
      /\ view'[q] = Shown(view[q], wire[q][1]) /\ wire'[q] = Tail(wire[q])
  BY DEF ClientReads, TypeOK
<1>2. view'[q].volume = wire[q][1].volume
  BY <1>1 DEF Shown
<1>3. PICK w \in Seq(Messages) : w = wire[q] /\ w # <<>>
  BY <1>1
<1>4. PICK u \in Seq(Messages) : u = wire'[q] /\ u = Tail(w)
  <2>1. Tail(w) \in Seq(Messages) /\ Tail(w) = wire'[q]
    BY <1>1, <1>3
  <2> QED
    BY <2>1
<1>5. /\ Len(w) \in Nat /\ Len(w) > 0 /\ Len(u) = Len(w) - 1
      /\ \A i \in 1 .. Len(u) : u[i] = w[i + 1]
  BY <1>3, <1>4
<1>6. CASE Len(w) = 1
  <2>1. u = <<>>
    BY <1>5, <1>6
  <2> QED
    BY <1>1, <1>2, <1>3, <1>4, <1>6, <2>1 DEF LastVolume
<1>7. CASE Len(w) # 1
  <2>1. Len(u) \in 1 .. Len(u) /\ u # <<>> /\ u[Len(u)] = w[Len(w)]
    BY <1>5, <1>7
  <2> QED
    BY <1>3, <1>4, <2>1 DEF LastVolume
<1> QED
  BY <1>6, <1>7

(***************************************************************************)
(* A failing property is not forgotten, nor a lost connection.             *)
(***************************************************************************)
LEMMA LossesStay ==
    ASSUME TypeOK, [Next]_vars, NEW q \in Streams
    PROVE  (faults' = 0 => faults = 0) /\ (link'[q] => link[q])
<1> USE DEF playbackVars, serverVars, handlerVars, clientVars
<1>1. faults \in Nat
  BY DEF TypeOK
<1>2. faults' = faults \/ faults' = faults + 1
  <2>1. CASE PlayerStep
    BY <2>1 DEF PlayerStep, PlayerSetsState, CallbackRuns, RegisterCallback, VolumeCall
  <2>2. ASSUME NEW st \in Streams, HandlerStep(st)
        PROVE  faults' = faults \/ faults' = faults + 1
    BY <2>2 DEF HandlerStep, Open, Compose, LeaveLoop, QueryVolume, Write, Woken,
                NextSample, Join
  <2>3. ASSUME NEW st \in Streams,
               VolumeFails(st) \/ TimesOut(st) \/ ReaderEnds(st) \/ LinkDown(st)
        PROVE  faults' = faults \/ faults' = faults + 1
    BY <2>3 DEF VolumeFails, TimesOut, NextSample, ReaderEnds, LinkDown
  <2>4. ASSUME NEW st \in Streams, ClientStep(st)
        PROVE  faults' = faults \/ faults' = faults + 1
    BY <2>4 DEF ClientStep, ClientOpens, ClientReads, ClientEnds, ClientStops
  <2> QED
    BY <2>1, <2>2, <2>3, <2>4 DEF Next, vars
<1>3. link'[q] => link[q]
  BY OneStreamMoves DEF Undisturbed, HandlerStep, Open, Compose, LeaveLoop, QueryVolume,
     Write, Woken, NextSample, Join, VolumeFails, TimesOut, ClientStep, ClientOpens,
     ClientReads, ClientEnds, ClientStops, LinkDown, TypeOK
<1> QED
  BY <1>1, <1>2, <1>3

(***************************************************************************)
(* The message composed from a new sample that is not UNDEFINED carries    *)
(* its state; the one composed from a sample that is not new, none.        *)
(***************************************************************************)
LEMMA ComposedState ==
    ASSUME TypeOK, NEW q \in Streams, Compose(q)
    PROVE  IF sample[q].state = oldState[q] THEN info'[q].state = NOT_CHANGED
           ELSE sample[q].state # UNDEFINED => info'[q].state = sample[q].state
<1> DEFINE isNew == sample[q].state # oldState[q]
<1>1. info[q] \in Messages /\ sample[q] \in Samples /\ info \in [Streams -> Messages]
  BY DEF TypeOK
<1>2. PICK available \in BOOLEAN :
        info' = [info EXCEPT ![q] = [WithState(info[q], sample[q], isNew) EXCEPT
                   !.timed = WantsTimes(sample[q], isNew) /\ available]]
  BY DEF Compose
<1>3. WithState(info[q], sample[q], isNew) \in Messages
  BY <1>1, WithStateType
<1>4. info'[q].state = WithState(info[q], sample[q], isNew).state
  BY <1>1, <1>2, <1>3 DEF Messages
<1> QED
  BY <1>1, <1>4 DEF WithState, Messages

Encoded(q) == link[q] => VolumeKnown(q) /\ (faults = 0 => StateKnown(q))

(***************************************************************************)
(* Every step keeps what the messages of a stream add up to.               *)
(***************************************************************************)
LEMMA EncodingStep ==
    ASSUME TypeOK, OrderOK, EncodingOK, [Next]_vars, NEW q \in Streams
    PROVE  Encoded(q)'
<1>a. Encoded(q) /\ HandlerInOrder(q)
  BY DEF OrderOK, EncodingOK, Encoded
<1>b. (faults' = 0 => faults = 0) /\ (link'[q] => link[q])
  BY LossesStay
<1>c. ASSUME view'[q] = view[q], wire'[q] = wire[q]
      PROVE  LastVolume(q)' = LastVolume(q)
             /\ \A s : LastStateIs(q, s) => LastStateIs(q, s)'
  BY <1>c DEF LastVolume, LastStateIs, StateAt
<1>d. oldState[q] \in SampledStates /\ info[q] \in Messages /\ wire[q] \in Seq(Messages)
      /\ pc \in [Streams -> HandlerPcs] /\ faults \in Nat
  BY DEF TypeOK
<1>e. ASSUME NEW s, LastStateIs(q, s)', oldState'[q] = s
      PROVE  LastStateIs(q, oldState[q])'
  BY <1>e DEF LastStateIs
<1>f. ASSUME view'[q] = view[q], wire'[q] = wire[q], oldState'[q] = oldState[q],
             LastStateIs(q, oldState[q])
      PROVE  LastStateIs(q, oldState[q])'
  <2>1. PICK s \in SampledStates : s = oldState[q]
    BY <1>d
  <2>2. LastStateIs(q, s)'
    BY <1>c, <1>f, <2>1
  <2> QED
    BY <1>e, <1>f, <2>1, <2>2
<1> USE DEF playbackVars, serverVars, handlerVars, clientVars
<1>1. CASE Undisturbed(q)
  <2>1. LastVolume(q)' = LastVolume(q)
    BY <1>1, <1>c DEF Undisturbed
  <2>2. VolumeKnown(q) => VolumeKnown(q)'
    BY <1>1, <2>1 DEF Undisturbed, VolumeKnown
  <2>3. StateKnown(q) => StateKnown(q)'
    BY <1>1, <1>f DEF Undisturbed, StateKnown
  <2> QED
    BY <1>a, <1>b, <2>2, <2>3 DEF Encoded
<1>2. CASE Open(q)
  <2>1. /\ view'[q] = view[q] /\ wire'[q] = wire[q] /\ oldState' = oldState
        /\ oldVolume' = oldVolume /\ pc[q] = "opening" /\ pc'[q] \in {"compose", "done"}
    BY <1>2, <1>d DEF Open
  <2>2. LastVolume(q)' = LastVolume(q)
    BY <1>c, <2>1
  <2>3. VolumeKnown(q) => VolumeKnown(q)'
    BY <2>1, <2>2 DEF VolumeKnown
  <2>4. StateKnown(q) => StateKnown(q)'
    BY <1>f, <2>1 DEF StateKnown
  <2> QED
    BY <1>a, <1>b, <2>3, <2>4 DEF Encoded
<1>3. CASE Compose(q)
  <2>1. /\ view'[q] = view[q] /\ wire'[q] = wire[q] /\ oldState'[q] = sample[q].state
        /\ oldVolume' = oldVolume /\ pc[q] = "compose" /\ pc'[q] = "volume"
    BY <1>3 DEF Compose, TypeOK
  <2>2. changed'[q] = (sample[q].state # oldState[q])
    BY <1>3 DEF Compose, TypeOK
  <2>3. LastVolume(q)' = LastVolume(q)
    BY <1>c, <2>1
  <2>4. VolumeKnown(q) => VolumeKnown(q)'
    BY <2>1, <2>3 DEF VolumeKnown
  <2>5. StateKnown(q) => StateKnown(q)'
    <3>1. CASE sample[q].state = oldState[q]
      <4>1. info'[q].state = NOT_CHANGED /\ oldState'[q] = oldState[q] /\ ~changed'[q]
        BY <1>3, <2>1, <2>2, <3>1, ComposedState
      <4> QED
        BY <1>f, <2>1, <4>1 DEF StateKnown
    <3>2. CASE sample[q].state # oldState[q]
      <4>1. changed'[q]
        BY <2>2, <3>2
      <4>2. sample[q].state # UNDEFINED => info'[q].state = sample[q].state
        BY <1>3, <3>2, ComposedState
      <4> QED
        BY <2>1, <4>1, <4>2 DEF StateKnown, UNDEFINED
    <3> QED
      BY <3>1, <3>2
  <2> QED
    BY <1>a, <1>b, <2>4, <2>5 DEF Encoded
<1>4. CASE LeaveLoop(q) \/ Join(q)
  <2>1. pc'[q] \in {"join", "done"}
    BY <1>4, <1>d DEF LeaveLoop, Join
  <2> QED
    BY <2>1 DEF Encoded, VolumeKnown, StateKnown
<1>5. CASE QueryVolume(q)
  <2>1. /\ view'[q] = view[q] /\ wire'[q] = wire[q] /\ oldState' = oldState
        /\ oldVolume' = oldVolume /\ changed' = changed
        /\ pc[q] = "volume" /\ pc'[q] = "write"
    BY <1>5, <1>d DEF QueryVolume
  <2>2. info'[q].state = info[q].state /\ info'[q].volume = newVolume'[q]
    BY <1>5, <1>d DEF QueryVolume, TypeOK, Messages
  <2>3. LastVolume(q)' = LastVolume(q)
    BY <1>c, <2>1
  <2>4. VolumeKnown(q) => VolumeKnown(q)'
    BY <2>1, <2>2, <2>3 DEF VolumeKnown
  <2>5. StateKnown(q) => StateKnown(q)'
    BY <1>f, <2>1, <2>2 DEF StateKnown
  <2> QED
    BY <1>a, <1>b, <2>4, <2>5 DEF Encoded
<1>6. CASE VolumeFails(q)
  <2>1. /\ view'[q] = view[q] /\ wire'[q] = wire[q] /\ oldVolume' = oldVolume
        /\ pc[q] = "volume" /\ pc'[q] = "compose" /\ faults' = faults + 1
    BY <1>6, <1>d DEF VolumeFails
  <2>2. LastVolume(q)' = LastVolume(q)
    BY <1>c, <2>1
  <2>3. VolumeKnown(q) => VolumeKnown(q)'
    BY <2>1, <2>2 DEF VolumeKnown
  <2>4. faults' # 0
    BY <1>d, <2>1
  <2> QED
    BY <1>a, <1>b, <2>3, <2>4 DEF Encoded
<1>7. CASE Write(q)
  <2>1. /\ view'[q] = view[q] /\ oldState' = oldState /\ newVolume' = newVolume
        /\ link' = link /\ pc[q] = "write"
    BY <1>7 DEF Write
  <2>2. CASE ~HasNews(q) /\ pc'[q] = "wait" /\ wire'[q] = wire[q]
    <3>1. ~changed[q] /\ newVolume[q] = oldVolume[q]
      BY <2>2 DEF HasNews
    <3>2. LastVolume(q)' = LastVolume(q)
      BY <1>c, <2>1, <2>2
    <3>3. VolumeKnown(q) => VolumeKnown(q)'
      BY <2>1, <2>2, <3>1, <3>2 DEF VolumeKnown
    <3>4. StateKnown(q) => StateKnown(q)'
      BY <1>f, <2>1, <2>2, <3>1 DEF StateKnown
    <3> QED
      BY <1>a, <1>b, <3>3, <3>4 DEF Encoded
  <2>3. CASE pc'[q] = "wait" /\ wire'[q] = Append(wire[q], info[q])
    <3>1. LastVolume(q)' = info[q].volume
      BY <1>d, <2>3 DEF LastVolume
    <3>2. VolumeKnown(q) => VolumeKnown(q)'
      BY <2>1, <2>3, <3>1 DEF VolumeKnown
    <3>3. StateKnown(q) => StateKnown(q)'
      <4>1. PICK s \in SampledStates : s = oldState[q]
        BY <1>d
      <4>2. PICK m \in Messages : m = info[q]
        BY <1>d
      <4>3. m.state = s \/ (m.state = NOT_CHANGED /\ LastStateIs(q, s)) => LastStateIs(q, s)'
        BY <2>1, <2>3, <4>2, StateAppended
      <4>4. LastStateIs(q, s)' => LastStateIs(q, oldState[q])'
        BY <1>e, <2>1, <4>1
      <4> QED
        BY <2>1, <2>3, <4>1, <4>2, <4>3, <4>4 DEF StateKnown, UNDEFINED
    <3> QED
      BY <1>a, <1>b, <3>2, <3>3 DEF Encoded
  <2>4. CASE ~link[q]
    BY <2>1, <2>4 DEF Encoded
  <2> QED
    BY <1>7, <1>d, <2>2, <2>3, <2>4 DEF Write, TypeOK
<1>8. CASE Woken(q) \/ TimesOut(q)
  <2>1. /\ view'[q] = view[q] /\ wire'[q] = wire[q] /\ oldState' = oldState
        /\ oldVolume'[q] = newVolume[q] /\ pc[q] \in {"wait", "woken"}
        /\ pc'[q] = "compose"
    BY <1>8, <1>d DEF Woken, TimesOut, NextSample, TypeOK
  <2>2. LastVolume(q)' = LastVolume(q)
    BY <1>c, <2>1
  <2>3. VolumeKnown(q) => VolumeKnown(q)'
    BY <2>1, <2>2 DEF VolumeKnown
  <2>4. StateKnown(q) => StateKnown(q)'
    BY <1>f, <2>1 DEF StateKnown
  <2> QED
    BY <1>a, <1>b, <2>3, <2>4 DEF Encoded
<1>9. CASE ClientOpens(q)
  <2>1. /\ view'[q] = view[q] /\ wire'[q] = wire[q] /\ oldState' = oldState
        /\ oldVolume' = oldVolume /\ pc[q] = "none" /\ pc'[q] = "opening"
    BY <1>9, <1>a, <1>d DEF ClientOpens, HandlerInOrder
  <2>2. LastVolume(q)' = LastVolume(q)
    BY <1>c, <2>1
  <2>3. VolumeKnown(q) => VolumeKnown(q)'
    BY <2>1, <2>2 DEF VolumeKnown
  <2>4. StateKnown(q) => StateKnown(q)'
    BY <1>f, <2>1 DEF StateKnown
  <2> QED
    BY <1>a, <1>b, <2>3, <2>4 DEF Encoded
<1>10. CASE ClientReads(q)
  <2>1. UNCHANGED handlerVars
    BY <1>10 DEF ClientReads
  <2>2. LastVolume(q)' = LastVolume(q)
    BY <1>10, VolumeRead
  <2>3. VolumeKnown(q) => VolumeKnown(q)'
    BY <2>1, <2>2 DEF VolumeKnown
  <2>4. LastStateIs(q, oldState[q]) => LastStateIs(q, oldState[q])'
    <3>1. PICK s \in SampledStates : s = oldState[q]
      BY <1>d
    <3>2. LastStateIs(q, s) => LastStateIs(q, s)'
      BY <1>10, StateRead
    <3> QED
      BY <1>e, <2>1, <3>1, <3>2
  <2>5. StateKnown(q) => StateKnown(q)'
    BY <2>1, <2>4 DEF StateKnown
  <2> QED
    BY <1>a, <1>b, <2>3, <2>5 DEF Encoded
<1>11. CASE ClientEnds(q) \/ ClientStops(q)
  <2>1. /\ view' = view /\ wire' = wire /\ UNCHANGED handlerVars
    BY <1>11 DEF ClientEnds, ClientStops
  <2>2. LastVolume(q)' = LastVolume(q)
    BY <1>c, <2>1
  <2>3. VolumeKnown(q) => VolumeKnown(q)'
    BY <2>1, <2>2 DEF VolumeKnown
  <2>4. StateKnown(q) => StateKnown(q)'
    BY <1>f, <2>1 DEF StateKnown
  <2> QED
    BY <1>a, <1>b, <2>3, <2>4 DEF Encoded
<1>12. CASE LinkDown(q)
  BY <1>12 DEF LinkDown, TypeOK, Encoded
<1> QED
  BY <1>1, <1>2, <1>3, <1>4, <1>5, <1>6, <1>7, <1>8, <1>9, <1>10, <1>11, <1>12,
     OneStreamMoves DEF HandlerStep, ClientStep

-----------------------------------------------------------------------------
LEMMA InitSafety == Init => SafetyInv
<1> SUFFICES ASSUME Init PROVE SafetyInv
  OBVIOUS
<1>1. TypeOK
  BY InitTypeOK
<1>2. HistoryOK /\ CopyLagsByOne
  BY DEF Init, PlaybackInit, HistoryOK, CopyLagsByOne
<1>3. HandlersOK /\ ReportedWasActual
  BY DEF Init, HandlersOK, ReportedWasActual, IsActual, NoSample, EmptyInfo,
         EmptyView
<1>4. ASSUME NEW st \in Streams PROVE WireInOrder(st) /\ HandlerInOrder(st)
  <2>1. /\ view[st] = EmptyView /\ wire[st] = <<>> /\ info[st] = EmptyInfo
        /\ pc[st] = "none"
    BY DEF Init
  <2>2. News(st) = {}
    BY <2>1 DEF News, Stamp, EmptyView
  <2> QED
    BY <2>1, <2>2 DEF WireInOrder, HandlerInOrder, EmptyView, EmptyInfo
<1>5. ASSUME NEW st \in Streams PROVE VolumeKnown(st) /\ StateKnown(st)
  <2>1. /\ view[st].volume = 0 /\ wire[st] = <<>> /\ oldVolume[st] = 0
        /\ oldState[st] = UNDEFINED /\ pc[st] = "none"
    BY DEF Init, EmptyView
  <2> QED
    BY <2>1 DEF VolumeKnown, LastVolume, StateKnown
<1> QED
  BY <1>1, <1>2, <1>3, <1>4, <1>5 DEF SafetyInv, OrderOK, EncodingOK

LEMMA SafetyStep == SafetyInv /\ [Next]_vars => SafetyInv'
<1> SUFFICES ASSUME SafetyInv, [Next]_vars PROVE SafetyInv'
  OBVIOUS
<1>1. TypeOK'
  BY TypeStep DEF SafetyInv
<1>2. HistoryOK' /\ CopyLagsByOne'
  BY SourceStep DEF SafetyInv
<1>3. HandlersOK' /\ ReportedWasActual'
  BY StreamStep, StreamsActualNext DEF SafetyInv
<1>4. OrderOK'
  <2>1. ASSUME NEW q \in Streams PROVE WireInOrder(q)' /\ HandlerInOrder(q)'
    BY OrderStep DEF SafetyInv
  <2> QED
    BY <2>1 DEF OrderOK
<1>5. EncodingOK'
  <2>1. ASSUME NEW q \in Streams PROVE Encoded(q)'
    BY EncodingStep DEF SafetyInv
  <2> QED
    BY <2>1 DEF EncodingOK, Encoded
<1> QED
  BY <1>1, <1>2, <1>3, <1>4, <1>5 DEF SafetyInv

(***************************************************************************)
(* The inductive invariant holds in every reachable state.                 *)
(***************************************************************************)
THEOREM SafetyInvariant == Spec => []SafetyInv
<1> QED
  BY InitSafety, SafetyStep, PTL DEF Spec

(***************************************************************************)
(* The service's copy of the playback state is at most the SetState in     *)
(* progress behind the player (callback of PlayerServiceImpl).             *)
(***************************************************************************)
THEOREM CopyIsFresh == Spec => []CopyLagsByOne
<1>1. SafetyInv => CopyLagsByOne
  BY DEF SafetyInv
<1> QED
  BY <1>1, SafetyInvariant, PTL

(***************************************************************************)
(* A client only ever shows states that the player was really in, whatever *)
(* is lost, delayed or failing (TimeInfoStream, continuous_update).        *)
(***************************************************************************)
THEOREM ReportsAreActual == Spec => []ReportedWasActual
<1>1. SafetyInv => ReportedWasActual
  BY DEF SafetyInv
<1> QED
  BY <1>1, SafetyInvariant, PTL

(***************************************************************************)
(* The client has the volume the handler last read once it has read all    *)
(* messages, although none is sent for a volume that is the one of the     *)
(* previous iteration (TimeInfoStream).                                    *)
(***************************************************************************)
THEOREM ClientsKnowVolume == Spec => []ClientKnowsVolume
<1>1. SafetyInv => ClientKnowsVolume
  BY DEF SafetyInv, EncodingOK, VolumeKnown, LastVolume, ClientKnowsVolume, Drained
<1> QED
  BY <1>1, SafetyInvariant, PTL

(***************************************************************************)
(* And the state that the handler believes it told it, although most       *)
(* messages say NOT_CHANGED, as long as no mpv property fails.             *)
(***************************************************************************)
THEOREM ClientsKnowState == Spec => []ClientKnowsStateUnlessFault
<1>1. ASSUME SafetyInv, faults = 0, NEW st \in Streams,
             pc[st] \in {"wait", "woken"}, Drained(st), oldState[st] # UNDEFINED
      PROVE  oldState[st] = view[st].state
  <2>1. LastStateIs(st, oldState[st])
    BY <1>1 DEF SafetyInv, EncodingOK, StateKnown, Drained
  <2>2. wire[st] = <<>> /\ Len(wire[st]) = 0
    BY <1>1 DEF Drained
  <2> QED
    BY <2>1, <2>2 DEF LastStateIs, StateAt
<1>2. SafetyInv => ClientKnowsStateUnlessFault
  BY <1>1 DEF ClientKnowsStateUnlessFault, ClientKnowsState
<1> QED
  BY <1>2, SafetyInvariant, PTL

-----------------------------------------------------------------------------
(***************************************************************************)
(* The refinement: SetState is a Change of the feed, the reading of a      *)
(* message with a state a Show, and every other step leaves the feed as it *)
(* is.                                                                     *)
(***************************************************************************)
LEMMA FeedInit == Init => Feed!Init
<1> SUFFICES ASSUME Init PROVE Feed!Init
  OBVIOUS
<1>1. \E s \in PlayerStates : log = <<s>>
  BY DEF Init, PlayerStates
<1>2. \A st \in Streams : view[st] = EmptyView
  BY DEF Init
<1>3. [st \in Streams |-> view[st].stamp] = [st \in Streams |-> 0]
  BY <1>2 DEF EmptyView
<1>4. [st \in Streams |-> view[st].state] = [st \in Streams |-> UNDEFINED]
  BY <1>2 DEF EmptyView
<1>5. [st \in Streams |-> view[st].settled] = [st \in Streams |-> FALSE]
  <2>1. EmptyView.settled = FALSE
    BY Zenon DEF EmptyView
  <2>2. \A st \in Streams : view[st].settled = FALSE
    BY <1>2, <2>1, Zenon
  <2> QED
    BY <2>2, Zenon
<1> QED
  BY <1>1, <1>3, <1>4, <1>5, Zenon DEF Feed!Init

(***************************************************************************)
(* What a client shows changes when it reads a message, and at no other    *)
(* time; the log changes with SetState only.                               *)
(***************************************************************************)
LEMMA FeedMoves ==
    ASSUME TypeOK, [Next]_vars
    PROVE  \/ \E new \in PlayerStates : log' = Append(log, new) /\ view' = view
           \/ log' = log /\ (view' = view \/ \E q \in Streams : ClientReads(q))
<1> USE DEF playbackVars, serverVars, handlerVars, clientVars
<1>1. ASSUME NEW new \in PlayerStates, PlayerSetsState(new)
      PROVE  log' = Append(log, new) /\ view' = view
  BY <1>1, StoredIsNew DEF PlayerSetsState, SetStateStore, TypeOK
<1>2. ASSUME CallbackRuns \/ RegisterCallback \/ \E v \in Volumes : VolumeCall(v)
      PROVE  log' = log /\ view' = view
  BY <1>2 DEF CallbackRuns, RegisterCallback, VolumeCall
<1>3. ASSUME NEW st \in Streams, HandlerStep(st)
      PROVE  log' = log /\ view' = view
  BY <1>3 DEF HandlerStep, Open, Compose, LeaveLoop, QueryVolume, Write, Woken,
              NextSample, Join
<1>4. ASSUME NEW st \in Streams,
             VolumeFails(st) \/ TimesOut(st) \/ ReaderEnds(st) \/ LinkDown(st)
      PROVE  log' = log /\ view' = view
  BY <1>4 DEF VolumeFails, TimesOut, NextSample, ReaderEnds, LinkDown
<1>5. ASSUME NEW st \in Streams, ClientOpens(st) \/ ClientEnds(st) \/ ClientStops(st)
      PROVE  log' = log /\ view' = view
  BY <1>5 DEF ClientOpens, ClientEnds, ClientStops
<1>6. ASSUME NEW st \in Streams, ClientReads(st) PROVE log' = log
  BY <1>6 DEF ClientReads
<1>7. CASE UNCHANGED vars
  BY <1>7 DEF vars
<1> QED
  BY <1>1, <1>2, <1>3, <1>4, <1>5, <1>6, <1>7 DEF Next, PlayerStep, ClientStep

(***************************************************************************)
(* A message that is read with a state shows a state from log that is not  *)
(* older than the feed allows.                                             *)
(***************************************************************************)
LEMMA ReadShows ==
    ASSUME SafetyInv, NEW q \in Streams, ClientReads(q), wire[q][1].stamp # 0
    PROVE  \E i \in 1 .. Len(log) : Feed!Show(q, i)
<1> DEFINE m == wire[q][1]
<1>1. /\ wire[q] \in Seq(Messages) /\ wire[q] # <<>> /\ m \in Messages
      /\ view \in [Streams -> Views] /\ view[q] \in Views /\ Len(wire[q]) \in Nat
      /\ 1 \in DOMAIN wire[q] /\ 1 \in 0 .. Len(wire[q]) /\ log' = log
      /\ view' = [view EXCEPT ![q] = Shown(view[q], m)]
  BY DEF ClientReads, SafetyInv, TypeOK, serverVars
<1>2. m.stamp \in 1 .. Len(log) /\ m.state = log[m.stamp]
  BY <1>1 DEF SafetyInv, TypeOK, ReportedWasActual, IsActual
<1>3. m.state # NOT_CHANGED
  <2>1. m.state \in PlayerStates
    BY <1>2 DEF SafetyInv, TypeOK
  <2> QED
    BY <2>1 DEF PlayerStates, PLAYING, PAUSED, STOPPED, NOT_CHANGED
<1>4. m.stamp >= Feed!Oldest(q)
  <2>1. view[q].stamp \in Nat
    BY <1>1 DEF Views, Stamps
  <2>2. CASE view[q].stamp = 0
    BY <1>2, <2>1, <2>2 DEF Feed!Oldest
  <2>3. CASE view[q].stamp # 0
    <3>1. 0 \in News(q) /\ 1 \in News(q)
      BY <1>1, <2>3 DEF News, Stamp
    <3>2. MayFollow(q, 0, m.stamp)
      BY <3>1 DEF SafetyInv, OrderOK, WireInOrder, Stamp
    <3>3. m.stamp >= view[q].stamp \/ (~view[q].settled /\ m.stamp + 1 >= view[q].stamp)
      BY <3>2 DEF MayFollow, Stamp, IsFirst
    <3> QED
      BY <1>2, <2>1, <3>3 DEF Feed!Oldest
  <2> QED
    BY <2>2, <2>3
<1>5. Shown(view[q], m).stamp = m.stamp /\ Shown(view[q], m).state = log[m.stamp]
  BY <1>2, <1>3 DEF Shown
<1>6. Shown(view[q], m).settled = (view[q].stamp # 0)
  <2>1. view[q].settled => view[q].stamp # 0
    BY DEF SafetyInv, OrderOK, WireInOrder
  <2> QED
    BY <1>1, <1>3, <2>1 DEF Shown, Views
<1> QED
  BY <1>1, <1>2, <1>4, <1>5, <1>6 DEF Feed!Show

(***************************************************************************)
(* Every step of the stream is a step of the feed or leaves it as it is.   *)
(***************************************************************************)
LEMMA FeedStep == SafetyInv /\ [Next]_vars => [Feed!Next]_Feed!feedVars
<1> SUFFICES ASSUME SafetyInv, [Next]_vars PROVE [Feed!Next]_Feed!feedVars
  OBVIOUS
<1>1. CASE \E new \in PlayerStates : log' = Append(log, new) /\ view' = view
  BY <1>1 DEF Feed!Next, Feed!Change
<1>2. CASE log' = log /\ view' = view
  BY <1>2 DEF Feed!feedVars
<1>3. ASSUME NEW q \in Streams, ClientReads(q), log' = log
      PROVE  [Feed!Next]_Feed!feedVars
  <2>1. CASE wire[q][1].stamp # 0
    BY <1>3, <2>1, ReadShows DEF Feed!Next
  <2>2. CASE wire[q][1].stamp = 0
    <3> DEFINE m == wire[q][1]
    <3>1. /\ wire[q] \in Seq(Messages) /\ wire[q] # <<>> /\ 1 \in DOMAIN wire[q]
          /\ view \in [Streams -> Views] /\ view[q] \in Views
          /\ view' = [view EXCEPT ![q] = Shown(view[q], m)]
      BY <1>3 DEF ClientReads, SafetyInv, TypeOK
    <3>2. m.state = NOT_CHANGED
      BY <2>2, <3>1 DEF SafetyInv, ReportedWasActual, IsActual
    <3>3. /\ Shown(view[q], m).stamp = view[q].stamp
          /\ Shown(view[q], m).state = view[q].state
      BY <3>2 DEF Shown
    <3>4. Shown(view[q], m).settled = view[q].settled
      BY <3>1, <3>2 DEF Shown, Views
    <3> QED
      BY <1>3, <3>1, <3>3, <3>4 DEF Feed!feedVars
  <2> QED
    BY <2>1, <2>2
<1> QED
  BY <1>1, <1>2, <1>3, FeedMoves DEF SafetyInv

(***************************************************************************)
(* The stream, with its threads, wakeups and delta encoded messages, is a  *)
(* status feed (TimeInfoStream and continuous_update).                     *)
(***************************************************************************)
THEOREM StreamImplementsFeed == Spec => FeedSpec
<1> QED
  BY FeedInit, FeedStep, SafetyInvariant, PTL DEF Spec, FeedSpec, Feed!Spec

\* A step takes no client that has been sent two states back to an older one.
GoesForward == \A q \in Streams : view[q].settled => view'[q].stamp >= view[q].stamp

(***************************************************************************)
(* So a client that has been sent two states never goes back to a state    *)
(* older than the one it shows (TimeInfoStream, continuous_update).        *)
(***************************************************************************)
THEOREM ClientsGoForward == Spec => [][GoesForward]_vars
<1>1. ASSUME SafetyInv, [Next]_vars, NEW q \in Streams, view[q].settled
      PROVE  view'[q].stamp >= view[q].stamp
  <2> DEFINE at == [st \in Streams |-> view[st].stamp]
  <2>1. at[q] \in Nat /\ at[q] = view[q].stamp /\ at'[q] = view'[q].stamp
    <3>1. view[q] \in Views
      BY <1>1 DEF SafetyInv, TypeOK
    <3> QED
      BY <3>1 DEF Views, Stamps
  <2>2. [Feed!Next]_Feed!feedVars
    BY <1>1, FeedStep
  <2>3. CASE at' = at
    BY <2>1, <2>3
  <2>4. ASSUME NEW c \in Streams, NEW i \in 1 .. Len(log), Feed!Show(c, i)
        PROVE  at'[q] >= at[q]
    <3>1. at' = [at EXCEPT ![c] = i]
      BY <2>4 DEF Feed!Show
    <3>2. at'[q] = IF c = q THEN i ELSE at[q]
      BY <3>1
    <3>3. c = q => i >= at[q]
      BY <1>1, <2>1, <2>4 DEF Feed!Show, Feed!Oldest
    <3> QED
      BY <2>1, <3>2, <3>3
  <2> QED
    BY <2>1, <2>2, <2>3, <2>4 DEF Feed!Next, Feed!Change, Feed!feedVars
<1>2. SafetyInv /\ [Next]_vars => [GoesForward]_vars
  BY <1>1 DEF GoesForward
<1> QED
  BY <1>2, SafetyInvariant, PTL DEF Spec
=============================================================================
