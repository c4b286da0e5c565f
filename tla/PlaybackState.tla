--------------------------- MODULE PlaybackState ---------------------------
(***************************************************************************)
(* The class lrm::PlaybackState (PlaybackState.h, PlaybackState.cpp): an   *)
(* atomic state, and a callback that is told of every SetState.            *)
(*                                                                         *)
(* SetState runs on the thread that calls it and is not atomic: it stores  *)
(* the new state, then copies the callback under state_callback_mutex_,    *)
(* then calls the copy outside the mutex with its ARGUMENT (not with what  *)
(* it stored).  The store and the copy-and-call are two steps here; the    *)
(* object has one writer (the mpv event loop in Player, the reading thread *)
(* in PlaybackSynchronizer), so one SetState at a time is in progress.     *)
(***************************************************************************)
EXTENDS Naturals

UNDEFINED      == "UNDEFINED"
PLAYING        == "PLAYING"
PAUSED         == "PAUSED"
STOPPED        == "STOPPED"
FINISHED       == "FINISHED"
FINISHED_ERROR == "FINISHED_ERROR"

States == {UNDEFINED, PLAYING, PAUSED, STOPPED, FINISHED, FINISHED_ERROR}

\* No SetState is in progress.
Idle == "IDLE"

VARIABLES
    state,     \* state_
    setting,   \* the argument of the SetState in progress, or Idle
    callback   \* TRUE when state_change_callback_ holds a function

playbackVars == <<state, setting, callback>>

PlaybackTypeOK ==
    /\ state \in States
    /\ setting \in States \cup {Idle}
    /\ callback \in BOOLEAN

PlaybackInit(initial) ==
    /\ state = initial
    /\ setting = Idle
    /\ callback = FALSE

(***************************************************************************)
(* What SetState(new) stores over the old state: the test for a finished   *)
(* song looks at the state that is being replaced, not at the new one.     *)
(***************************************************************************)
Stored(old, new) == IF old \in {FINISHED, FINISHED_ERROR} THEN STOPPED ELSE new

\* SetState, first half: the atomic store.
SetStateStore(new) ==
    /\ setting = Idle
    /\ state' = Stored(state, new)
    /\ setting' = new
    /\ UNCHANGED callback

(***************************************************************************)
(* SetState, second half: copy the callback and call it if there is one.   *)
(* What the callback does with the argument `setting` is conjoined by the  *)
(* module that owns the callback.                                          *)
(***************************************************************************)
SetStateReturn ==
    /\ setting # Idle
    /\ setting' = Idle
    /\ UNCHANGED <<state, callback>>

SetStateChangeCallback ==
    /\ callback' = TRUE
    /\ UNCHANGED <<state, setting>>
=============================================================================
