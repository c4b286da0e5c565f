----------------------------- MODULE StatusFeed -----------------------------
(***************************************************************************)
(* What TimeInfoStream promises a client about the playback state, with    *)
(* threads, wakeups and messages left out: the player goes through a       *)
(* sequence of states, and every client shows, in order, some of them.     *)
(* States may be skipped.  Only the second state a client receives may be  *)
(* one step OLDER than the first: the first sample comes from the player,  *)
(* the following ones from a copy that can be one SetState behind.         *)
(***************************************************************************)
EXTENDS Naturals, Sequences

CONSTANTS Clients, PlaybackStates, NoState

VARIABLES
    log,      \* the states the player has gone through
    at,       \* which of them a client shows, 0 for none yet
    shown,    \* the state a client shows
    settled   \* the client has received at least two states

feedVars == <<log, at, shown, settled>>

Init ==
    /\ \E s \in PlaybackStates : log = <<s>>
    /\ at = [c \in Clients |-> 0]
    /\ shown = [c \in Clients |-> NoState]
    /\ settled = [c \in Clients |-> FALSE]

Change(s) ==
    /\ log' = Append(log, s)
    /\ UNCHANGED <<at, shown, settled>>

\* The oldest state a client may be shown next.
Oldest(c) ==
    IF at[c] <= 1 THEN 1 ELSE IF settled[c] THEN at[c] ELSE at[c] - 1

Show(c, i) ==
    /\ i >= Oldest(c)
    /\ at' = [at EXCEPT ![c] = i]
    /\ shown' = [shown EXCEPT ![c] = log[i]]
    /\ settled' = [settled EXCEPT ![c] = at[c] # 0]
    /\ UNCHANGED log

Next ==
    \/ \E s \in PlaybackStates : Change(s)
    \/ \E c \in Clients, i \in 1 .. Len(log) : Show(c, i)

Spec == Init /\ [][Next]_feedVars
=============================================================================
