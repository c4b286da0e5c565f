---------------------------- MODULE Synchronizer ----------------------------
(***************************************************************************)
(* The life of a PlaybackSynchronizer inside its PlayerClient: an owner    *)
(* that calls Start, Stop and the destructors, the updating threads that   *)
(* Start creates (continuous_update), and the writer thread that each of   *)
(* them creates to end its stream.                                         *)
(*                                                                         *)
(* They meet in one flag, is_updating_, which the owner tests and clears   *)
(* and the new thread sets.  What a stream carries, and the server's side  *)
(* of it, is in InfoStream; here a message is a step that changes what is  *)
(* shown, and a stream ends after WritesDone or when the server ends it.   *)
(***************************************************************************)
EXTENDS Naturals

CONSTANTS
    MaxStarts,    \* bound: threads created
    MaxMessages   \* bound: messages of the server

Threads  == 1..MaxStarts
NoThread == 0

ASSUME SynchronizerAssumption == {MaxStarts, MaxMessages} \subseteq Nat

VARIABLES
    isUpdating, \* is_updating_
    thread,     \* updating_thread_: the thread it stands for, or NoThread
    owner,      \* where the owner is
    starts,     \* how many threads have been created
    pc,         \* where an updating thread is
    writer,     \* where its writer thread is
    stream,     \* its stream
    shown,      \* how many messages base_playback_info has taken
    hasty       \* history: a Stop cleared the flag before the thread had set it

threadVars == <<pc, writer, stream, shown>>
vars == <<isUpdating, thread, owner, starts, threadVars, hasty>>

OwnerPcs   == {"idle", "start", "stop", "join", "last stop", "last join", "destroyed",
               "terminated"}
ThreadPcs  == {"none", "begin", "open", "read", "join", "ended"}
WriterPcs  == {"none", "waiting", "returned"}
StreamEnds == {"none", "open", "half closed", "closed"}

TypeOK ==
    /\ isUpdating \in BOOLEAN /\ thread \in Threads \cup {NoThread}
    /\ owner \in OwnerPcs /\ starts \in 0..MaxStarts
    /\ pc \in [Threads -> ThreadPcs] /\ writer \in [Threads -> WriterPcs]
    /\ stream \in [Threads -> StreamEnds]
    /\ shown \in 0..MaxMessages
    /\ hasty \in BOOLEAN

Init ==
    /\ isUpdating = FALSE /\ thread = NoThread
    /\ owner = "idle" /\ starts = 0
    /\ pc = [t \in Threads |-> "none"] /\ writer = [t \in Threads |-> "none"]
    /\ stream = [t \in Threads |-> "none"]
    /\ shown = 0 /\ hasty = FALSE

Goto(t, next) == pc' = [pc EXCEPT ![t] = next]

-----------------------------------------------------------------------------
(***************************************************************************)
(* The owner.  Its calls follow one another.                               *)
(***************************************************************************)

\* Start, under the mutex: it returns if the flag is set.
StartTests ==
    /\ owner = "idle" /\ starts < MaxStarts
    /\ ~isUpdating
    /\ owner' = "start"
    /\ UNCHANGED <<isUpdating, thread, starts, threadVars, hasty>>

\* Mutated: a thread that is still there is let go.
StartReplaces ==
    /\ owner = "start" /\ owner' = "idle"
    /\ starts' = starts + 1 /\ thread' = starts'
    /\ Goto(starts', "begin")
    /\ UNCHANGED <<isUpdating, writer, stream, shown, hasty>>

\* Start: a thread is created and assigned.  Assigning to a std::thread that
\* still stands for another one ends the process.
StartCreates ==
    /\ owner = "start"
    /\ starts' = starts + 1
    /\ Goto(starts', "begin")
    /\ IF thread = NoThread THEN thread' = starts' /\ owner' = "idle"
                            ELSE owner' = "terminated" /\ UNCHANGED thread
    /\ UNCHANGED <<isUpdating, writer, stream, shown, hasty>>

CallsStop ==
    /\ owner = "idle"
    /\ owner' \in {"stop", "last stop"}    \* Stop, or ~PlaybackSynchronizer
    /\ UNCHANGED <<isUpdating, thread, starts, threadVars, hasty>>

\* Stop, under the mutex; notify_all.
StopClears ==
    /\ owner \in {"stop", "last stop"}
    /\ isUpdating' = FALSE
    /\ hasty' = (hasty \/ (thread # NoThread /\ pc[thread] = "begin"))
    /\ owner' = IF owner = "stop" THEN "join" ELSE "last join"
    /\ UNCHANGED <<thread, starts, threadVars>>

\* Mutated: Stop does not wait for the thread.
StopDetaches ==
    /\ owner \in {"join", "last join"}
    /\ thread' = NoThread
    /\ owner' = IF owner = "join" THEN "idle" ELSE "destroyed"
    /\ UNCHANGED <<isUpdating, starts, threadVars, hasty>>

\* Stop: joinable, join.
StopJoins ==
    /\ owner \in {"join", "last join"}
    /\ thread # NoThread => pc[thread] = "ended"
    /\ thread' = NoThread
    /\ owner' = IF owner = "join" THEN "idle" ELSE "destroyed"
    /\ UNCHANGED <<isUpdating, starts, threadVars, hasty>>

-----------------------------------------------------------------------------
(***************************************************************************)
(* An updating thread, as long as the process lives.                       *)
(***************************************************************************)
Alive == owner # "terminated"

\* is_updating_ = true, without the mutex.
Begin(t) ==
    /\ Alive /\ pc[t] = "begin"
    /\ isUpdating' = TRUE
    /\ Goto(t, "open")
    /\ UNCHANGED <<thread, owner, starts, writer, stream, shown, hasty>>

\* The stream is opened, the interval written, the writer thread created.
OpenStream(t) ==
    /\ Alive /\ pc[t] = "open"
    /\ stream' = [stream EXCEPT ![t] = "open"]
    /\ writer' = [writer EXCEPT ![t] = "waiting"]
    /\ Goto(t, "read")
    /\ UNCHANGED <<isUpdating, thread, owner, starts, shown, hasty>>

\* An exception before the writer runs: it is logged, and the flag stays set.
OpenFails(t) ==
    /\ Alive /\ pc[t] = "open"
    /\ Goto(t, "ended")
    /\ UNCHANGED <<isUpdating, thread, owner, starts, writer, stream, shown, hasty>>

\* Read: a message; also after WritesDone.
ReadMessage(t) ==
    /\ Alive /\ pc[t] = "read" /\ stream[t] # "closed" /\ shown < MaxMessages
    /\ shown' = shown + 1
    /\ UNCHANGED <<isUpdating, thread, owner, starts, pc, writer, stream, hasty>>

\* Read returns FALSE: join the writer.
ReadEnds(t) ==
    /\ Alive /\ pc[t] = "read" /\ stream[t] = "closed"
    /\ Goto(t, "join")
    /\ UNCHANGED <<isUpdating, thread, owner, starts, writer, stream, shown, hasty>>

\* The writer is joined; Finish.
ThreadEnds(t) ==
    /\ Alive /\ pc[t] = "join" /\ writer[t] = "returned"
    /\ Goto(t, "ended")
    /\ UNCHANGED <<isUpdating, thread, owner, starts, writer, stream, shown, hasty>>

\* Mutated: the writer is gone without WritesDone.
WriterGivesUp(t) ==
    /\ Alive /\ writer[t] = "waiting" /\ ~isUpdating
    /\ writer' = [writer EXCEPT ![t] = "returned"]
    /\ UNCHANGED <<isUpdating, thread, owner, starts, pc, stream, shown, hasty>>

\* The writer finds the flag cleared: WritesDone.
WriterEnds(t) ==
    /\ Alive /\ writer[t] = "waiting" /\ ~isUpdating
    /\ writer' = [writer EXCEPT ![t] = "returned"]
    /\ stream' = [stream EXCEPT ![t] = IF @ = "open" THEN "half closed" ELSE @]
    /\ UNCHANGED <<isUpdating, thread, owner, starts, pc, shown, hasty>>

\* The server's end of the stream: after WritesDone, or whenever it is lost.
ServerEnds(t) ==
    /\ Alive /\ stream[t] \in {"open", "half closed"}
    /\ stream' = [stream EXCEPT ![t] = "closed"]
    /\ UNCHANGED <<isUpdating, thread, owner, starts, pc, writer, shown, hasty>>

-----------------------------------------------------------------------------
Stopping == StopClears \/ StopJoins
Owner    == StartTests \/ StartCreates \/ CallsStop \/ Stopping
Work(t)  == Begin(t) \/ OpenStream(t) \/ ReadEnds(t) \/ ThreadEnds(t) \/ WriterEnds(t)

Next ==
    \/ Owner
    \/ \E t \in Threads : Work(t) \/ OpenFails(t) \/ ReadMessage(t) \/ ServerEnds(t)

Spec == Init /\ [][Next]_vars

(***************************************************************************)
(* Threads run, a call of Stop goes on, and the server ends a stream whose *)
(* client has called WritesDone (InfoStream's Terminates).  Nobody has to  *)
(* call Stop, send a message or lose the connection.                       *)
(***************************************************************************)
FairSpec ==
    /\ Spec
    /\ WF_vars(Stopping)
    /\ \A t \in Threads :
         /\ WF_vars(Work(t))
         /\ WF_vars(stream[t] = "half closed" /\ ServerEnds(t))

-----------------------------------------------------------------------------
Running(t) == pc[t] \notin {"none", "ended"}

(***************************************************************************)
(* Two streams never update base_playback_info at once, over any Starts    *)
(* and Stops, streams the server ended, and Starts that found the flag not *)
(* yet set (PlaybackSynchronizer.cpp:43-66).                               *)
(***************************************************************************)
OneStream ==
    Alive => \A t, u \in Threads : Running(t) /\ Running(u) => t = u

(***************************************************************************)
(* The inductive invariant behind it: the running thread is the one the    *)
(* owner can join, threads are created in order, and a writer that waits   *)
(* belongs to a thread that waits for it.                                  *)
(***************************************************************************)
SynchronizerInv ==
    /\ TypeOK
    /\ \A t \in Threads : pc[t] = "none" <=> t > starts
    /\ owner = "start" => starts < MaxStarts
    /\ Alive => \A t \in Threads : Running(t) => t = thread
    /\ \A t \in Threads : writer[t] = "waiting" => pc[t] \in {"read", "join"}
    /\ owner = "destroyed" => thread = NoThread

(***************************************************************************)
(* Once Stop has returned, what is shown stays as it is until the next     *)
(* Start, and after the destructor no thread is left that would use the    *)
(* object (PlaybackSynchronizer.cpp:62-63).                                *)
(***************************************************************************)
QuietAfterStop ==
    [][thread = NoThread => shown' = shown]_vars

(***************************************************************************)
(* Stop returns unless it overtook the thread that Start created.          *)
(***************************************************************************)
StopReturnsUnlessHasty ==
    owner \in {"stop", "last stop"} ~> (owner \in {"idle", "destroyed"} \/ hasty)

(***************************************************************************)
(* "Writer will just wait until SongInfoUpdater::Stop() is called (it's    *)
(* called by the destructor)" (PlaybackSynchronizer.cpp:115-116): once it  *)
(* has been called, the writer returns, and with it the call.              *)
(***************************************************************************)
StopReturns ==
    owner \in {"stop", "last stop"} ~> owner \in {"idle", "destroyed"}
=============================================================================
