------------------------- MODULE SynchronizerProofs -------------------------
(***************************************************************************)
(* Theorems about Synchronizer, for any number of threads and messages.    *)
(***************************************************************************)
EXTENDS Synchronizer, TLAPS

LEMMA SynchronizerInit == Init => SynchronizerInv
<1> SUFFICES ASSUME Init PROVE SynchronizerInv
  OBVIOUS
<1>1. starts \in 0..MaxStarts /\ shown \in 0..MaxMessages
  BY SynchronizerAssumption DEF Init
<1>2. TypeOK
  BY <1>1 DEF Init, TypeOK, OwnerPcs, ThreadPcs, WriterPcs, StreamEnds
<1>3. \A t \in Threads : pc[t] = "none" /\ writer[t] = "none" /\ t > starts
  BY SynchronizerAssumption DEF Init, Threads
<1> QED
  BY <1>2, <1>3 DEF SynchronizerInv, Init, Running

(***************************************************************************)
(* A thread that is created is the next one, and it runs alone or the      *)
(* process has ended.                                                      *)
(***************************************************************************)
LEMMA CreationStep == SynchronizerInv /\ StartCreates => SynchronizerInv'
<1> SUFFICES ASSUME SynchronizerInv, StartCreates PROVE SynchronizerInv'
  OBVIOUS
<1> DEFINE new == starts + 1
<1>1. /\ TypeOK /\ owner = "start" /\ starts < MaxStarts
      /\ \A t \in Threads : pc[t] = "none" <=> t > starts
      /\ Alive => \A t \in Threads : Running(t) => t = thread
      /\ \A t \in Threads : writer[t] = "waiting" => pc[t] \in {"read", "join"}
  BY DEF SynchronizerInv, StartCreates
<1>2. starts \in Nat /\ MaxStarts \in Nat /\ new \in Threads /\ new \in 0..MaxStarts
  BY <1>1, SynchronizerAssumption DEF TypeOK, Threads
<1>3. /\ starts' = new /\ pc' = [pc EXCEPT ![new] = "begin"]
      /\ UNCHANGED <<isUpdating, writer, stream, shown, hasty>>
      /\ \/ thread = NoThread /\ thread' = new /\ owner' = "idle"
         \/ owner' = "terminated" /\ UNCHANGED thread
  BY DEF StartCreates, Goto
<1> HIDE DEF new
<1>4. \A t \in Threads : pc'[t] = IF t = new THEN "begin" ELSE pc[t]
  BY <1>1, <1>2, <1>3 DEF TypeOK
<1>5. TypeOK'
  <2>1. pc' \in [Threads -> ThreadPcs]
    BY <1>1, <1>3 DEF TypeOK, ThreadPcs
  <2> QED
    BY <1>1, <1>2, <1>3, <2>1 DEF TypeOK, OwnerPcs
<1>6. \A t \in Threads : pc'[t] = "none" <=> t > starts'
  <2>1. \A t \in Threads : t > new <=> t > starts /\ t # new
    BY <1>2 DEF Threads, new
  <2> QED
    BY <1>1, <1>3, <1>4, <2>1
<1>7. Alive' => \A t \in Threads : Running(t)' => t = thread'
  <2>1. ASSUME Alive' PROVE thread = NoThread /\ thread' = new
    BY <1>3, <2>1 DEF Alive
  <2>2. ASSUME Alive', NEW t \in Threads, Running(t)' PROVE t = new
    <3>1. t # new => Running(t)
      BY <1>4, <2>2 DEF Running
    <3>2. NoThread \notin Threads
      BY DEF NoThread, Threads
    <3> QED
      BY <1>1, <2>1, <2>2, <3>1, <3>2 DEF Alive
  <2> QED
    BY <2>1, <2>2
<1>8. \A t \in Threads : writer'[t] = "waiting" => pc'[t] \in {"read", "join"}
  <2>1. pc[new] = "none"
    BY <1>1, <1>2 DEF new
  <2> QED
    BY <1>1, <1>3, <1>4, <2>1
<1>9. owner' \notin {"start", "destroyed"}
  BY <1>3
<1> QED
  BY <1>5, <1>6, <1>7, <1>8, <1>9 DEF SynchronizerInv

LEMMA MessageStep ==
  ASSUME SynchronizerInv, NEW t \in Threads, ReadMessage(t)
  PROVE  SynchronizerInv'
<1>1. /\ shown < MaxMessages /\ shown' = shown + 1
      /\ UNCHANGED <<isUpdating, thread, owner, starts, pc, writer, stream, hasty>>
  BY DEF ReadMessage
<1>2. shown' \in 0..MaxMessages
  BY <1>1, SynchronizerAssumption DEF SynchronizerInv, TypeOK
<1>3. TypeOK'
  BY <1>1, <1>2 DEF SynchronizerInv, TypeOK
<1> QED
  BY <1>1, <1>3 DEF SynchronizerInv, Alive, Running

(***************************************************************************)
(* Every step keeps the invariant.  Only StartCreates makes a thread run,  *)
(* and it ends the process if another one is still there to be joined.     *)
(***************************************************************************)
LEMMA SynchronizerStep == SynchronizerInv /\ [Next]_vars => SynchronizerInv'
<1> SUFFICES ASSUME SynchronizerInv, [Next]_vars PROVE SynchronizerInv'
  OBVIOUS
<1> USE SynchronizerAssumption
    DEF SynchronizerInv, TypeOK, Running, Alive, Threads, NoThread, OwnerPcs, ThreadPcs,
        WriterPcs, StreamEnds, threadVars
<1>1. CASE StartTests
  BY <1>1 DEF StartTests
<1>2. CASE StartCreates
  BY <1>2, CreationStep
<1>3. CASE CallsStop
  BY <1>3 DEF CallsStop
<1>4. CASE StopClears
  BY <1>4 DEF StopClears
<1>5. CASE StopJoins
  BY <1>5 DEF StopJoins
<1>6. ASSUME NEW t \in Threads, Begin(t) PROVE SynchronizerInv'
  BY <1>6 DEF Begin, Goto
<1>7. ASSUME NEW t \in Threads, OpenStream(t) PROVE SynchronizerInv'
  BY <1>7 DEF OpenStream, Goto
<1>8. ASSUME NEW t \in Threads, OpenFails(t) PROVE SynchronizerInv'
  BY <1>8 DEF OpenFails, Goto
<1>9. ASSUME NEW t \in Threads, ReadMessage(t) PROVE SynchronizerInv'
  BY <1>9, MessageStep
<1>10. ASSUME NEW t \in Threads, ReadEnds(t) PROVE SynchronizerInv'
  BY <1>10 DEF ReadEnds, Goto
<1>11. ASSUME NEW t \in Threads, ThreadEnds(t) PROVE SynchronizerInv'
  BY <1>11 DEF ThreadEnds, Goto
<1>12. ASSUME NEW t \in Threads, WriterEnds(t) PROVE SynchronizerInv'
  <2>1. /\ writer' = [writer EXCEPT ![t] = "returned"]
        /\ UNCHANGED <<isUpdating, thread, owner, starts, pc, shown, hasty>>
    BY <1>12 DEF WriterEnds
  <2>2. stream' \in [Threads -> StreamEnds]
    BY <1>12 DEF WriterEnds
  <2> QED
    BY <2>1, <2>2
<1>13. ASSUME NEW t \in Threads, ServerEnds(t) PROVE SynchronizerInv'
  BY <1>13 DEF ServerEnds
<1>14. CASE UNCHANGED vars
  BY <1>14 DEF vars
<1> QED
  BY <1>1, <1>2, <1>3, <1>4, <1>5, <1>6, <1>7, <1>8, <1>9, <1>10, <1>11, <1>12, <1>13,
     <1>14 DEF Next, Owner, Stopping, Work

(***************************************************************************)
(* The inductive invariant holds in every reachable state: the thread that *)
(* runs is the one the owner can join.                                     *)
(***************************************************************************)
THEOREM SynchronizerInvariant == Spec => []SynchronizerInv
<1>1. Init => SynchronizerInv
  BY SynchronizerInit
<1>2. SynchronizerInv /\ [Next]_vars => SynchronizerInv'
  BY SynchronizerStep
<1> QED
  BY <1>1, <1>2, PTL DEF Spec

(***************************************************************************)
(* No two streams update the information at once, whatever the order of    *)
(* Starts, Stops, failures and ends of streams.                            *)
(***************************************************************************)
THEOREM StreamsExcludeEachOther == Spec => []OneStream
<1>1. SynchronizerInv => OneStream
  BY DEF SynchronizerInv, OneStream
<1> QED
  BY <1>1, SynchronizerInvariant, PTL

(***************************************************************************)
(* After Stop has returned nothing writes to base_playback_info, even if   *)
(* Stop overtook the thread it waited for.                                 *)
(***************************************************************************)
THEOREM StopSilences == Spec => QuietAfterStop
<1>1. SynchronizerInv /\ [Next]_vars => [thread = NoThread => shown' = shown]_vars
  <2> SUFFICES ASSUME SynchronizerInv, Next, thread = NoThread PROVE shown' = shown
    BY DEF vars, threadVars
  <2>1. ASSUME NEW t \in Threads, ReadMessage(t) PROVE FALSE
    <3>1. Alive /\ Running(t)
      BY <2>1 DEF ReadMessage, Running
    <3>2. t = NoThread
      BY <3>1 DEF SynchronizerInv
    <3> QED
      BY <3>2, SynchronizerAssumption DEF Threads, NoThread
  <2> QED
    BY <2>1 DEF Next, Owner, Stopping, Work, StartTests, StartCreates, CallsStop, StopClears,
       StopJoins, Begin, OpenStream, OpenFails, ReadEnds, ThreadEnds, WriterEnds, ServerEnds,
       threadVars
<1> QED
  BY <1>1, SynchronizerInvariant, PTL DEF Spec, QuietAfterStop
=============================================================================
