----------------------------- MODULE EmmsProofs -----------------------------
(***************************************************************************)
(* Proofs about Emms, for any number of tracks, commands, failures and     *)
(* daemons: the invariant behind it, that a daemon which has shown a track *)
(* does not make the timer skip it, and that the timer keeps in step with  *)
(* the player as long as Emacs is not misled.                              *)
(***************************************************************************)
EXTENDS Emms, TLAPS

USE DEF None

-----------------------------------------------------------------------------
\* What the front-end's own steps leave alone.

LEMMA SongsLeftAlone ==
    ASSUME EmmsInv, UNCHANGED <<song, open, queue, plays, over>>
    PROVE  SongsInv'
BY DEF EmmsInv, SongsInv

LEMMA LogLeftAlone ==
    ASSUME EmmsInv, UNCHANGED <<log, began, over, song, plays, queue, told>>
    PROVE  LogInv'
BY DEF EmmsInv, LogInv

LEMMA FeedLeftAlone ==
    ASSUME EmmsInv, UNCHANGED <<feedVars, began, known>>,
           \/ doing' # "detecting"
           \/ /\ UNCHANGED <<doing, sure, seen, playing>>
              /\ over \subseteq over'
    PROVE  FeedInv'
<1>1. UNCHANGED <<log, at, shown, settled, began, known>> BY DEF feedVars
<1> QED BY <1>1 DEF EmmsInv, FeedInv

\* A record of the queue.
LEMMA QueueType ==
    ASSUME EmmsInv
    PROVE  /\ queue \in Seq(Events)
           /\ \A j \in 1 .. Len(queue) :
                /\ queue[j] \in Events
                /\ queue[j].kind \in {"end", "loaded"} /\ queue[j].song \in Plays
<1>1. queue \in Seq(Events) BY DEF EmmsInv, TypeOK
<1>2. \A j \in 1 .. Len(queue) : queue[j] \in Events BY <1>1
<1>3. \A e \in Events : e.kind \in {"end", "loaded"} /\ e.song \in Plays BY DEF Events
<1> QED BY <1>1, <1>2, <1>3

LEMMA NumberTypes ==
    ASSUME EmmsInv
    PROVE  /\ MaxPlays \in Nat /\ plays \in Nat /\ plays <= MaxPlays
           /\ song \in Nat /\ song <= plays /\ playing \in Nat /\ playing <= plays
           /\ Len(log) \in Nat /\ Len(log) > 0
           /\ started \in Nat /\ started <= MaxDaemons
BY EmmsAssumption DEF EmmsInv, TypeOK

\* Whatever was loaded has ended, and the queue is about ended songs only.
LEMMA EndsResult ==
    ASSUME EmmsInv, Ends
    PROVE  /\ queue' \in Seq(Events)
           /\ over' = 1 .. plays /\ over \subseteq over'
           /\ \A j \in 1 .. Len(queue') : queue'[j].song \in 1 .. plays
<1>1. /\ over \subseteq 1 .. plays /\ 1 .. plays \subseteq over \cup {song}
      /\ \A j \in 1 .. Len(queue) : queue[j].song <= plays
  BY DEF EmmsInv, TypeOK, SongsInv
<1>2. \A j \in 1 .. Len(queue) : queue[j].song \in 1 .. plays
  <2>1. TAKE j \in 1 .. Len(queue)
  <2>2. queue[j].song \in Plays /\ queue[j].song <= plays BY <1>1, QueueType
  <2> QED BY <2>2, NumberTypes DEF Plays
<1>3. CASE song = None
  <2>1. over' = over /\ queue' = queue BY <1>3 DEF Ends
  <2>2. over = 1 .. plays
    <3>1. 1 .. plays \subseteq over BY <1>1, <1>3, NumberTypes
    <3> QED BY <1>1, <3>1
  <2> QED BY <1>2, <2>1, <2>2, QueueType
<1>4. CASE song # None
  <2>1. over' = over \cup {song} /\ queue' = Append(queue, [kind |-> "end", song |-> song])
    BY <1>4 DEF Ends, Event
  <2>2. song \in 1 .. plays /\ song \in Plays BY <1>4, NumberTypes DEF Plays
  <2>3. over' = 1 .. plays BY <1>1, <2>1, <2>2
  <2>4. [kind |-> "end", song |-> song] \in Events
    BY <2>2 DEF Events
  <2>5. queue' \in Seq(Events)
    BY <2>1, <2>4, QueueType
  <2>6. ASSUME NEW j \in 1 .. Len(queue') PROVE queue'[j].song \in 1 .. plays
    <3>1. CASE j \in 1 .. Len(queue)
      <4>1. queue'[j] = queue[j] BY <2>1, <2>4, <3>1, QueueType
      <4> QED BY <1>2, <3>1, <4>1
    <3>2. CASE j = Len(queue) + 1
      <4>1. queue'[j] = [kind |-> "end", song |-> song] BY <2>1, <2>4, <3>2, QueueType
      <4> QED BY <2>2, <4>1
    <3>3. Len(queue') = Len(queue) + 1 BY <2>1, <2>4, QueueType
    <3> QED BY <3>1, <3>2, <3>3, QueueType
  <2> QED BY <2>1, <2>3, <2>5, <2>6
<1> QED BY <1>3, <1>4

\* The player's part of a command that ends what is loaded, and may load the next.
LEMMA PlayerEffect ==
    ASSUME EmmsInv, Ends, song' \in {None, plays'},
           \/ plays' = plays /\ song' = None
           \/ plays' = plays + 1 /\ plays < MaxPlays /\ song' = plays',
           UNCHANGED <<log, began, told>>
    PROVE  SongsInv' /\ LogInv'
<1>1. /\ over' = 1 .. plays /\ over \subseteq over'
      /\ \A j \in 1 .. Len(queue') : queue'[j].song \in 1 .. plays
  BY EndsResult
<1>2. SongsInv'
  <2>1. 1 .. plays' \subseteq over' \cup {song'} BY <1>1, NumberTypes
  <2>2. song' \notin over' BY <1>1, NumberTypes
  <2>3. \A j \in 1 .. Len(queue') : queue'[j].song \in over' /\ queue'[j].song <= plays'
    BY <1>1, NumberTypes
  <2> QED BY <2>1, <2>2, <2>3 DEF SongsInv
<1>3. LogInv'
  <2>1. \A n \in Plays : began'[n] <= Len(log') /\ (began'[n] # 0 => n <= plays')
    <3>1. \A n \in Plays : began[n] <= Len(log) /\ (began[n] # 0 => n <= plays)
      BY DEF EmmsInv, LogInv
    <3> QED BY <3>1, NumberTypes DEF Plays
  <2>2. \A n \in Plays : \A i \in 1 .. Len(log') :
          began'[n] # 0 /\ began'[n] <= i /\ log'[i] = "STOPPED" => n \in over'
    BY <1>1 DEF EmmsInv, LogInv
  <2>3. song' # None => began'[song'] = 0
    <3>1. HAVE song' # None
    <3>2. song' = plays + 1 /\ song' \in Plays BY <3>1, NumberTypes DEF Plays
    <3>3. began[song'] # 0 => song' <= plays BY <3>2 DEF EmmsInv, LogInv
    <3> QED BY <3>2, <3>3, NumberTypes
  <2>4. log'[Len(log')] = "PAUSED" => told' BY DEF EmmsInv, LogInv
  <2> QED BY <2>1, <2>2, <2>3, <2>4 DEF LogInv
<1> QED BY <1>2, <1>3

-----------------------------------------------------------------------------
\* The player's steps.

LEMMA PlayerOpensStep ==
    ASSUME EmmsInv, PlayerOpens PROVE EmmsInv'
<1>1. /\ song # None /\ song \in Plays /\ ~open /\ open' = TRUE
      /\ queue' = Append(queue, [kind |-> "loaded", song |-> song])
      /\ UNCHANGED <<song, plays, over, log, began, told, pause, known, late, sure>>
      /\ UNCHANGED <<feedVars, daemonVars, emacsVars, counters>>
  BY NumberTypes DEF PlayerOpens, Event, feedVars, Plays
<1>2. [kind |-> "loaded", song |-> song] \in Events
  BY <1>1 DEF Events
<1>3. /\ queue' \in Seq(Events)
      /\ Len(queue') = Len(queue) + 1
      /\ \A j \in 1 .. Len(queue) : queue'[j] = queue[j]
      /\ queue'[Len(queue) + 1] = [kind |-> "loaded", song |-> song]
  BY <1>1, <1>2, QueueType
<1>4. \A j \in 1 .. Len(queue') : j \in 1 .. Len(queue) \/ j = Len(queue) + 1
  BY <1>3, QueueType
<1>5. TypeOK'
  BY <1>1, <1>3 DEF EmmsInv, TypeOK, feedVars, daemonVars, emacsVars, counters
<1>6. SongsInv'
  <2>1. \A j \in 1 .. Len(queue) :
          queue[j].song <= plays /\ queue[j].kind = "end" => queue[j].song \in over
    BY DEF EmmsInv, SongsInv
  <2>2. \A j \in 1 .. Len(queue) : queue[j].kind = "loaded" => queue[j].song \in over
    BY <1>1 DEF EmmsInv, SongsInv
  <2>3. song <= plays BY NumberTypes
  <2> QED BY <1>1, <1>3, <1>4, <2>1, <2>2, <2>3 DEF EmmsInv, SongsInv
<1>7. LogInv'
  <2>1. \A j \in 1 .. Len(queue') : queue'[j].kind = "end" =>
          \E k \in 1 .. Len(queue) : queue[k].kind = "end"
    BY <1>3, <1>4
  <2> QED BY <1>1, <2>1 DEF EmmsInv, LogInv
<1>8. FeedInv' BY <1>1, FeedLeftAlone DEF emacsVars
<1>9. EmacsInv' BY <1>1 DEF EmmsInv, EmacsInv, emacsVars, counters
<1> QED BY <1>5, <1>6, <1>7, <1>8, <1>9 DEF EmmsInv

LEMMA PlayerEndsStep ==
    ASSUME EmmsInv, PlayerEnds PROVE EmmsInv'
<1>1. /\ Ends /\ song' = None /\ open' = FALSE
      /\ UNCHANGED <<plays, log, began, told, pause, known, late, sure>>
      /\ UNCHANGED <<feedVars, daemonVars, emacsVars, counters>>
  BY DEF PlayerEnds, PlayerStops, feedVars
<1>2. /\ queue' \in Seq(Events)
      /\ over' = 1 .. plays /\ over \subseteq over'
  BY <1>1, EndsResult
<1>3. TypeOK'
  <2>1. song' \in 0 .. plays' /\ over' \subseteq 1 .. plays' BY <1>1, <1>2, NumberTypes
  <2>2. queue' \in Seq(Events) /\ open' \in BOOLEAN BY <1>1, <1>2
  <2> QED BY <1>1, <2>1, <2>2
          DEF EmmsInv, TypeOK, feedVars, daemonVars, emacsVars, counters
<1>4. SongsInv' /\ LogInv' BY <1>1, PlayerEffect
<1>5. FeedInv' BY <1>1, <1>2, FeedLeftAlone DEF emacsVars
<1>6. EmacsInv' BY <1>1 DEF EmmsInv, EmacsInv, emacsVars, counters
<1> QED BY <1>3, <1>4, <1>5, <1>6 DEF EmmsInv

\* A new state in the log changes nothing of what the daemons show.
LEMMA LogGrows ==
    ASSUME EmmsInv, NEW s \in States, Feed!Change(s)
    PROVE  /\ log' \in Seq(States) /\ log' # <<>> /\ Len(log') = Len(log) + 1
           /\ \A i \in 1 .. Len(log) : log'[i] = log[i]
           /\ log'[Len(log) + 1] = s
           /\ UNCHANGED <<at, shown, settled>>
<1>1. log' = Append(log, s) /\ UNCHANGED <<at, shown, settled>> BY DEF Feed!Change
<1>2. log \in Seq(States) BY DEF EmmsInv, TypeOK
<1> QED BY <1>1, <1>2

LEMMA FeedAfterGrowth ==
    ASSUME EmmsInv, NEW s \in States, Feed!Change(s), UNCHANGED <<emacsVars, over, known, sure>>,
           \A n \in Plays : began'[n] = began[n] \/ (began[n] = 0 /\ began'[n] > 0)
    PROVE  FeedInv'
<1>1. /\ Len(log') = Len(log) + 1
      /\ \A i \in 1 .. Len(log) : log'[i] = log[i]
      /\ UNCHANGED <<at, shown, settled>>
  BY LogGrows
<1>2. \A d \in Daemons :
        /\ at'[d] <= Len(log')
        /\ shown'[d] = IF at'[d] = 0 THEN "UNDEFINED" ELSE log'[at'[d]]
        /\ settled'[d] => at'[d] # 0
  <2>1. \A d \in Daemons : at[d] \in Nat BY DEF EmmsInv, TypeOK
  <2> QED BY <1>1, <2>1, NumberTypes DEF EmmsInv, FeedInv
<1>3. \A d \in Daemons, n \in Plays :
        <<d, n>> \in known' => settled'[d] /\ began'[n] # 0 /\ began'[n] <= at'[d]
  BY <1>1 DEF EmmsInv, FeedInv
<1> QED BY <1>2, <1>3 DEF EmmsInv, FeedInv, emacsVars

LEMMA PlayerReportsEventStep ==
    ASSUME EmmsInv, PlayerReportsEvent PROVE EmmsInv'
<1> DEFINE e == Head(queue)
<1>1. /\ queue # <<>> /\ queue' = Tail(queue)
      /\ UNCHANGED <<song, open, pause, told, plays, over, known, sure, late>>
      /\ UNCHANGED <<daemonVars, emacsVars, counters>>
  BY DEF PlayerReportsEvent
<1>2. /\ e = queue[1] /\ 1 \in 1 .. Len(queue) /\ e \in Events
      /\ queue' \in Seq(Events) /\ Len(queue') = Len(queue) - 1
      /\ \A j \in 1 .. Len(queue') : queue'[j] = queue[j + 1] /\ j + 1 \in 1 .. Len(queue)
  BY <1>1, QueueType
<1>3. e.song \in Plays /\ e.song <= plays /\ e.kind \in {"end", "loaded"}
  BY <1>2, QueueType DEF EmmsInv, SongsInv
<1>4. SongsInv'
  <2>1. ASSUME NEW j \in 1 .. Len(queue')
        PROVE  /\ queue'[j].song <= plays
               /\ queue'[j].kind = "end" => queue'[j].song \in over
               /\ queue'[j].kind = "loaded" /\ queue'[j].song \notin over
                    => open /\ j = Len(queue')
    <3>1. PICK k \in 1 .. Len(queue) : k = j + 1 /\ queue'[j] = queue[k] BY <1>2
    <3>2. /\ queue[k].song <= plays
          /\ queue[k].kind = "end" => queue[k].song \in over
          /\ queue[k].kind = "loaded" /\ queue[k].song \notin over => open /\ k = Len(queue)
      BY DEF EmmsInv, SongsInv
    <3> QED BY <1>2, <3>1, <3>2, QueueType
  <2> QED BY <1>1, <2>1 DEF EmmsInv, SongsInv
<1>5. ASSUME e.kind = "end", NEW n \in Plays, began[n] # 0 PROVE n \in over
  <2>1. n <= plays BY <1>5 DEF EmmsInv, LogInv
  <2>2. n \in over \/ n = song
    BY <2>1, NumberTypes DEF EmmsInv, SongsInv, Plays
  <2>3. n # song BY <1>2, <1>5, NumberTypes DEF EmmsInv, LogInv, Plays
  <2> QED BY <2>2, <2>3
<1>6. ASSUME NEW n \in Plays, NEW j \in 1 .. Len(queue'),
             n = e.song, e.kind = "loaded", n = song, song # None
      PROVE  FALSE
  <2>1. n \notin over BY <1>6 DEF EmmsInv, SongsInv
  <2>2. 1 = Len(queue) BY <1>2, <1>6, <2>1 DEF EmmsInv, SongsInv
  <2> QED BY <1>2, <2>2, QueueType
<1> HIDE DEF e
<1>7. CASE e.kind = "end"
  <2>1. Feed!Change("STOPPED") /\ began' = began /\ "STOPPED" \in States
    BY <1>7 DEF PlayerReportsEvent, e, States
  <2>2. /\ log' \in Seq(States) /\ log' # <<>> /\ Len(log') = Len(log) + 1
        /\ \A i \in 1 .. Len(log) : log'[i] = log[i]
        /\ log'[Len(log) + 1] = "STOPPED" /\ UNCHANGED <<at, shown, settled>>
    BY <2>1, LogGrows
  <2>3. TypeOK'
    BY <1>1, <1>2, <2>1, <2>2 DEF EmmsInv, TypeOK, daemonVars, emacsVars, counters
  <2>4. LogInv'
    <3>1. \A n \in Plays : began'[n] <= Len(log') /\ (began'[n] # 0 => n <= plays')
      <4>1. \A n \in Plays : began[n] \in Nat BY DEF EmmsInv, TypeOK
      <4> QED BY <1>1, <2>1, <2>2, <4>1, NumberTypes DEF EmmsInv, LogInv
    <3>2. \A n \in Plays : began'[n] # 0 => n \in over' BY <1>1, <1>5, <1>7, <2>1
    <3>3. song' # None /\ began'[song'] # 0 => FALSE
      BY <1>1, <1>5, <1>7, <2>1, NumberTypes DEF EmmsInv, SongsInv, Plays
    <3>4. log'[Len(log')] = "STOPPED" BY <2>2
    <3> QED BY <3>1, <3>2, <3>3, <3>4 DEF LogInv
  <2>5. FeedInv' BY <1>1, <2>1, FeedAfterGrowth
  <2>6. EmacsInv'
    BY <1>1, <2>2 DEF EmmsInv, EmacsInv, emacsVars, counters
  <2> QED BY <1>4, <2>3, <2>4, <2>5, <2>6 DEF EmmsInv
<1>8. CASE e.kind = "loaded" /\ ~pause
  <2>1. Feed!Change("PLAYING") /\ Began(e.song) /\ "PLAYING" \in States
    BY <1>8 DEF PlayerReportsEvent, e, States
  <2>2. /\ log' \in Seq(States) /\ log' # <<>> /\ Len(log') = Len(log) + 1
        /\ \A i \in 1 .. Len(log) : log'[i] = log[i]
        /\ log'[Len(log) + 1] = "PLAYING" /\ UNCHANGED <<at, shown, settled>>
    BY <2>1, LogGrows
  <2>3. /\ began' \in [Plays -> Nat]
        /\ \A n \in Plays : \/ began'[n] = began[n]
                            \/ n = e.song /\ began[n] = 0 /\ began'[n] = Len(log) + 1
    <3>1. began \in [Plays -> Nat] BY DEF EmmsInv, TypeOK
    <3> QED BY <1>3, <2>1, <3>1, NumberTypes DEF Began
  <2>4. TypeOK'
    BY <1>1, <1>2, <2>2, <2>3 DEF EmmsInv, TypeOK, daemonVars, emacsVars, counters
  <2>5. LogInv'
    <3>1. ASSUME NEW n \in Plays
          PROVE  began'[n] <= Len(log') /\ (began'[n] # 0 => n <= plays')
      <4>1. began[n] <= Len(log) /\ (began[n] # 0 => n <= plays) /\ began[n] \in Nat
        BY DEF EmmsInv, LogInv, TypeOK
      <4> QED BY <1>1, <1>3, <2>2, <2>3, <4>1, NumberTypes
    <3>2. ASSUME NEW n \in Plays, NEW i \in 1 .. Len(log'),
                 began'[n] # 0, began'[n] <= i, log'[i] = "STOPPED"
          PROVE  n \in over'
      <4>1. i \in 1 .. Len(log) /\ log[i] = "STOPPED" BY <2>2, <3>2, NumberTypes
      <4>2. began'[n] = began[n] BY <2>3, <3>2, <4>1, NumberTypes
      <4> QED BY <1>1, <3>2, <4>1, <4>2 DEF EmmsInv, LogInv
    <3>3. ASSUME song' # None, began'[song'] # 0, NEW j \in 1 .. Len(queue')
          PROVE  queue'[j].kind # "end"
      <4>1. song \in Plays /\ song # None BY <1>1, <3>3, NumberTypes DEF Plays
      <4>2. song # e.song BY <1>6, <1>8, <3>3, <4>1
      <4>3. began[song] # 0 BY <1>1, <2>3, <3>3, <4>1, <4>2
      <4> QED BY <1>2, <4>1, <4>3 DEF EmmsInv, LogInv
    <3>4. log'[Len(log')] = "PLAYING" BY <2>2
    <3> QED BY <3>1, <3>2, <3>3, <3>4 DEF LogInv
  <2>6. FeedInv'
    <3>1. \A n \in Plays : began'[n] = began[n] \/ (began[n] = 0 /\ began'[n] > 0)
      BY <2>3, NumberTypes
    <3> QED BY <1>1, <2>1, <3>1, FeedAfterGrowth
  <2>7. EmacsInv'
    BY <1>1, <1>8, <2>2 DEF EmmsInv, EmacsInv, emacsVars, counters
  <2> QED BY <1>4, <2>4, <2>5, <2>6, <2>7 DEF EmmsInv
<1>9. CASE e.kind = "loaded" /\ pause
  <2>1. UNCHANGED <<feedVars, began>>
    BY <1>9 DEF PlayerReportsEvent, e
  <2>2. TypeOK'
    BY <1>1, <1>2, <2>1 DEF EmmsInv, TypeOK, feedVars, daemonVars, emacsVars, counters
  <2>3. LogInv' BY <1>1, <1>2, <2>1 DEF EmmsInv, LogInv, feedVars
  <2>4. FeedInv' BY <1>1, <2>1, FeedLeftAlone DEF emacsVars
  <2>5. EmacsInv'
    BY <1>1, <2>1 DEF EmmsInv, EmacsInv, emacsVars, counters, feedVars
  <2> QED BY <1>4, <2>2, <2>3, <2>4, <2>5 DEF EmmsInv
<1> QED BY <1>3, <1>7, <1>8, <1>9

LEMMA PlayerReportsPauseStep ==
    ASSUME EmmsInv, PlayerReportsPause PROVE EmmsInv'
<1>1. /\ queue = <<>> /\ told # pause /\ told' = pause
      /\ UNCHANGED <<song, open, pause, queue, plays, over, known, sure, late>>
      /\ UNCHANGED <<daemonVars, emacsVars, counters>>
  BY DEF PlayerReportsPause
<1>2. PICK s \in States :
        /\ Feed!Change(s)
        /\ s = "PAUSED" => pause
        /\ s = "PLAYING" => ~pause /\ song # None
        /\ s = "STOPPED" => ~pause /\ song = None
        /\ (s = "PLAYING" /\ Began(song)) \/ (s # "PLAYING" /\ began' = began)
  BY DEF PlayerReportsPause, States
<1>3. /\ log' \in Seq(States) /\ log' # <<>> /\ Len(log') = Len(log) + 1
      /\ \A i \in 1 .. Len(log) : log'[i] = log[i]
      /\ log'[Len(log) + 1] = s /\ UNCHANGED <<at, shown, settled>>
  BY <1>2, LogGrows
<1>4. /\ began' \in [Plays -> Nat]
      /\ \A n \in Plays :
           \/ began'[n] = began[n]
           \/ n = song /\ s = "PLAYING" /\ began[n] = 0 /\ began'[n] = Len(log) + 1
  <2>1. began \in [Plays -> Nat] BY DEF EmmsInv, TypeOK
  <2>2. s = "PLAYING" => song \in Plays BY <1>2, NumberTypes DEF Plays
  <2> QED BY <1>2, <2>1, <2>2, NumberTypes DEF Began
<1>5. TypeOK'
  <2>1. told' \in BOOLEAN BY <1>1 DEF EmmsInv, TypeOK
  <2> QED BY <1>1, <1>3, <1>4, <2>1 DEF EmmsInv, TypeOK, daemonVars, emacsVars, counters
<1>6. SongsInv' BY <1>1, SongsLeftAlone
<1>7. LogInv'
  <2>1. ASSUME NEW n \in Plays
        PROVE  began'[n] <= Len(log') /\ (began'[n] # 0 => n <= plays')
    <3>1. began[n] <= Len(log) /\ (began[n] # 0 => n <= plays) /\ began[n] \in Nat
      BY DEF EmmsInv, LogInv, TypeOK
    <3> QED BY <1>1, <1>3, <1>4, <3>1, NumberTypes
  <2>2. ASSUME NEW n \in Plays, NEW i \in 1 .. Len(log'),
               began'[n] # 0, began'[n] <= i, log'[i] = "STOPPED"
        PROVE  n \in over'
    <3>1. CASE i \in 1 .. Len(log)
      <4>1. began'[n] = began[n] BY <1>4, <2>2, <3>1, NumberTypes
      <4>2. log[i] = "STOPPED" BY <1>3, <2>2, <3>1
      <4> QED BY <1>1, <2>2, <3>1, <4>1, <4>2 DEF EmmsInv, LogInv
    <3>2. CASE i = Len(log) + 1
      <4>1. s = "STOPPED" BY <1>3, <2>2, <3>2
      <4>2. song = None /\ began[n] # 0 BY <1>2, <1>4, <2>2, <4>1
      <4>3. n <= plays BY <4>2 DEF EmmsInv, LogInv
      <4> QED BY <1>1, <4>2, <4>3, NumberTypes DEF EmmsInv, SongsInv, Plays
    <3> QED BY <1>3, <3>1, <3>2, NumberTypes
  <2>3. Len(queue') = 0 BY <1>1
  <2>4. log'[Len(log')] = "PAUSED" => told' BY <1>1, <1>2, <1>3
  <2> QED BY <2>1, <2>2, <2>3, <2>4 DEF LogInv
<1>8. FeedInv'
  <2>1. \A n \in Plays : began'[n] = began[n] \/ (began[n] = 0 /\ began'[n] > 0)
    BY <1>4, NumberTypes
  <2> QED BY <1>1, <1>2, <2>1, FeedAfterGrowth
<1>9. EmacsInv'
  <2>1. log'[Len(log')] = "PLAYING" => ~pause' BY <1>1, <1>2, <1>3
  <2> QED BY <1>1, <2>1 DEF EmmsInv, EmacsInv, emacsVars, counters
<1> QED BY <1>5, <1>6, <1>7, <1>8, <1>9 DEF EmmsInv

-----------------------------------------------------------------------------
\* The daemon's steps.

LEMMA DaemonNumber ==
    ASSUME EmmsInv PROVE daemon \in 0 .. MaxDaemons
<1>1. daemon \in 0 .. started BY DEF EmmsInv, TypeOK
<1>2. started \in Nat /\ started <= MaxDaemons BY NumberTypes
<1>3. MaxDaemons \in Nat BY EmmsAssumption
<1> QED BY <1>1, <1>2, <1>3

LEMMA DaemonShowsStep ==
    ASSUME EmmsInv, NEW i \in 1 .. Len(log), DaemonShows(i) PROVE EmmsInv'
<1>1. /\ daemon \in Daemons
      /\ i \in Nat /\ i # 0 /\ i <= Len(log)
      /\ UNCHANGED <<song, open, pause, told, queue, plays, over, began, sure, late>>
      /\ UNCHANGED <<daemonVars, emacsVars, counters>>
  <2>1. daemon \in Daemons
    <3>1. daemon # 0 BY DEF DaemonShows
    <3>2. MaxDaemons \in Nat BY EmmsAssumption
    <3> QED BY <3>1, <3>2, DaemonNumber DEF Daemons
  <2>2. i \in Nat /\ i # 0 /\ i <= Len(log) BY NumberTypes
  <2>3. /\ UNCHANGED <<song, open, pause, told, queue, plays, over, began, sure, late>>
        /\ UNCHANGED <<daemonVars, emacsVars, counters>>
    BY DEF DaemonShows, playerVars
  <2> QED BY <2>1, <2>2, <2>3
<1>2. /\ i >= Feed!Oldest(daemon)
      /\ at' = [at EXCEPT ![daemon] = i]
      /\ shown' = [shown EXCEPT ![daemon] = log[i]]
      /\ settled' = [settled EXCEPT ![daemon] = at[daemon] # 0]
      /\ log' = log
  BY DEF DaemonShows, Shows, Feed!Show
<1>3. known' = IF at[daemon] = 0 THEN known
               ELSE known \cup {<<daemon, n>> : n \in {m \in Plays : began[m] \in 1 .. i}}
  BY DEF DaemonShows
<1>4. log[i] \in States BY DEF EmmsInv, TypeOK
<1>5. /\ at \in [Daemons -> Nat] /\ settled \in [Daemons -> BOOLEAN]
      /\ shown \in [Daemons -> States \cup {"UNDEFINED"}]
      /\ known \subseteq Daemons \X Plays
  BY DEF EmmsInv, TypeOK
<1>6. known' \subseteq Daemons \X Plays BY <1>1, <1>3, <1>5
<1>7. TypeOK'
  <2>1. /\ at' \in [Daemons -> Nat] /\ settled' \in [Daemons -> BOOLEAN]
        /\ shown' \in [Daemons -> States \cup {"UNDEFINED"}]
    BY <1>1, <1>2, <1>4, <1>5
  <2> QED BY <1>1, <1>2, <1>6, <2>1 DEF EmmsInv, TypeOK, daemonVars, emacsVars, counters
<1>8. SongsInv' /\ LogInv' BY <1>1, <1>2, SongsLeftAlone, LogLeftAlone
<1>9. FeedInv'
  <2>1. \A d \in Daemons :
          /\ at'[d] <= Len(log')
          /\ shown'[d] = IF at'[d] = 0 THEN "UNDEFINED" ELSE log'[at'[d]]
          /\ settled'[d] => at'[d] # 0
    BY <1>1, <1>2, <1>5 DEF EmmsInv, FeedInv
  <2>2. ASSUME NEW d \in Daemons, NEW n \in Plays, <<d, n>> \in known'
        PROVE  settled'[d] /\ began'[n] # 0 /\ began'[n] <= at'[d]
    <3>1. CASE <<d, n>> \in known
      <4>1. settled[d] /\ began[n] # 0 /\ began[n] <= at[d]
        BY <3>1 DEF EmmsInv, FeedInv
      <4>2. CASE d # daemon BY <1>1, <1>2, <1>5, <4>1, <4>2
      <4>3. CASE d = daemon
        <5>1. at[d] \in Nat /\ at[d] # 0 /\ began[n] \in Nat
          BY <1>5, <4>1 DEF EmmsInv, FeedInv, TypeOK
        <5>2. i >= at[d] BY <1>1, <1>2, <4>1, <4>3, <5>1 DEF Feed!Oldest
        <5> QED BY <1>1, <1>2, <1>5, <4>1, <4>3, <5>1, <5>2
      <4> QED BY <4>2, <4>3
    <3>2. CASE <<d, n>> \notin known
      <4>1. /\ at[daemon] # 0 /\ d = daemon
            /\ n \in {m \in Plays : began[m] \in 1 .. i}
        BY <1>3, <2>2, <3>2
      <4>2. began[n] \in 1 .. i BY <4>1
      <4>3. began[n] # 0 /\ began[n] <= i BY <1>1, <4>2
      <4>4. at'[d] = i /\ settled'[d] BY <1>1, <1>2, <1>5, <4>1
      <4> QED BY <1>1, <4>3, <4>4
    <3> QED BY <3>1, <3>2
  <2> QED BY <1>1, <2>1, <2>2 DEF EmmsInv, FeedInv, emacsVars
<1>10. EmacsInv' BY <1>1, <1>2 DEF EmmsInv, EmacsInv, emacsVars, counters
<1> QED BY <1>7, <1>8, <1>9, <1>10 DEF EmmsInv

LEMMA DaemonEndsStep ==
    ASSUME EmmsInv, DaemonEnds PROVE EmmsInv'
<1>1. /\ daemon' = None /\ started' = started
      /\ UNCHANGED <<song, open, pause, told, queue, plays, over, began, known, sure, late>>
      /\ UNCHANGED <<feedVars, emacsVars, counters>>
  BY DEF DaemonEnds, playerVars, history
<1>2. TypeOK'
  BY <1>1, NumberTypes DEF EmmsInv, TypeOK, feedVars, emacsVars, counters
<1>3. SongsInv' /\ LogInv' BY <1>1, SongsLeftAlone, LogLeftAlone DEF feedVars
<1>4. FeedInv' BY <1>1, FeedLeftAlone DEF emacsVars
<1>5. EmacsInv' BY <1>1 DEF EmmsInv, EmacsInv, emacsVars, counters, feedVars
<1> QED BY <1>2, <1>3, <1>4, <1>5 DEF EmmsInv

-----------------------------------------------------------------------------
\* The front-end's steps.

LEMMA EnsureDaemonResult ==
    ASSUME EmmsInv, EnsureDaemon PROVE daemon' \in 0 .. started' /\ started' \in 0 .. MaxDaemons
<1>1. daemon \in 0 .. started /\ started \in 0 .. MaxDaemons BY DEF EmmsInv, TypeOK
<1>2. CASE UNCHANGED daemonVars BY <1>1, <1>2 DEF daemonVars
<1>3. CASE /\ daemon = None /\ started < MaxDaemons
           /\ started' = started + 1 /\ daemon' = started'
  BY <1>1, <1>3, EmmsAssumption
<1> QED BY <1>2, <1>3 DEF EnsureDaemon

LEMMA StartStep ==
    ASSUME EmmsInv, Start PROVE EmmsInv'
<1>1. /\ Ends /\ EnsureDaemon
      /\ doing \in {"nothing", "next"} /\ doing' = "starting"
      /\ playing = None /\ plays < MaxPlays
      /\ plays' = plays + 1 /\ song' = plays' /\ open' = FALSE /\ pause' = FALSE
      /\ UNCHANGED <<log, told, playing, paused, timer, seen, began, known, sure, late>>
      /\ UNCHANGED <<feedVars, counters>>
  BY DEF Start, Load, feedVars
<1>2. /\ queue' \in Seq(Events)
      /\ over' = 1 .. plays /\ over \subseteq over'
  BY <1>1, EndsResult
<1>3. TypeOK'
  <2>1. /\ song' \in 0 .. plays' /\ plays' \in 0 .. MaxPlays
        /\ over' \subseteq 1 .. plays' /\ playing' \in 0 .. plays'
    BY <1>1, <1>2, NumberTypes
  <2> QED BY <1>1, <1>2, <2>1, EnsureDaemonResult DEF EmmsInv, TypeOK, feedVars, counters
<1>4. SongsInv' /\ LogInv' BY <1>1, PlayerEffect
<1>5. FeedInv' BY <1>1, FeedLeftAlone
<1>6. EmacsInv' BY <1>1 DEF EmmsInv, EmacsInv, counters
<1> QED BY <1>3, <1>4, <1>5, <1>6 DEF EmmsInv

LEMMA StopStep ==
    ASSUME EmmsInv, Stop PROVE EmmsInv'
<1>1. /\ Ends /\ EnsureDaemon
      /\ doing = "nothing" /\ doing' = "stopping"
      /\ playing # None /\ plays' = plays /\ song' = None /\ open' = FALSE
      /\ commands' \in 0 .. MaxCommands
      /\ UNCHANGED <<log, pause, told, playing, paused, timer, seen, failures, began, known, sure, late>>
      /\ UNCHANGED feedVars
  BY EmmsAssumption DEF Stop, Command, PlayerStops, feedVars, EmmsInv, TypeOK
<1>2. /\ queue' \in Seq(Events)
      /\ over' = 1 .. plays /\ over \subseteq over'
  BY <1>1, EndsResult
<1>3. TypeOK'
  <2>1. song' \in 0 .. plays' /\ over' \subseteq 1 .. plays'
    BY <1>1, <1>2, NumberTypes
  <2> QED BY <1>1, <1>2, <2>1, EnsureDaemonResult DEF EmmsInv, TypeOK, feedVars
<1>4. SongsInv' /\ LogInv' BY <1>1, PlayerEffect
<1>5. FeedInv' BY <1>1, FeedLeftAlone
<1>6. EmacsInv' BY <1>1 DEF EmmsInv, EmacsInv
<1> QED BY <1>3, <1>4, <1>5, <1>6 DEF EmmsInv

\* Steps that leave the player, the feed and the daemon alone.
LEMMA OwnStep ==
    ASSUME EmmsInv, UNCHANGED <<feedVars, playerVars, daemonVars, counters>>,
           UNCHANGED <<over, began, known, late>>,
           playing' \in 0 .. plays, paused' \in BOOLEAN, timer' \in BOOLEAN,
           doing' \in {"nothing", "next", "starting", "stopping", "pausing", "unpausing"},
           seen' \in States \cup {"nil"}, sure' \in BOOLEAN,
           EmacsInv'
    PROVE  EmmsInv'
<1>1. TypeOK'
  BY DEF EmmsInv, TypeOK, feedVars, playerVars, daemonVars, counters
<1>2. SongsInv' /\ LogInv' BY SongsLeftAlone, LogLeftAlone DEF feedVars, playerVars
<1>3. FeedInv' BY FeedLeftAlone
<1> QED BY <1>1, <1>2, <1>3 DEF EmmsInv

LEMMA StartedStep ==
    ASSUME EmmsInv, Started PROVE EmmsInv'
<1>1. EmacsInv'
  BY DEF EmmsInv, EmacsInv, Started, feedVars, playerVars, counters, history
<1>2. /\ playing' \in 0 .. plays /\ paused' \in BOOLEAN /\ timer' \in BOOLEAN
      /\ doing' = "nothing" /\ seen' \in States \cup {"nil"} /\ sure' \in BOOLEAN
  <2>1. /\ playing' = plays /\ paused' = FALSE /\ timer' = TRUE
        /\ doing' = "nothing" /\ seen' = seen /\ sure' = sure
    BY DEF Started, history
  <2>2. playing' \in 0 .. plays BY <2>1, NumberTypes
  <2>3. paused \in BOOLEAN /\ seen \in States \cup {"nil"} /\ sure \in BOOLEAN
    BY DEF EmmsInv, TypeOK
  <2> QED BY <2>1, <2>2, <2>3
<1>3. UNCHANGED <<feedVars, playerVars, daemonVars, counters, over, began, known, late>>
  BY DEF Started, history
<1> QED BY <1>1, <1>2, <1>3, OwnStep

LEMMA StoppedStep ==
    ASSUME EmmsInv, Stopped PROVE EmmsInv'
<1>1. EmacsInv'
  BY DEF EmmsInv, EmacsInv, Stopped, feedVars, playerVars, counters, history
<1>2. /\ playing' \in 0 .. plays /\ paused' \in BOOLEAN /\ timer' \in BOOLEAN
      /\ doing' = "nothing" /\ seen' \in States \cup {"nil"} /\ sure' \in BOOLEAN
  <2>1. /\ playing' = None /\ paused' = paused /\ timer' = FALSE
        /\ doing' = "nothing" /\ seen' = seen /\ sure' = sure
    BY DEF Stopped, history
  <2>2. playing' \in 0 .. plays BY <2>1, NumberTypes
  <2>3. paused \in BOOLEAN /\ seen \in States \cup {"nil"} /\ sure \in BOOLEAN
    BY DEF EmmsInv, TypeOK
  <2> QED BY <2>1, <2>2, <2>3
<1>3. UNCHANGED <<feedVars, playerVars, daemonVars, counters, over, began, known, late>>
  BY DEF Stopped, history
<1> QED BY <1>1, <1>2, <1>3, OwnStep

LEMMA PauseIgnoredStep ==
    ASSUME EmmsInv, PauseIgnored PROVE EmmsInv'
<1>1. EmacsInv'
  BY DEF EmmsInv, EmacsInv, PauseIgnored, feedVars, playerVars, counters, history
<1> QED BY <1>1, OwnStep, NumberTypes DEF PauseIgnored, EmmsInv, TypeOK, history

LEMMA DetectSongChangeStep ==
    ASSUME EmmsInv, DetectSongChange PROVE EmmsInv'
<1>1. EmacsInv'
  BY DEF EmmsInv, EmacsInv, DetectSongChange, feedVars, playerVars, counters
<1>2. doing' \in {"next", "nothing"} /\ playing' \in 0 .. plays
  BY NumberTypes DEF DetectSongChange
<1> QED BY <1>1, <1>2, OwnStep DEF DetectSongChange, EmmsInv, TypeOK

\* A call that fails excuses what Emacs knows from then on.
LEMMA FailureResult ==
    ASSUME EmmsInv, Failure PROVE failures' \in 0 .. MaxFailures /\ failures' # 0
BY EmmsAssumption DEF EmmsInv, TypeOK, Failure

LEMMA StartFailsStep ==
    ASSUME EmmsInv, StartFails PROVE EmmsInv'
<1>1. /\ Failure /\ doing' = "nothing"
      /\ UNCHANGED <<playing, paused, timer, seen, commands>>
      /\ UNCHANGED <<feedVars, playerVars, daemonVars, history>>
  BY DEF StartFails
<1>2. TypeOK'
  BY <1>1, FailureResult
  DEF EmmsInv, TypeOK, feedVars, playerVars, daemonVars, history
<1>3. SongsInv' /\ LogInv'
  BY <1>1, SongsLeftAlone, LogLeftAlone DEF feedVars, playerVars, history
<1>4. FeedInv' BY <1>1, FeedLeftAlone DEF history
<1>5. EmacsInv' BY <1>1, FailureResult DEF EmacsInv
<1> QED BY <1>2, <1>3, <1>4, <1>5 DEF EmmsInv

LEMMA StopFailsStep ==
    ASSUME EmmsInv, StopFails PROVE EmmsInv'
<1>1. /\ Failure /\ doing' = "nothing"
      /\ UNCHANGED <<playing, paused, timer, seen, commands>>
      /\ UNCHANGED <<feedVars, playerVars, daemonVars, history>>
  BY DEF StopFails
<1>2. TypeOK'
  BY <1>1, FailureResult
  DEF EmmsInv, TypeOK, feedVars, playerVars, daemonVars, history
<1>3. SongsInv' /\ LogInv'
  BY <1>1, SongsLeftAlone, LogLeftAlone DEF feedVars, playerVars, history
<1>4. FeedInv' BY <1>1, FeedLeftAlone DEF history
<1>5. EmacsInv' BY <1>1, FailureResult DEF EmacsInv
<1> QED BY <1>2, <1>3, <1>4, <1>5 DEF EmmsInv

LEMMA PauseFailsStep ==
    ASSUME EmmsInv, PauseFails PROVE EmmsInv'
<1>1. /\ Failure /\ doing' = "nothing" /\ seen' = "nil" /\ timer' \in BOOLEAN
      /\ UNCHANGED <<song, open, told, queue, plays, over, playing, paused, commands>>
      /\ pause' \in BOOLEAN
      /\ UNCHANGED <<began, known, sure, late>>
      /\ UNCHANGED <<feedVars, daemonVars>>
  BY DEF PauseFails, PlayerToggles, playerVars, EmmsInv, TypeOK
<1>2. TypeOK'
  BY <1>1, FailureResult DEF EmmsInv, TypeOK, feedVars, daemonVars
<1>3. SongsInv' /\ LogInv' BY <1>1, SongsLeftAlone, LogLeftAlone DEF feedVars
<1>4. FeedInv' BY <1>1, FeedLeftAlone
<1>5. EmacsInv' BY <1>1, FailureResult DEF EmacsInv
<1> QED BY <1>2, <1>3, <1>4, <1>5 DEF EmmsInv

\* Pausing and unpausing have the same effect on the player.
LEMMA ToggleStep ==
    ASSUME EmmsInv, EnsureDaemon, PlayerToggles,
           doing \in {"pausing", "unpausing"},
           doing = "pausing" => seen = "PLAYING" /\ timer' = FALSE,
           doing = "unpausing" => seen = "PAUSED" /\ timer' = TRUE,
           doing' = "nothing", seen' = "nil", paused' \in BOOLEAN,
           UNCHANGED <<feedVars, playing, counters, began, known, sure, late>>
    PROVE  EmmsInv'
<1>1. /\ pause' = ~pause /\ pause' \in BOOLEAN /\ timer' \in BOOLEAN
      /\ UNCHANGED <<song, open, told, queue, plays, over>>
  BY DEF PlayerToggles, EmmsInv, TypeOK
<1>2. TypeOK' BY <1>1, EnsureDaemonResult DEF EmmsInv, TypeOK, feedVars, counters
<1>3. SongsInv' /\ LogInv' BY <1>1, SongsLeftAlone, LogLeftAlone DEF feedVars
<1>4. FeedInv' BY FeedLeftAlone
<1>5. EmacsInv' BY <1>1 DEF EmmsInv, EmacsInv, TypeOK, feedVars, counters
<1> QED BY <1>2, <1>3, <1>4, <1>5 DEF EmmsInv

LEMMA PausingSteps ==
    ASSUME EmmsInv, Pausing \/ Unpausing PROVE EmmsInv'
<1>1. CASE Pausing BY <1>1, ToggleStep DEF Pausing
<1>2. CASE Unpausing BY <1>2, ToggleStep DEF Unpausing
<1> QED BY <1>1, <1>2

LEMMA GetStateResult ==
    ASSUME EmmsInv, GetState
    PROVE  /\ seen' \in States \cup {"nil"}
           /\ failures' \in 0 .. MaxFailures /\ (failures' = 0 => failures = 0)
           /\ seen' # "nil" => daemon \in Daemons /\ shown[daemon] = seen'
<1>1. failures \in 0 .. MaxFailures /\ daemon \in 0 .. MaxDaemons
  <2>1. failures \in 0 .. MaxFailures BY DEF EmmsInv, TypeOK
  <2> QED BY <2>1, DaemonNumber
<1>2. CASE /\ seen' = IF daemon # None /\ shown[daemon] \in States THEN shown[daemon] ELSE "nil"
           /\ UNCHANGED failures
  BY <1>1, <1>2, EmmsAssumption DEF Daemons
<1>3. CASE seen' = "nil" /\ Failure BY <1>3, FailureResult
<1> QED BY <1>2, <1>3 DEF GetState

LEMMA PauseStep ==
    ASSUME EmmsInv, Pause PROVE EmmsInv'
<1>1. /\ doing = "nothing" /\ doing' \in {"pausing", "unpausing"} /\ playing # None
      /\ late' \in BOOLEAN /\ (~late' => ~late /\ UpToDate)
      /\ commands' \in 0 .. MaxCommands
      /\ UNCHANGED <<playing, paused, timer, over, began, known, sure>>
      /\ UNCHANGED <<feedVars, playerVars, daemonVars>>
  <2>1. /\ doing = "nothing" /\ playing # None
        /\ doing' = IF paused THEN "unpausing" ELSE "pausing"
        /\ commands < MaxCommands /\ commands' = commands + 1
        /\ UNCHANGED <<playing, paused, timer, over, began, known, sure>>
        /\ UNCHANGED <<feedVars, playerVars, daemonVars>>
    BY DEF Pause, Command
  <2>2. late \in BOOLEAN /\ late' = (late \/ ~UpToDate) BY DEF Pause, EmmsInv, TypeOK
  <2>3. late' \in BOOLEAN /\ (~late' => ~late /\ UpToDate) BY <2>2
  <2>4. commands' \in 0 .. MaxCommands
    <3>1. commands \in 0 .. MaxCommands BY DEF EmmsInv, TypeOK
    <3>2. MaxCommands \in Nat BY EmmsAssumption
    <3> QED BY <2>1, <3>1, <3>2
  <2> QED BY <2>1, <2>3, <2>4
<1>2. /\ seen' \in States \cup {"nil"}
      /\ failures' \in 0 .. MaxFailures /\ (failures' = 0 => failures = 0)
      /\ seen' # "nil" => daemon \in Daemons /\ shown[daemon] = seen'
  BY GetStateResult DEF Pause
<1>3. TypeOK'
  BY <1>1, <1>2 DEF EmmsInv, TypeOK, feedVars, playerVars, daemonVars
<1>4. SongsInv' /\ LogInv'
  BY <1>1, SongsLeftAlone, LogLeftAlone DEF feedVars, playerVars
<1>5. FeedInv' BY <1>1, FeedLeftAlone
<1>6. EmacsInv'
  <2>1. ASSUME ~late', failures' = 0, seen' # "nil"
        PROVE  /\ seen' = "PLAYING" => ~pause
               /\ seen' = "PAUSED" => pause
    <3>1. /\ daemon \in Daemons /\ at[daemon] = Len(log) /\ told = pause
          /\ shown[daemon] = seen'
      BY <1>1, <1>2, <2>1 DEF UpToDate
    <3>2. log[Len(log)] = seen' BY <3>1, NumberTypes DEF EmmsInv, FeedInv
    <3>3. log[Len(log)] = "PAUSED" => told BY DEF EmmsInv, LogInv
    <3>4. log[Len(log)] = "PLAYING" /\ pause => ~told
      BY <1>1, <1>2, <2>1 DEF EmmsInv, EmacsInv
    <3> QED BY <3>1, <3>2, <3>3, <3>4 DEF EmmsInv, TypeOK
  <2>2. ~late' => told = pause BY <1>1 DEF UpToDate
  <2> QED BY <1>1, <1>2, <2>1, <2>2 DEF EmmsInv, EmacsInv, feedVars, playerVars
<1> QED BY <1>3, <1>4, <1>5, <1>6 DEF EmmsInv

LEMMA TimerFiresStep ==
    ASSUME EmmsInv, TimerFires PROVE EmmsInv'
<1>1. /\ doing = "nothing" /\ doing' = "detecting"
      /\ sure' = (<<daemon, playing>> \in known)
      /\ UNCHANGED <<playing, paused, timer, commands, over, began, known, late>>
      /\ UNCHANGED <<feedVars, playerVars, daemonVars>>
  BY DEF TimerFires
<1>2. /\ seen' \in States \cup {"nil"}
      /\ failures' \in 0 .. MaxFailures /\ (failures' = 0 => failures = 0)
      /\ seen' # "nil" => daemon \in Daemons /\ shown[daemon] = seen'
  BY GetStateResult DEF TimerFires
<1>3. TypeOK'
  BY <1>1, <1>2 DEF EmmsInv, TypeOK, feedVars, playerVars, daemonVars
<1>4. SongsInv' /\ LogInv'
  BY <1>1, SongsLeftAlone, LogLeftAlone DEF feedVars, playerVars
<1>5. FeedInv'
  <2>1. ASSUME sure', seen' = "STOPPED" PROVE playing \in over
    <3>1. /\ daemon \in Daemons /\ shown[daemon] = "STOPPED" /\ <<daemon, playing>> \in known
      BY <1>1, <1>2, <2>1
    <3>2. playing \in Plays BY <3>1 DEF EmmsInv, TypeOK
    <3>3. /\ at[daemon] # 0 /\ at[daemon] <= Len(log) /\ at[daemon] \in Nat
          /\ shown[daemon] = log[at[daemon]]
          /\ began[playing] # 0 /\ began[playing] <= at[daemon]
      BY <3>1, <3>2 DEF EmmsInv, FeedInv, TypeOK
    <3>4. at[daemon] \in 1 .. Len(log) BY <3>3, NumberTypes
    <3> QED BY <3>1, <3>2, <3>3, <3>4 DEF EmmsInv, LogInv
  <2> QED BY <1>1, <2>1 DEF EmmsInv, FeedInv, feedVars
<1>6. EmacsInv'
  BY <1>1, <1>2 DEF EmmsInv, EmacsInv, feedVars, playerVars
<1> QED BY <1>3, <1>4, <1>5, <1>6 DEF EmmsInv

LEMMA UnchangedStep ==
    ASSUME EmmsInv, UNCHANGED vars PROVE EmmsInv'
<1>1. TypeOK'
  BY DEF EmmsInv, TypeOK, vars, feedVars, playerVars, daemonVars, emacsVars, counters, history
<1>2. SongsInv' /\ LogInv'
  BY SongsLeftAlone, LogLeftAlone DEF vars, feedVars, playerVars, history
<1>3. FeedInv' BY FeedLeftAlone DEF vars, emacsVars, history
<1>4. EmacsInv'
  BY DEF EmmsInv, EmacsInv, vars, feedVars, playerVars, emacsVars, counters, history
<1> QED BY <1>1, <1>2, <1>3, <1>4 DEF EmmsInv

(***************************************************************************)
(* The inductive invariant: what is in the queue is about songs that have  *)
(* ended, but for a last FILE_LOADED; the log is not STOPPED while a track *)
(* in it plays; what the daemons show is in the log.                       *)
(***************************************************************************)
THEOREM Invariance == Spec => []EmmsInv
<1>1. Init => EmmsInv
  <2> SUFFICES ASSUME Init PROVE EmmsInv OBVIOUS
  <2>1. TypeOK
    <3>1. /\ 0 \in 0 .. plays /\ 0 \in 0 .. MaxPlays /\ 0 \in 0 .. started
          /\ 0 \in 0 .. MaxDaemons /\ 0 \in 0 .. MaxCommands /\ 0 \in 0 .. MaxFailures
      BY EmmsAssumption DEF Init
    <3>2. log \in Seq(States) /\ log # <<>> BY DEF Init, States
    <3>3. queue \in Seq(Events) BY DEF Init
    <3>4. /\ at \in [Daemons -> Nat] /\ settled \in [Daemons -> BOOLEAN]
          /\ shown \in [Daemons -> States \cup {"UNDEFINED"}]
          /\ began \in [Plays -> Nat]
      BY DEF Init
    <3> QED BY <3>1, <3>2, <3>3, <3>4 DEF Init, TypeOK
  <2>2. SongsInv /\ LogInv BY DEF Init, SongsInv, LogInv
  <2>3. FeedInv /\ EmacsInv BY DEF Init, FeedInv, EmacsInv
  <2> QED BY <2>1, <2>2, <2>3 DEF EmmsInv
<1>2. EmmsInv /\ [Next]_vars => EmmsInv'
  <2>1. SUFFICES ASSUME EmmsInv, [Next]_vars PROVE EmmsInv' OBVIOUS
  <2>2. CASE Emacs
    BY <2>1, <2>2, StartStep, StartFailsStep, StartedStep, StopStep, StopFailsStep,
       StoppedStep, PauseStep, PausingSteps, PauseIgnoredStep, PauseFailsStep,
       TimerFiresStep, DetectSongChangeStep, Zenon DEF Emacs
  <2>3. CASE Player
    BY <2>1, <2>3, PlayerOpensStep, PlayerEndsStep, PlayerReportsEventStep,
       PlayerReportsPauseStep, Zenon DEF Player
  <2>4. CASE DaemonEnds BY <2>1, <2>4, DaemonEndsStep
  <2>5. CASE Waits BY <2>1, <2>5, UnchangedStep DEF Waits
  <2>6. CASE \E i \in 1 .. Len(log) : DaemonShows(i) BY <2>1, <2>6, DaemonShowsStep
  <2>7. CASE UNCHANGED vars BY <2>1, <2>7, UnchangedStep
  <2> QED BY <2>1, <2>2, <2>3, <2>4, <2>5, <2>6, <2>7, Zenon DEF Next
<1> QED BY <1>1, <1>2, PTL DEF Spec

(***************************************************************************)
(* However far a daemon lags: once it has shown a track PLAYING, after its *)
(* first message, --detect-song-change only skips that track if it ended.  *)
(***************************************************************************)
THEOREM SkipsAreRight == Spec => SkipsOnlyWhatEnded
<1>1. EmmsInv /\ [Next]_vars
        => [doing = "detecting" /\ playing # None /\ playing' = None /\ sure
              => playing \in over]_vars
  <2>1. SUFFICES ASSUME EmmsInv, Next, doing = "detecting", playing # None,
                        playing' = None, sure
                 PROVE  playing \in over
    OBVIOUS
  <2>2. seen = "STOPPED"
    BY <2>1 DEF Next, Emacs, Player, Start, StartFails, Started, Stop, StopFails, Stopped,
       Pause, Command, Pausing, Unpausing, PauseIgnored, PauseFails, TimerFires,
       DetectSongChange, PlayerOpens, PlayerEnds, PlayerReportsEvent, PlayerReportsPause,
       DaemonShows, DaemonEnds, Waits, vars, emacsVars
  <2> QED BY <2>1, <2>2 DEF EmmsInv, FeedInv
<1> QED BY <1>1, Invariance, PTL DEF Spec, SkipsOnlyWhatEnded

(***************************************************************************)
(* Whatever the user does: if pause and unpause read the player's state    *)
(* and no call fails, the timer runs exactly if the player is not paused.  *)
(***************************************************************************)
THEOREM TimerKeepsStep == Spec => []TimerInStep
<1>1. EmmsInv => TimerInStep BY DEF EmmsInv, EmacsInv, TimerInStep
<1> QED BY <1>1, Invariance, PTL
=============================================================================
