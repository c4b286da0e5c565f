-------------------------------- MODULE Emms --------------------------------
(***************************************************************************)
(* The Emacs front-end (emms-player-lrm.el): EMMS plays a list through the *)
(* daemon, and a timer infers from the state the daemon shows that a track *)
(* has ended.  That state is a lagging one (StatusFeed, which InfoStream   *)
(* implements), and the front-end reads it and acts in two steps.          *)
(*                                                                         *)
(* The player is Player with one caller, taken together: a command at      *)
(* once, an event and its handling at once.  Emacs has one thread, so the  *)
(* timer never runs inside a command.  External: EMMS itself (one player   *)
(* at a time, emms-player-playing-p and -paused-p).  A daemon that is      *)
(* started again is another client of the feed.                            *)
(***************************************************************************)
EXTENDS Naturals, Sequences

CONSTANTS
    MaxPlays,     \* bound: times a track is loaded
    MaxCommands,  \* bound: times the user stops or pauses
    MaxFailures,  \* bound: calls of the lrm program that fail
    MaxDaemons    \* bound: daemons started, one after the other

ASSUME EmmsAssumption == {MaxPlays, MaxCommands, MaxFailures, MaxDaemons} \subseteq Nat

Plays   == 1 .. MaxPlays
Daemons == 1 .. MaxDaemons
None    == 0                  \* no track, no daemon

VARIABLES
    log, at, shown, settled,   \* the feed
    song, open, pause,         \* what mpv has loaded, if it is open, "pause"
    told, queue,               \* "pause" as last reported; mpv's events
    plays,                     \* how many tracks have been loaded
    daemon, started,           \* the daemon that runs; how many have been started
    playing, paused, timer,    \* emms-player-playing-p, -paused-p, the status timer
    doing, seen,               \* what Emacs is in the middle of, the state it read
    commands, failures,
    over,       \* history: tracks that have ended
    began,      \* history: where in the log a track is first PLAYING
    known,      \* history: which daemon has shown which track PLAYING or later
    sure,       \* history: the state seen came from a daemon that knew the track
    late        \* history: pause or unpause read a state that was not the player's

feedVars    == <<log, at, shown, settled>>
playerVars  == <<song, open, pause, told, queue, plays>>
daemonVars  == <<daemon, started>>
emacsVars   == <<playing, paused, timer, doing, seen>>
counters    == <<commands, failures>>
history     == <<over, began, known, sure, late>>
vars == <<feedVars, playerVars, daemonVars, emacsVars, counters, history>>

States == {"PLAYING", "PAUSED", "STOPPED"}
Events == [kind : {"end", "loaded"}, song : Plays]   \* END_FILE, FILE_LOADED

Feed == INSTANCE StatusFeed
          WITH Clients <- Daemons, PlaybackStates <- States, NoState <- "UNDEFINED"

Init ==
    /\ log = <<"STOPPED">>
    /\ at = [d \in Daemons |-> 0] /\ settled = [d \in Daemons |-> FALSE]
    /\ shown = [d \in Daemons |-> "UNDEFINED"]
    /\ song = None /\ open = FALSE /\ pause = FALSE /\ told = FALSE /\ queue = <<>>
    /\ plays = 0 /\ daemon = None /\ started = 0
    /\ playing = None /\ paused = FALSE /\ timer = FALSE
    /\ doing = "nothing" /\ seen = "nil"
    /\ commands = 0 /\ failures = 0
    /\ over = {} /\ began = [n \in Plays |-> 0] /\ known = {}
    /\ sure = FALSE /\ late = FALSE

-----------------------------------------------------------------------------
(***************************************************************************)
(* The player.                                                             *)
(***************************************************************************)
Event(kind) == [kind |-> kind, song |-> song]

\* What is loaded, if anything, ends.
Ends ==
    /\ over' = IF song = None THEN over ELSE over \cup {song}
    /\ queue' = IF song = None THEN queue ELSE Append(queue, Event("end"))

\* AudioStream: load the next track and take back a pause.
Load ==
    /\ Ends
    /\ plays' = plays + 1 /\ song' = plays'
    /\ open' = FALSE /\ pause' = FALSE
    /\ UNCHANGED told

PlayerStops ==
    /\ Ends
    /\ song' = None /\ open' = FALSE
    /\ UNCHANGED <<pause, told, plays>>

PlayerToggles ==
    /\ pause' = ~pause
    /\ UNCHANGED <<song, open, told, queue, plays, over>>

PlayerOpens ==
    /\ song # None /\ ~open
    /\ open' = TRUE /\ queue' = Append(queue, Event("loaded"))
    /\ UNCHANGED <<song, pause, told, plays, over>>
    /\ UNCHANGED <<feedVars, daemonVars, emacsVars, counters, began, known, sure, late>>

\* The end of the file, or an error when it is opened.
PlayerEnds ==
    /\ song # None /\ (open => ~pause)
    /\ PlayerStops
    /\ UNCHANGED <<feedVars, daemonVars, emacsVars, counters, began, known, sure, late>>

\* A PLAYING of track n goes into the log.
Began(n) ==
    began' = IF began[n] = 0
             THEN [began EXCEPT ![n] = Len(log) + 1] ELSE began

PlayerReportsEvent ==
    /\ queue # <<>>
    /\ queue' = Tail(queue)
    /\ \/ /\ Head(queue).kind = "end"
          /\ Feed!Change("STOPPED") /\ UNCHANGED began
       \/ /\ Head(queue).kind = "loaded" /\ ~pause
          /\ Feed!Change("PLAYING") /\ Began(Head(queue).song)
       \/ /\ Head(queue).kind = "loaded" /\ pause
          /\ UNCHANGED <<feedVars, began>>
    /\ UNCHANGED <<song, open, pause, told, plays>>
    /\ UNCHANGED <<daemonVars, emacsVars, counters, over, known, sure, late>>

PlayerReportsPause ==
    /\ queue = <<>> /\ told # pause
    /\ told' = pause
    /\ \/ pause /\ Feed!Change("PAUSED") /\ UNCHANGED began
       \/ ~pause /\ song # None /\ Feed!Change("PLAYING") /\ Began(song)
       \/ ~pause /\ song = None /\ Feed!Change("STOPPED") /\ UNCHANGED began
    /\ UNCHANGED <<song, open, pause, queue, plays>>
    /\ UNCHANGED <<daemonVars, emacsVars, counters, over, known, sure, late>>

-----------------------------------------------------------------------------
(***************************************************************************)
(* The daemon.                                                             *)
(***************************************************************************)

\* Mutated: any state may come next.
ShowsAny(i) ==
    /\ at' = [at EXCEPT ![daemon] = i]
    /\ shown' = [shown EXCEPT ![daemon] = log[i]]
    /\ settled' = [settled EXCEPT ![daemon] = at[daemon] # 0]
    /\ UNCHANGED log

\* What the synchronizer shows next: see StatusFeed.
Shows(i) == Feed!Show(daemon, i)

DaemonShows(i) ==
    /\ daemon # None /\ i \in 1 .. Len(log)
    /\ Shows(i)
    /\ known' = IF at[daemon] = 0 THEN known
                ELSE known \cup {<<daemon, n>> : n \in {m \in Plays : began[m] \in 1 .. i}}
    /\ UNCHANGED <<playerVars, daemonVars, emacsVars, counters, over, began, sure, late>>

\* Bound: the last daemon stays.
DaemonEnds ==
    /\ daemon # None /\ started < MaxDaemons
    /\ daemon' = None
    /\ UNCHANGED <<feedVars, playerVars, started, emacsVars, counters, history>>

\* --ensure-daemon: ping, and start a daemon if none is running.
EnsureDaemon ==
    \/ daemon # None /\ UNCHANGED daemonVars
    \/ /\ daemon = None /\ started < MaxDaemons
       /\ started' = started + 1 /\ daemon' = started'

\* A call of the program fails.
Failure == failures < MaxFailures /\ failures' = failures + 1

\* Mutated: "STOPPED" is not among the states it knows.
GetStateWithoutStopped ==
    \/ /\ seen' = IF daemon # None /\ shown[daemon] \in {"PLAYING", "PAUSED"}
                  THEN shown[daemon] ELSE "nil"
       /\ UNCHANGED failures
    \/ seen' = "nil" /\ Failure

\* --get-state: "UNDEFINED" is none of the states it knows, and what a failing
\* call prints neither.
GetState ==
    \/ /\ seen' = IF daemon # None /\ shown[daemon] \in States THEN shown[daemon] ELSE "nil"
       /\ UNCHANGED failures
    \/ seen' = "nil" /\ Failure

-----------------------------------------------------------------------------
(***************************************************************************)
(* The front-end.                                                          *)
(***************************************************************************)
Command == doing = "nothing" /\ commands < MaxCommands /\ commands' = commands + 1

\* emms-player-lrm-start, which emms-player-start calls if no track is playing, for
\* the user or for the next track; the first half is the command.
Start ==
    /\ doing \in {"nothing", "next"}
    /\ playing = None /\ plays < MaxPlays
    /\ EnsureDaemon /\ Load
    /\ doing' = "starting"
    /\ UNCHANGED <<feedVars, playing, paused, timer, seen, counters, began, known, sure, late>>

\* Before the command has had its effect, or after.
StartFails ==
    /\ doing \in {"next", "starting"} /\ Failure
    /\ doing' = "nothing"
    /\ UNCHANGED <<feedVars, playerVars, daemonVars, playing, paused, timer, seen, commands, history>>

\* emms-player-started, --start-status-timer.
Started ==
    /\ doing = "starting"
    /\ playing' = plays /\ paused' = FALSE /\ timer' = TRUE
    /\ doing' = "nothing"
    /\ UNCHANGED <<feedVars, playerVars, daemonVars, seen, counters, history>>

\* emms-player-lrm-stop, called by emms-player-stop.
Stop ==
    /\ Command /\ playing # None
    /\ EnsureDaemon /\ PlayerStops
    /\ doing' = "stopping"
    /\ UNCHANGED <<feedVars, playing, paused, timer, seen, failures, began, known, sure, late>>

StopFails ==
    /\ doing = "stopping" /\ Failure
    /\ doing' = "nothing"
    /\ UNCHANGED <<feedVars, playerVars, daemonVars, playing, paused, timer, seen, commands, history>>

\* --stop-status-timer and emms-player-stopped, which the user asked for.
Stopped ==
    /\ doing = "stopping"
    /\ playing' = None /\ timer' = FALSE
    /\ doing' = "nothing"
    /\ UNCHANGED <<feedVars, playerVars, daemonVars, paused, seen, counters, history>>

\* The daemon shows the player's state, and the player is not about to change it.
UpToDate ==
    /\ daemon # None /\ at[daemon] = Len(log)
    /\ queue = <<>> /\ told = pause

\* emms-player-pause calls -pause or -unpause, which first get the state.
Pause ==
    /\ Command /\ playing # None
    /\ GetState
    /\ doing' = IF paused THEN "unpausing" ELSE "pausing"
    /\ late' = (late \/ ~UpToDate)
    /\ UNCHANGED <<feedVars, playerVars, daemonVars, playing, paused, timer,
                   over, began, known, sure>>

\* Mutated: the timer goes on.
PausingKeepsTimer ==
    /\ doing = "pausing" /\ seen = "PLAYING"
    /\ EnsureDaemon /\ PlayerToggles
    /\ paused' = TRUE /\ doing' = "nothing"
    /\ seen' = "nil"
    /\ UNCHANGED <<feedVars, playing, timer, counters, began, known, sure, late>>

\* The rest of emms-player-lrm-pause and -unpause.
Pausing ==
    /\ doing = "pausing" /\ seen = "PLAYING"
    /\ timer' = FALSE
    /\ EnsureDaemon /\ PlayerToggles
    /\ paused' = TRUE /\ doing' = "nothing"
    /\ seen' = "nil"
    /\ UNCHANGED <<feedVars, playing, counters, began, known, sure, late>>

Unpausing ==
    /\ doing = "unpausing" /\ seen = "PAUSED"
    /\ timer' = TRUE
    /\ EnsureDaemon /\ PlayerToggles
    /\ paused' = FALSE /\ doing' = "nothing"
    /\ seen' = "nil"
    /\ UNCHANGED <<feedVars, playing, counters, began, known, sure, late>>

\* Another state: nothing happens, which EMMS does not hear of.
PauseIgnored ==
    /\ \/ doing = "pausing" /\ seen # "PLAYING"
       \/ doing = "unpausing" /\ seen # "PAUSED"
    /\ paused' = ~paused /\ doing' = "nothing"
    /\ seen' = "nil"
    /\ UNCHANGED <<feedVars, playerVars, daemonVars, playing, timer, counters, history>>

\* The toggle fails, after the timer was stopped or before it would be started.
PauseFails ==
    /\ \/ doing = "pausing" /\ seen = "PLAYING" /\ timer' = FALSE
       \/ doing = "unpausing" /\ seen = "PAUSED" /\ UNCHANGED timer
    /\ Failure
    /\ \/ PlayerToggles
       \/ UNCHANGED <<playerVars, over>>
    /\ doing' = "nothing"
    /\ seen' = "nil"
    /\ UNCHANGED <<feedVars, daemonVars, playing, paused, commands, began, known, sure, late>>

\* The timer: --detect-song-change gets the state ...
TimerFires ==
    /\ doing = "nothing" /\ timer
    /\ GetState
    /\ doing' = "detecting"
    /\ sure' = (<<daemon, playing>> \in known)
    /\ UNCHANGED <<feedVars, playerVars, daemonVars, playing, paused, timer, commands,
                   over, began, known, late>>

\* Mutated: a paused player is taken for a stopped one.
DetectSongChangeLoosely ==
    /\ doing = "detecting"
    /\ \/ /\ seen \in {"STOPPED", "PAUSED"} /\ playing # None
          /\ playing' = None
          /\ doing' \in IF plays < MaxPlays THEN {"next", "nothing"} ELSE {"nothing"}
       \/ /\ seen \notin {"STOPPED", "PAUSED"} \/ playing = None
          /\ doing' = "nothing"
          /\ UNCHANGED playing
    /\ seen' = "nil" /\ sure' = FALSE
    /\ UNCHANGED <<feedVars, playerVars, daemonVars, paused, timer, counters,
                   over, began, known, late>>

\* ... and calls emms-player-stopped, which goes on with the next track if there is
\* one.
DetectSongChange ==
    /\ doing = "detecting"
    /\ \/ /\ seen = "STOPPED" /\ playing # None
          /\ playing' = None
          /\ doing' \in IF plays < MaxPlays THEN {"next", "nothing"} ELSE {"nothing"}
       \/ /\ seen # "STOPPED" \/ playing = None
          /\ doing' = "nothing"
          /\ UNCHANGED playing
    /\ seen' = "nil" /\ sure' = FALSE
    /\ UNCHANGED <<feedVars, playerVars, daemonVars, paused, timer, counters,
                   over, began, known, late>>

Emacs ==
    \/ Start \/ StartFails \/ Started \/ Stop \/ StopFails \/ Stopped
    \/ Pause \/ Pausing \/ Unpausing \/ PauseIgnored \/ PauseFails
    \/ TimerFires \/ DetectSongChange
Player == PlayerOpens \/ PlayerEnds \/ PlayerReportsEvent \/ PlayerReportsPause

\* Without a timer nothing happens unless the user does something.
Waits ==
    /\ doing = "nothing" /\ ~timer
    /\ UNCHANGED vars

Next ==
    \/ Emacs \/ Player \/ DaemonEnds \/ Waits
    \/ \E i \in 1 .. Len(log) : DaemonShows(i)

Spec == Init /\ [][Next]_vars

(***************************************************************************)
(* A command that was begun comes to an end and the timer fires again and  *)
(* again (Emacs is not blocked for ever: a call ends or fails); the player *)
(* tells of what happened; the daemon catches up with it, as InfoStream's  *)
(* ConvergesUnlessFault says of a stream that is connected and has had no  *)
(* fault.  A daemon whose stream has ended is not meant here.              *)
(***************************************************************************)
Completes ==
    \/ Started \/ Stopped \/ Pausing \/ Unpausing \/ PauseIgnored \/ DetectSongChange
    \/ (Start /\ doing = "next")

Fairness ==
    /\ WF_vars(Completes) /\ WF_vars(TimerFires)
    /\ WF_vars(PlayerReportsEvent \/ PlayerReportsPause)
    /\ WF_vars(DaemonShows(Len(log)))

FairSpec == Spec /\ Fairness

-----------------------------------------------------------------------------
\* What the variables hold.
TypeOK ==
    /\ log \in Seq(States) /\ log # <<>>
    /\ at \in [Daemons -> Nat] /\ settled \in [Daemons -> BOOLEAN]
    /\ shown \in [Daemons -> States \cup {"UNDEFINED"}]
    /\ song \in 0 .. plays
    /\ open \in BOOLEAN /\ pause \in BOOLEAN /\ told \in BOOLEAN
    /\ queue \in Seq(Events)
    /\ plays \in 0 .. MaxPlays
    /\ daemon \in 0 .. started /\ started \in 0 .. MaxDaemons
    /\ playing \in 0 .. plays
    /\ paused \in BOOLEAN /\ timer \in BOOLEAN
    /\ doing \in {"nothing", "next", "starting", "stopping", "pausing", "unpausing",
                  "detecting"}
    /\ seen \in States \cup {"nil"}
    /\ commands \in 0 .. MaxCommands /\ failures \in 0 .. MaxFailures
    /\ over \subseteq 1 .. plays
    /\ began \in [Plays -> Nat]
    /\ known \subseteq Daemons \X Plays
    /\ sure \in BOOLEAN /\ late \in BOOLEAN

\* Only the song that is loaded has not ended, and nothing follows its FILE_LOADED.
SongsInv ==
    /\ 1 .. plays \subseteq over \cup {song}
    /\ song \notin over
    /\ \A j \in 1 .. Len(queue) :
         /\ queue[j].song <= plays
         /\ queue[j].kind = "end" => queue[j].song \in over
         /\ queue[j].kind = "loaded" /\ queue[j].song \notin over => open /\ j = Len(queue)

\* A track that is PLAYING in the log ends before the log is STOPPED again.
LogInv ==
    /\ \A n \in Plays : began[n] <= Len(log) /\ (began[n] # 0 => n <= plays)
    /\ \A n \in Plays : \A i \in 1 .. Len(log) :
         began[n] # 0 /\ began[n] <= i /\ log[i] = "STOPPED" => n \in over
    /\ song # None /\ began[song] # 0 => \A j \in 1 .. Len(queue) : queue[j].kind # "end"
    /\ log[Len(log)] = "PAUSED" => told

FeedInv ==
    /\ \A d \in Daemons :
         /\ at[d] <= Len(log)
         /\ shown[d] = IF at[d] = 0 THEN "UNDEFINED" ELSE log[at[d]]
         /\ settled[d] => at[d] # 0
    /\ \A d \in Daemons, n \in Plays :
         <<d, n>> \in known => settled[d] /\ began[n] # 0 /\ began[n] <= at[d]
    /\ doing = "detecting" /\ sure /\ seen = "STOPPED" => playing \in over

\* What Emacs knows of the player, as long as it was never misled.
EmacsInv ==
    /\ doing \in {"next", "starting"} => playing = None
    /\ doing \in {"stopping", "pausing", "unpausing"} => playing # None
    /\ doing = "starting" => ~pause
    /\ ~late /\ failures = 0 =>
         /\ playing # None => (timer <=> ~pause)
         /\ doing \in {"pausing", "unpausing"} =>
              told = pause /\ (seen = "PLAYING" => ~pause) /\ (seen = "PAUSED" => pause)
         /\ log[Len(log)] = "PLAYING" /\ pause => ~told

\* The invariant that the promises below follow from: a queue about songs that have
\* ended, but for a last FILE_LOADED; a log that is not STOPPED while a track in it
\* plays; daemons that show what is in the log; an Emacs that was not misled.
EmmsInv == TypeOK /\ SongsInv /\ LogInv /\ FeedInv /\ EmacsInv

\* A daemon that has shown the track playing, after its first message, never again
\* makes the timer skip it: the track has ended.  (A daemon that has not may show the
\* STOPPED of the track before, or of before the first, and the timer then skips a
\* track that plays.)
SkipsOnlyWhatEnded ==
    [][doing = "detecting" /\ playing # None /\ playing' = None /\ sure
         => playing \in over]_vars

\* As long as pause and unpause only read states that were the player's, and no call
\* failed, the timer runs exactly if the player is not paused: pausing does not leave
\* a timer that skips, and no track plays on without one that would notice its end.
TimerInStep ==
    ~late /\ failures = 0 /\ doing = "nothing" /\ playing # None => (timer <=> ~pause)

\* The end of a track does not stay unnoticed while the timer runs, there is a daemon,
\* which catches up, and the player is not paused, whatever the user does meanwhile: a
\* lagging state only delays it.
Unnoticed == playing \in over /\ timer /\ ~pause /\ daemon # None

EndIsNoticed == []<>~Unnoticed
=============================================================================
