# Larmo: TLA+ verification project

Larmo (`src/`) plays music remotely. A server, `remote-player`, drives libmpv;
a client daemon, started by `remote-control daemon`, keeps a gRPC connection to
the server; the command line tool `remote-control` and the Emacs front-end
`emms-player-lrm.el` talk to the daemon over a local socket.

## 1. Inventory

| Component | Source | State | Operations | Hard parts |
|---|---|---|---|---|
| `PlaybackState` | `PlaybackState.{h,cpp}` | atomic state, callback | `SetState` (store, then copy and call the callback), `SetStateChangeCallback`, `GetState` | store and callback are two steps; the callback gets the argument, not what was stored |
| `TimeInfoStream` | `PlayerServiceImpl.cpp:78-90,192-334` | the service's copy `playback_state_`, its mutex and condition variable; per stream the loop's locals and `close_stream` | state callback, one handler loop and one reader thread per client | waiting without a predicate, two sources for the state, exceptions in the middle of an iteration, delta encoding |
| `PlaybackSynchronizer` | `PlaybackSynchronizer.{h,cpp}` | `is_updating_`, the updating and writer threads, `base_playback_info` | `Start`, `Stop`, `continuous_update`, `GetPlaybackInfo` | three threads, a flag the new thread sets itself, `Stop` racing the thread that `Start` created, a stream that the server closes |
| Sessions | `PlayerServiceImpl.cpp:41-76,336-409`, `PlayerClient.cpp:115-191`, `ClientContexts.h` | `authenticated_sessions_`, the client's `session_key_` | `Authenticate` on both sides, `generate_session_key`, `check_auth` of every RPC | key chosen and inserted in two critical sections, the set read without its mutex, server restart |
| `Player` and the command RPCs | `Player.{h,cpp}`, `PlayerServiceImpl.cpp:92-190` | `input_`, libmpv, pipes | `AudioStream`, `Stop`, `TogglePause`, `Volume`, `Seek`, mpv event loop | RPC threads share `input_` and read-modify-write mpv properties; pipes and their two ends |
| Daemon and launcher | `Daemon.{h,cpp}`, `remote-control.cpp`, `remote-control-argp.h`, `PlayerClient.cpp` | daemon state, socket file, start-up pipe | start-up, accept loop, command dispatch, exit status | two processes and a pipe, one blocking thread for all connections |
| Settings | `Config.{h,cpp}`, `remote-player.cpp`, `remote-control-argp.h`, `Daemon.cpp:125-181` | map of settings, load state | `Load`, `Get`, `Set`, `Require`, `CheckMissing`; option parsers and `initialize_config` of both programs | precedence of arguments and file, `Load` only once, its failure; two programs that call the same functions in different orders |
| `Util` | `Util.{h,cpp}` | - | `check_port`, `file_to_str`, bytes and tokens | boundaries |
| Zero-knowledge proof | `crypto/CryptoUtil.*`, `crypto/ZkpSerialization.*` | - | `make_generator`, `generate_key_pair`, `make_zkp`, `check_zkp`, serialisation | ranges of scalars, zero, a digest that exceeds the order |
| Certificates | `crypto/certs/*`, `crypto/BigNum.*` | serial number of the authority | certificate exchange (built into the tests only) | - |
| Emacs front-end | `emms-player-lrm.el` | status timer; EMMS's playing and paused flags | start, stop, pause, unpause, song change detection, starting the daemon | polls a copy of the state that lags, and toggles on what it read |

libmpv, gRPC, protobuf, asio, OpenSSL and the operating system's pipes and
sockets are external; they appear as the nondeterminism the code has to live
with.

### How the parts meet

    remote-control / Emacs --- local socket ---> Daemon --- gRPC ---> PlayerServiceImpl
     (Daemon: launcher, command)                  |                     |  (Sessions)
                                                  |                     v
                                             PlayerClient            Player --- libmpv
                                                  |                     |  (Player)
                                    PlaybackSynchronizer <-- stream -- TimeInfoStream
                                     (Synchronizer)                    (InfoStream)

* The **mpv event loop** calls `SetState` on the player's `PlaybackState`; a
  callback copies the state into `PlayerServiceImpl` and wakes every
  `TimeInfoStream` handler; each handler sends deltas to one client, whose
  `PlaybackSynchronizer` keeps the latest one. Several locks, no common one.
* **RPC threads** (one per call) share `Player`, its `input_` member and mpv's
  properties, without a lock around any sequence of steps.
* **Server and daemon** read their settings (arguments, then a file under them),
  meet if the daemon's host, port and certificate lead to the server, and prove
  to each other that they derive the same generator from the passphrase.
* **Session keys** are made by `Authenticate` and looked up by every other RPC.
* A **launcher** forks a daemon, learns through a pipe whether it started, and
  connects to its socket; **commands** connect to the same socket; the daemon
  serves one connection at a time and makes one RPC per command.
* **Emacs** runs the command line tool for everything it does; its timer learns
  the player's state from what the daemon shows, at the end of the whole chain.

## 2. Modules

| Module | Models | Kind |
|---|---|---|
| `PlaybackState` | `PlaybackState.{h,cpp}` | component, extended by `InfoStream` and `Player` |
| `StatusFeed` | what a client of the information stream may rely on | abstract specification |
| `InfoStream` | `PlayerServiceImpl::TimeInfoStream`, the state callback, `continuous_update`'s reading | component; implements `StatusFeed` |
| `InfoStreamMC`, `InfoStreamProofs` | | model checking, proofs |
| `Synchronizer` | `PlaybackSynchronizer::{Start, Stop, ~}` and the threads of `continuous_update` | component |
| `SynchronizerProofs` | | proofs |
| `Sessions` | `Authenticate` on both sides, `check_auth`, restarts | component |
| `SessionsProofs` | | proofs |
| `Player` | `Player.cpp`, `AudioStream`, `Stop`, `TogglePause`, event loop | component |
| `PlayerProofs` | | proofs |
| `Daemon` | `Daemon.cpp`, `remote-control.cpp` | component |
| `DaemonMC`, `DaemonProofs` | | model checking, proofs |
| `Volume` | `volume` and `seek` from `remote-control-argp.h` or `emms-volume-lrm-change` to `Player::Volume` | component, with the reference definition `Wanted` |
| `VolumeProofs` | | proofs |
| `Configuration` | `Config.cpp` and the readings of a port | operators on a value, extended by `SignIn` |
| `Zkp` | `crypto/CryptoUtil.cpp`, `crypto/ZkpSerialization.cpp` | operators on the numbers below a prime, extended by `SignIn` |
| `SignIn` | `remote-player.cpp`, the `daemon` options, `Daemon::initialize_config` and `initialize_grpc_client`, `Authenticate` on both sides | component: from settings to session key |
| `SignInMC`, `SignInProofs` | | model checking, proofs |
| `Emms` | `emms-player-lrm.el` over `StatusFeed` and a player | composition |
| `EmmsProofs` | | proofs |

Definitions named "Mutated: ..." are plausible bugs next to the definition they
would break. They are part of no specification; `PROJECT.json` says which
property notices which of them.

### State and actions, module by module

**PlaybackState.** `SetState` is two steps, as in the code: `SetStateStore`
(the atomic store; replacing a finished state stores STOPPED whatever the
argument) and `SetStateReturn` (copy the callback, call it with the argument).
Who owns the callback conjoins what it does.

**InfoStream.** `svcState` is `PlayerServiceImpl::playback_state_`, the
handler's locals keep their names (`oldState`, `changed`, `info`, `newVolume`,
`oldVolume`, `closeStream`). One pass of the loop is `Compose` (lines 241-299,
`old_state` assigned, a time that cannot be read clears all), `QueryVolume` or
`VolumeFails` (the exception restarts the loop), `Write`, and the wait, which
ends by `Woken` or `TimesOut`. `Notified` wakes only those that wait at this
moment. `ReaderEnds` is the reader thread. The client is `ClientReads`,
`ClientStops`, `ClientEnds`; `LinkDown` loses a suffix of what is in flight.
`log` and the stamps are history: which state, of all the player was in, a
value stands for.

**Synchronizer.** The owner's calls follow one another; `Start` tests the flag
under the mutex (`StartTests`) and creates the thread after releasing it
(`StartCreates`; assigning over a joinable thread ends the process). `Stop` is
`StopClears` and `StopJoins`. An updating thread sets the flag itself (`Begin`),
opens its stream or fails (`OpenStream`, `OpenFails`), reads, and joins its
writer, which waits for the flag to be cleared. The module takes any order of
Starts and Stops although the daemon makes one of each (`Daemon.cpp:85` and the
destructor): it is the class that is modelled. `Alive` stops all threads when
the process has ended.

**Sessions.** A client is a daemon process with one passphrase. Choosing a key
and inserting it are two critical sections (`GenerateKey`; `InsertBegins`,
`InsertEnds`); `Lookup`, which the code makes without the mutex, may miss any
key while an insertion is in progress. `ServerRestarts` empties the set, cuts
off the handlers and may bring another passphrase.

**Player.** `AudioStream` step by step: `MakePipe`, `Input` (the shared
`input_`), `LoadFile`, `AskPause` and the toggle it may start, `PlayFails` where mpv
refuses one of the three, `ReadData`, `Write`, the end. `LoopTakesEvent`, `LoopTakesPause`, `LoopHandles`
and `LoopGoesOn` are the event loop, which reads `pause` and `idle-active` when
it handles an event. libmpv is external: `MpvOpens`, `MpvReads`
(up to `ReadAhead` pieces beyond what is played, `ahead`), `MpvPlays` unless
paused, `MpvReachesEnd`, an event queue, and a property observer that is told a value
only if it differs from the last one it was told.

**Daemon.** Launcher: `LauncherConnects`, `Fork`, `ReadReport`,
`LauncherRetries`. Daemon: `StartUp`, `Construct` (binds the socket file or
does not), the three initialisation stages, `ReportSuccess`, `StartAccept`,
`Accept`, `Drop`, `Execute`, `Respond`, and its end, `Signal`, `RemoveSocket`,
`Close`, `ReportFailure`. `Crash` may come at any point. Commands:
`CommandConnects`, `Send`, `ReceiveAnswer`. `path` says whose socket the file
leads to; `backlog` is the kernel's queue of connections.

**Volume.** An argument is its first character, if that is a sign or an `m`,
and the number behind it. `Ask` passes it through the Emacs command
(`EmacsArgument`) and the parser (`Masked`, `Rejected`, `Restored`).
`Player::Volume` is `ParseVolume`, `GetVolume` (which leaves `vol` uninitialised
if mpv fails) and `SetVolume`; other callers may come in between. `ParseSeek`
and `Seek` are `PlayerClient::Seek`. `Wanted` says what a command means without
following the code; `held` is history, the volumes there have been since a
command was given.

**Configuration** and **Zkp** have no variables. A configuration is a record of
the map and the load state, and `Set`, `ReadLine`, `Loaded`, `NotOpened`, `Get`,
`Missing` are `Config`'s functions on it. A curve point is its multiple of the
curve's generator, so that `Times` is `EC_POINT_mul`; `MakeGenerator`,
`PrivateKeys`, `MakeZkp`, `CheckZkp`, `CanSerialize` keep the order of the code's
tests and the ranges of its numbers.

**SignIn.** `Parse`, `OpenFile`, `LoadLine`, `EndOfFile` are the option parsers
and `Config::Load`, which both programs go through; then
`ServerInitializesConfig`, `LoadCertificate`, `BuildAndStart` on one side and
`InitializeConfig`, `InitializeGrpcClient` on the other, and the exchange
`ClientProves`, `CheckClient`, `ServerProves`, `CheckServer`. `stage` is where a
program is; in the daemon it is `Daemon::state_` from `CONFIG_INITIALIZED` on.
The digest of a message is chosen with the message, and each side recomputes it:
the same digest of the same bytes, any other of others (`ChallengeFor`); `digest`
is history, the one the side that checked last computed.

**Emms.** `Feed` is an instance of `StatusFeed` in which a client is a daemon, so
the states the front-end reads lag exactly as `InfoStream`, which implements
`StatusFeed`, allows. The player is the one-caller fragment of `Player`: `Load`,
`PlayerStops`, `PlayerToggles`, mpv's events in `queue`, and its reports of
`pause`. The front-end reads a state and acts on it in two steps (`Pause` and
then `Pausing`, `Unpausing`, `PauseIgnored` or `PauseFails`; `TimerFires` and then
`DetectSongChange`), between which the player, the daemon and the feed go on.
`over`, `began`, `known`, `sure`, `late` are history.

## 3. Runs

| Run | Asks | States |
|---|---|---|
| `info_feed` | is what a client shows in order and true, does the stream implement `StatusFeed`, does the client end up with the state and volume, do threads end | 504 000 |
| `synchronizer` | at most one stream, silence after `Stop`, `Stop` returns | 1 849 |
| `sync_stop` | *violation:* a `Stop` that overtakes its thread | |
| `sessions` | who can have a valid key, how long is it valid, what refuses it | 37 000 |
| `player` | is the reported state the player's; are pipes closed; do RPCs return | 659 000 |
| `player_stopped` | *violation:* STOPPED while a file plays | |
| `daemon_safe` | are exit statuses true, is nobody forgotten, is success claimed rightly | 3 580 000 |
| `daemon_live` | do commands and launchers end | 328 000 |
| `daemon_missing` | *violation:* a second daemon removes the first one's socket file | |
| `volume` | does a volume or seek argument do what it means | 105 000 |
| `signin` | do programs act on what their users meant; do equal passphrases suffice; are different ones refused | 306 000 |
| `emms` | does the timer skip only what ended, run exactly when it should, and notice every end | 823 000 |

### Bounds, and why they are enough

* `InfoStream`: one stream, two `SetState` calls, one disturbance (a change of
  volume or a failing property), one message in flight. The streams share only
  `svcState` and the notification, which a handler does not write, so a second
  one adds no behaviour to the first; two changes are what the two-source race
  and the delta encoding need (a change and one that overtakes it). Checked once
  by hand: one volume change *and* one fault (1.7 million states), and the
  inductive invariant with three changes and two messages in flight (5 million).
* `Synchronizer`: three threads: one that ends by itself, one that is stopped,
  one after it.
* `Sessions`: two daemons, two passphrases, three keys, one restart, one fault.
  Checked once with three daemons.
* `Player`: two callers, two pipes, one `Stop` or `TogglePause`, one
  failing `Play`, a pipe that holds one piece, a read-ahead of one piece: a third
  piece blocks its writer while mpv is paused, which is all that larger ones
  would do later. A stream has no largest number of pieces.
* `Daemon`: two launchers (whose daemons race for one file), two commands of
  which one is a seek (it answers differently), one crash, one failing accept.
  `DaemonTimeout`, the retries of the launcher, is 1 instead of 3: a retry
  changes nothing but the counter. Launchers are symmetric in `daemon_safe`,
  which has no liveness property.
* `Volume`: two callers, two commands, one mpv call that fails; numbers within
  the range of a volume, above it, and above `MaxInt`, which is 200 instead of
  2^31 - 1 (the proofs take any). Two volumes stand for what an uninitialised
  `vol` can be once it is clamped.
* `SignIn`: 32 settings of a server times 80 of a daemon: no file, files that set
  a value twice, not at all, or to something out of range, with lines that are
  comments or cannot be parsed; arguments that agree, differ, are refused or do
  not fit an `int`. Two passphrases, one of whose first digests leads to the
  point at infinity. A group of order 7, all private keys, seven digests of which
  three exceed the order. The proofs take any of these.
* `Emms`: two tracks (a STOPPED of the one before can be taken for the second's),
  three stops or pauses (pause, resume, and pause again is what leads the toggle
  astray), a failing call, one daemon after another.

`CHECK_DEADLOCK FALSE` is given where the system may come to rest (every client
has left, every bound is used up). `signin` and `emms` are checked for deadlocks:
their actions `Finished` and `Waits` name the states in which rest is right.

### Fairness

Weak fairness of threads that can run, always; the code blocks in no other way
than the guards say. In addition:

* `InfoStream`: `TimesOut` only if `Timed`, that is if the interval is short
  enough to pass. No RPC, exception or loss has to happen, nor a spurious wakeup.
* `Synchronizer`: the server ends a stream whose client has called
  `WritesDone`, which is what `InfoStream`'s `Terminates` says of it. Nobody has
  to call `Stop`.
* `Sessions`: a reply or the end of the stream reaches the client. gRPC calls
  here have no deadlines.
* `Player`: mpv works on its file, which while it is paused means that it reads
  until its read-ahead is full; a client's data comes to an end (strong fairness
  of `EndOfData`, since reading and writing alternate). Nobody has to end a
  pause. `StreamEnds` therefore names the writes that may wait for ever
  (`Blocked`): into the full pipe of the file that mpv is paused on, as long as
  the pause lasts, and into one that was never loaded, because another caller's
  `Input` came first. Without either exception TLC finds the RPC that does not
  return.
* `Daemon`: who has begun goes on; `Crash`, `Signal` and `AcceptFails` never have
  to happen. `CommandEnds` is checked without failing accepts, after which the
  code really leaves those who connect waiting.

* `Emms`: a command that was begun comes to an end, since a call of the program
  ends or fails (`LaunchEnds`, `CommandEnds` of `Daemon`); the timer, which
  repeats, fires again and again; the player reports; the daemon catches up.
  The last is what `ConvergesUnlessFault` says of `InfoStream`, and it says so of
  a stream that is connected, with no property that failed. The fairness of
  `DaemonShows` is not conditioned on that: a daemon whose stream was lost or
  ended (hazard at `PlaybackSynchronizer.cpp:170`) or whose last change was lost
  by an exception (`PlayerServiceImpl.cpp:301`) shows the same state for ever, and
  the end of a track is then not noticed. `EndIsNoticed` assumes that away; it
  also says nothing of a stopped timer, a paused player, or of no daemon. Neither
  the user nor mpv has to do anything.
* `SignIn` has no fairness and no liveness property.

## 4. What is proved

All theorems hold for every value of the constants that satisfies the module's
`ASSUME` (bounds are natural numbers, "none" values are not in the sets they
stand beside, a pipe holds something). Each module has one inductive invariant,
proved by one step per action.

* **InfoStream** (`SafetyInv`). Three arguments in one invariant.
  *Truth:* `ReportedWasActual` is not inductive, since what is written was
  composed from a reused message and a sample, and the sample came from one of
  two sources. `HistoryOK` and `HandlersOK` follow a state along its way, `log`,
  `svcState`, `sample`, `info`, `wire`, `view`, and say at each place that it
  stands for an entry of `log`; `CopyLagsByOne` bounds how old the copy can be.
  *Order* (`OrderOK`): what the client shows, what is in flight, the message
  being composed and the sample it will be composed from are ordered by their
  stamps, with one exception: what follows the first state a client ever gets
  may be one `SetState` older. The exception rests on `NextCopy`, what the copy
  will hold at least: it never decreases and is at most one behind the player.
  A message may stay where it is, move up when one is read, or be lost from the
  end; the lemmas `FollowsFrom`, `WireFrom` and `HandlerFrom` treat the three
  alike, as a map from the messages after a step to those before it (`From`).
  *Encoding* (`EncodingOK`): on a connection that is not lost, the last message
  carries the volume of the last iteration that is over, and the last message
  with a state carries `old_state` as long as no property has failed.
  `OneStreamMoves` sums up what a step can do to one stream, so that order and
  encoding are proved stream by stream.
  Theorems `TypeCorrect`, `SafetyInvariant`, `CopyIsFresh`, `ReportsAreActual`,
  `ClientsKnowVolume`, `ClientsKnowState`, and the refinement
  `StreamImplementsFeed`: `SetState` is a `Change` of the feed, the reading of a
  message with a state is a `Show`, which the order allows (`ReadShows`), and
  everything else leaves the feed as it is. `ClientsGoForward` is an action
  property that follows from the feed: no client that has been sent two states
  goes back.
* **Synchronizer** (`SynchronizerInv`). A thread that runs is the one the owner
  can join; creating another one while it is there ends the process. From that
  `StreamsExcludeEachOther` and the action property `StopSilences`: no flag is
  needed for either, which is why the races on the flag do not break them.
  `Synchronizer`'s type invariant is a conjunct of it.
* **Sessions** (`SessionsInv`). A reply that proves a passphrase carries the
  handler's key, and the key is in the set exactly if this server process wrote
  the reply; what a client has is what its reply said. From it
  `SessionsLiveWithServer`, `KeysAreAuthorised` and the action property
  `DenialsAreRaces`.
* **Player** (`PlayerInv`). The last event mpv has queued for an idle player is
  an end of file (`QueueOK`); hence `IdleIsNotPlaying`. A pipe is one caller's;
  unless it is `lost`, its open write end has a caller who is still streaming
  into it, and its open read end is mpv's or has not been handed over
  (`PipesOK`); hence `DescriptorsAreClosed`. `FileStateIsTrue` needs to know why no STOPPED of the
  previous file covers up a PAUSED: a file starts to play only after the end of
  the previous one was queued, because it holds no data until its caller has
  been through the `pause` that `Play` takes back. That is `Ready` and `Asked`:
  while a file is `Ready`, a "paused" that was reported and still holds was
  reported after that end (`ReportsOK`, as long as no change of `pause` was
  `overtaken`), and no `loadfile` makes a file `Ready`
  (`LoadedIsNotReady`), not even one that another caller has put into `input_`
  (`InputOK`).
* **Daemon** (`DaemonInv`). A connection has one daemon and one place there, and
  a call is made only for the connection in the handler; a daemon's stage bounds
  its initialisation state. From it `StatusesAreTrue`, `NobodyIsForgotten`,
  `OnlyAuthenticatedServe`, `StartedHaveReached`.
* **Volume** (`VolumeInv`). What the command line does to an argument is the
  identity (`CommandLineKeeps`) and what the server computes is `Wanted`
  (`RelativeIsWanted`, `AbsoluteIsWanted`), for all numbers. What is about to be
  set is therefore wanted of a volume held since the command was given, which a
  step of another caller can only add to. From it `MeaningfulCommandsAreDone`
  and the action property `VolumesAreAsAsked`.

* **SignIn** (`SignInInv`). While a file is read, the configuration is what the
  lines so far left (`FileIsRead`), so that after the arguments it is what the
  user intended; whose message is on the way, and of what it was made, is fixed
  by the stages (`ExchangeOrder`). The rest is arithmetic modulo a prime, proved
  as lemmas: an honest proof passes (`g (v - x c) + (g x) c = g v`), and one made
  with generator `g` and checked with `h` passes for a single digest modulo the
  order (`AcceptedByChance`): the prover's, moved by `(g - h) r` over the public
  key. The invariant ties this to the programs: a side that has accepted did so
  for a digest it computed of the message it was sent (`AcceptedFits`), and that
  message was made with the other side's generator (`ExchangeOrder`). From it
  `SettingsAreIntended`, `AgreementIsEnough`, `WrongPassphraseIsRefused`.
* **Emms** (`EmmsInv`). Only the song that is loaded has not ended, and nothing
  follows its FILE_LOADED in the queue (`SongsInv`); hence a log that shows a
  song PLAYING is STOPPED again only when the song has ended (`LogInv`), and a
  daemon past that PLAYING can only show such a STOPPED (`FeedInv`). `EmacsInv`
  says what Emacs knows if it was never misled. From it the action property
  `SkipsAreRight` and `TimerKeepsStep`.

Type correctness is a conjunct of every inductive invariant (in `Volume` and
`Synchronizer` too), so no run lists it on its own.

**Only model-checked:** the liveness properties, since fairness is out of the
proof system's reach: `ConvergesUnlessFault`, `Terminates`, `AttemptEnds`,
`StreamEnds`, `CommandEnds`, `LaunchEnds`, `StopReturnsUnlessHasty`,
`EndIsNoticed`. Every invariant and every action property that a run checks, and
the refinement, is a theorem.

## 5. What the code does that its text does not say

Shown by a run (see `findings` in `PROJECT.json`):

1. `PlaybackSynchronizer.cpp:102`: the thread sets `is_updating_` itself; a
   `Stop` before that is overwritten and never returns (`sync_stop`).
2. `Player.cpp:246`: the state can stay STOPPED while a file plays
   (`player_stopped`).
3. `Daemon.cpp:69`: a daemon that could not bind removes the file of the one
   that did (`daemon_missing`).

Noticed while modelling, without a run of their own:

* `PlayerServiceImpl.cpp:301`: `old_state` is assigned before `player.Volume()`
  can throw; the state change is then never sent, and later messages say
  NOT_CHANGED. `ClientKnowsStateUnlessFault` needs its premise `faults = 0`:
  without it (`ClientKnowsState`) TLC finds that behaviour.
* `remote-control.cpp:198`: the launcher is told of success after the first
  `Initialize`, before the daemon authenticates (`Daemon.cpp:82`); it prints
  "Daemon started" for a daemon that then ends with "Authentification
  unsuccessful". `StartedHasReached` is what does hold.
* `emms-player-lrm.el:188`: a STOPPED state does not mean that playback stopped
  by itself. A daemon that lags shows the STOPPED of before the play, and the
  timer skips the new track: without `sure`, `SkipsOnlyWhatEnded` fails.
* `emms-player-lrm.el:235,241`: `pause` and `unpause` do nothing if the state they
  read is another, but EMMS takes them to have worked. After a pause, a resume
  that came too early and is ignored, and another pause that EMMS takes for a
  resume or the reverse, a track can play on with the timer stopped, and its end
  is not noticed: without `~late`, `TimerInStep` fails. The same holds if the call
  of `toggle-pause` fails after line 236 stopped the timer.
* `crypto/CryptoUtil.cpp:112`: the comment says [0, order - 2] and [1, order - 1];
  order - 1 is never drawn (`BN_priv_rand_range` excludes its bound). Harmless:
  `AgreementSuffices`.
* `crypto/ZkpSerialization.cpp:76`: a response of 0 has no bytes and is refused
  as an error, on the server after the session key was inserted
  (`PlayerServiceImpl.cpp:382`).
* `crypto/CryptoUtil.cpp:123`: `1 < RAND_bytes(...)` is never true; a failure of
  the random generator goes unnoticed.
* `remote-player.cpp:205`: the server's certificate is `server.crt` whatever the
  file's `cert_file` says, although README.org:36-41 has both programs read it.
* `remote-player.cpp:237`: `BuildAndStart` yields null if the port is taken, and
  `server->Wait()` dereferences it.
* `remote-player.cpp:76`, `remote-control-argp.h:83`: a port that does not fit an
  `int` throws `std::out_of_range`, which nobody catches.
* `remote-control.cpp:287`: the settings the launcher prints are the file's; the
  arguments were applied in the daemon only.
* `Player.cpp:142`: `input_` is shared by all RPC threads; between `Input` and
  `LoadFile` another `AudioStream` can replace it, and the caller has mpv load
  the other one's pipe. Its own is never loaded and its RPC may never return:
  the second exception of `StreamEnds`, and what `lost` excepts from
  `DescriptorsClosed`.
* `Util.cpp:80`: `check_port` accepts 0 and (5000, 65535] while its message
  names [1024; 65535].
* `PlayerServiceImpl.cpp:319`: `wait_until` has no predicate, so a change of
  state while the handler composes or writes does not make the loop "run early"
  (line 240). It is seen when the interval expires: `ConvergesUnlessFault` holds
  with `Timed = TRUE` and TLC refutes `Converges` with `Timed = FALSE`.
* `remote-control.cpp:326`: a connection that is closed without an answer
  yields exit status 0.
* `PlayerServiceImpl.cpp:274,292`: times are sent once on a switch to PAUSED
  and cleared in the next message that goes out while paused.
* `PlaybackState.cpp:36`: `SetState` after FINISHED stores STOPPED but tells the
  callback its argument. `Player` never sets FINISHED: the end of a file is
  reported as STOPPED (`Player.cpp:226`), although `PlaybackState.h:35` names a
  state for it, and `PlayerClient`'s song finished callback never runs.
* `PlayerServiceImpl.cpp:61`: the unprotected lookup may answer a daemon that
  is authenticated with "Wrong passphrase." (line 46).
* `PlayerServiceImpl.cpp:111`: a refused `loadfile` leaves both ends of the
  pipe open; if `loadfile` succeeds and the toggle after it fails
  (`Player.cpp:74-76`), the write end stays open and the file does not
  end by itself.
* `PlayerServiceImpl.cpp:118`: a pause that outlasts mpv's read-ahead blocks the
  write, and the RPC with it, until somebody resumes, stops or plays another
  file.

## 6. Abstractions, and what is not modelled

* Times are "carried or not"; titles, formatting and logging are left out.
* The data races on `input_` (a `std::string`), on `is_updating_` and in
  `check_auth` are undefined behaviour; the first two yield one of the values
  written, the lookup may miss a key.
* A `write` of the server to a pipe without a reader returns -1, as the test of
  its result expects; the sources set no handler for SIGPIPE, so this rests on
  the libraries in the process. In `remote-control` SIGPIPE is fatal. If it is
  fatal in the server too, there is no `BrokenPipe` and the properties of the
  `player` run say nothing of what follows. mpv reports property changes when its
  queue is empty and may skip values. A failing `pipe()` in `AudioStream` and a
  failing `TogglePause` RPC change nothing and are left out.
* In `Daemon` a call to the server is one step that is answered with OK or not;
  timeouts are choices. The launcher's own connection, which sends nothing, takes
  part in the backlog and is dropped. The foreground launcher (no fork, no pipe)
  and the connectivity trace thread are left out, and so are a `config_init`, `pipe` or
  `fork` that fails in the launcher, which ends before there is a daemon. That an
  RPC returns is assumed also of `Play`, which lasts as long as its upload, and of
  the destructor's `PlaybackSynchronizer::Stop` in `Close` (finding 1 and
  `StreamEnds` say when they do not).
* In `Synchronizer` an exception in `continuous_update` between the creation of
  its writer and the join (`.at()` of an unknown enum value), which would end the
  process, is left out.
* In `Volume` a `std::out_of_range`, which `Player::Volume` does not catch, ends
  the RPC with an error like any other failure. Arguments that continue after
  their number (`5x`) are not enumerated.
* In `Sessions` the proof of knowledge is complete and sound (`SignIn` shows how
  far that is so), and random keys do not repeat.
* In `Zkp` every group of prime order is the numbers modulo that prime. This is
  exact for what the code computes; that discrete logarithms are hard has no
  place in it. What a digest is, is not computed: it may be any number, also the
  one value by which a wrong passphrase would pass.
* In `SignIn` there is one server and one daemon, started once, whose files and
  arguments do not change. Nobody takes part but these two, and each makes its
  proofs as the code does, from the passphrase it has: `WrongPassphraseRefused` is
  about a user's wrong passphrase, as `test-CryptoUtil.cpp:60` is, not about forged
  messages. A file is a sequence of lines that set a value, are
  comments or cannot be parsed. Whether the server is reachable is asked once.
* EMMS itself is external: `emms-player-start`, `-stop`, `-pause`, `-started`,
  `-stopped` and their flags are modelled from how they are called here. Emacs
  does not run timers inside the synchronous calls of the program. A failing call
  to learn the state is read as no state; a failing `ping` starts no daemon.
  A command that starts a daemon and then fails before it reached the player, and
  the `ping` of `playable-p`, are left out.
* Not modelled: `Info`'s formatting and `GetPlaybackInfo`'s extrapolation of the
  elapsed time (text and clock readings, no state); `SetMaybe`, `Unset`, the
  asynchronous Emacs command and `wait_predicate`, which nothing calls; logging;
  the length of the information stream's intervals, which `InfoStream` abstracts
  to "may pass". Certificates and big numbers are wrappers of OpenSSL objects
  without protocol state that only the tests use. Build files have no behaviour.

## 7. Plan

Done: `PlaybackState`, `StatusFeed`, `InfoStream`, `Sessions`, `Player`,
`Daemon`, `Synchronizer`, `Volume`, `Configuration`, `Zkp`, `SignIn`, `Emms`, with
their proofs.

Left: `Emms` over two front-ends, or a shell beside Emacs (who else may stop or
toggle what Emacs plays), with `SkipsOnlyWhatEnded` restated for what the other
one does.
