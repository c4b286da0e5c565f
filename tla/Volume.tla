------------------------------- MODULE Volume -------------------------------
(***************************************************************************)
(* The commands "volume VOL" and "seek SECONDS", from what the user types  *)
(* to mpv: remote-control's command line, which hides a leading '-' from   *)
(* argp behind an 'm' (remote-control-argp.h), the Emacs command that puts *)
(* a sign in front, PlayerClient, and Player::Volume on the server, where  *)
(* a relative change reads and writes mpv's volume in two steps.           *)
(*                                                                         *)
(* A caller is one daemon with the command it is carrying out.  Callers    *)
(* run in threads of their own on the server and nothing orders them.      *)
(*                                                                         *)
(* An argument is its first character, if that is '+', '-' or 'm', and the *)
(* number behind it, if there is one.  `request`, `held` and `failing` are *)
(* history.                                                                *)
(***************************************************************************)
EXTENDS Integers

CONSTANTS
    Callers,
    Amounts,     \* numbers a user types
    FirstVolume, \* mpv's volume when it starts
    MaxInt,      \* the largest int
    Garbage,     \* what an uninitialised vol comes to
    MaxCalls,    \* bound: commands
    MaxFaults    \* bound: mpv calls that fail

ASSUME VolumeAssumption ==
    /\ Amounts \subseteq Nat /\ FirstVolume \in 0..100
    /\ MaxInt \in Nat /\ MaxInt >= 100
    /\ Garbage \subseteq 0..100
    /\ {MaxCalls, MaxFaults} \subseteq Nat

VARIABLES
    volume,   \* mpv's volume
    pc,       \* where a caller's command is
    argument, \* its command_arg
    target,   \* vol, or the seconds of a SeekMessage
    calls, faults,
    request,  \* history: who asked for what
    held,     \* history: the volumes there have been since it was asked for
    failing   \* history: an mpv call has failed on the way

callVars == <<pc, argument, target, calls, faults, request, failing>>
vars == <<volume, held, callVars>>

Signs     == {"+", "-"}
Arguments == [prefix : {"", "m"} \cup Signs, digits : BOOLEAN, amount : Nat]
Origins   == {"shell", "emacs"}
Commands  == {"volume", "seek"}
Requests  == [by : Origins, command : Commands, arg : Arguments]
Levels    == 0..100
Pcs == {"idle", "call", "get", "set", "seek", "exit 0", "failed", "usage"}

\* What is typed.  The number is 0 where there is none.
Typed  == {a \in [prefix : {"", "m"} \cup Signs, digits : BOOLEAN, amount : Amounts \cup {0}] :
             a.digits \/ a.amount = 0}
NoArgument == [prefix |-> "", digits |-> FALSE, amount |-> 0]
NoRequest  == [by |-> "shell", command |-> "volume", arg |-> NoArgument]

TypeOK ==
    /\ volume \in Levels
    /\ pc \in [Callers -> Pcs]
    /\ argument \in [Callers -> Arguments]
    /\ target \in [Callers -> Int]
    /\ calls \in 0..MaxCalls /\ faults \in 0..MaxFaults
    /\ request \in [Callers -> Requests]
    /\ held \in [Callers -> SUBSET Levels]
    /\ failing \in [Callers -> BOOLEAN]

Init ==
    /\ volume = FirstVolume
    /\ pc = [c \in Callers |-> "idle"]
    /\ argument = [c \in Callers |-> NoArgument]
    /\ target = [c \in Callers |-> 0]
    /\ calls = 0 /\ faults = 0
    /\ request = [c \in Callers |-> NoRequest]
    /\ held = [c \in Callers |-> {}]
    /\ failing = [c \in Callers |-> FALSE]

Goto(c, next) == pc' = [pc EXCEPT ![c] = next]

-----------------------------------------------------------------------------
(***************************************************************************)
(* The command line.                                                       *)
(***************************************************************************)
WithPrefix(a, p) == [a EXCEPT !.prefix = p]

\* emms-volume-lrm-change: a number without a sign is an increase.
EmacsArgument(a) == IF a.prefix \in Signs THEN a ELSE WithPrefix(a, "+")

\* ARGP_KEY_INIT: the '-' of a negative number becomes an 'm'.
Masked(a) == IF a.prefix = "-" /\ a.digits THEN WithPrefix(a, "m") ELSE a

\* Mutated: the 'm' is not taken back.
NotRestored(a) == a

\* ARGP_KEY_ARG: and back again, for whatever begins with an 'm'.
Restored(a) == IF a.prefix = "m" /\ a.digits THEN WithPrefix(a, "-") ELSE a

\* argp takes a number that still has its '-' for an option; ARGP_KEY_SUCCESS
\* refuses a command whose argument is empty.
Rejected(a) == (a.prefix = "-" /\ a.digits) \/ (a.prefix = "" /\ ~a.digits)

CommandLine(c, a) ==
    IF Rejected(Masked(a)) THEN Goto(c, "usage") /\ UNCHANGED argument
    ELSE Goto(c, "call") /\ argument' = [argument EXCEPT ![c] = Restored(Masked(a))]

\* A command is given once the caller's previous one has ended.
Ask(c, r) ==
    /\ pc[c] \in {"idle", "exit 0", "failed", "usage"} /\ calls < MaxCalls
    /\ calls' = calls + 1
    /\ request' = [request EXCEPT ![c] = r]
    /\ held' = [held EXCEPT ![c] = {volume}]
    /\ failing' = [failing EXCEPT ![c] = FALSE]
    /\ CommandLine(c, IF r.by = "emacs" THEN EmacsArgument(r.arg) ELSE r.arg)
    /\ UNCHANGED <<volume, target, faults>>

\* Emacs asks for a change of volume by a number, with or without a sign.
CanAsk(r) ==
    /\ r.arg \in Typed
    /\ r.by = "emacs" => r.command = "volume" /\ r.arg.prefix # "m" /\ ~Rejected(Masked(r.arg))

-----------------------------------------------------------------------------
(***************************************************************************)
(* The calls.  std::stoi throws on what is not a number, and on one that   *)
(* does not fit an int; either way the command ends with an error.         *)
(***************************************************************************)
\* Mutated: only limited by 0.
ClampedBelow(v) == IF v < 0 THEN 0 ELSE v

Clamped(v) == IF v < 0 THEN 0 ELSE IF v > 100 THEN 100 ELSE v

IsRelative(a) == a.prefix \in Signs

\* Just '+' or '-' changes the volume by 5.
Amount(a) == IF a.digits THEN a.amount ELSE 5

Fails(c) == Goto(c, "failed") /\ UNCHANGED target

\* Player::Volume up to the point where it needs mpv.
ParseVolume(c) ==
    /\ pc[c] = "call" /\ request[c].command = "volume"
    /\ LET a == argument[c]
       IN \/ /\ IsRelative(a) /\ Amount(a) <= MaxInt
             /\ Goto(c, "get") /\ UNCHANGED target
          \/ /\ a.prefix = "" /\ a.digits /\ a.amount <= MaxInt
             /\ Goto(c, "set")
             /\ target' = [target EXCEPT ![c] = Clamped(a.amount)]
          \/ ~IsRelative(a) /\ (a.prefix = "m" \/ ~a.digits) /\ Fails(c)
          \/ Amount(a) > MaxInt /\ Fails(c)
    /\ UNCHANGED <<volume, held, argument, calls, faults, request, failing>>

\* Mutated: every relative change is an increase.
MovedUp(a, v) == v + Amount(a)

\* vol += relative_volume, or -=
Moved(a, v) == IF a.prefix = "+" THEN v + Amount(a) ELSE v - Amount(a)

\* mpv_get_property, whose result is not looked at: vol stays uninitialised
\* if it fails.
GetVolume(c) ==
    /\ pc[c] = "get"
    /\ \/ /\ target' = [target EXCEPT ![c] = Clamped(Moved(argument[c], volume))]
          /\ UNCHANGED <<faults, failing>>
       \/ /\ faults < MaxFaults /\ faults' = faults + 1
          /\ failing' = [failing EXCEPT ![c] = TRUE]
          /\ \E v \in Garbage : target' = [target EXCEPT ![c] = v]
    /\ Goto(c, "set")
    /\ UNCHANGED <<volume, held, argument, calls, request>>

\* mpv_set_property, and the answer.
SetVolume(c) ==
    /\ pc[c] = "set"
    /\ \/ /\ volume' = target[c]
          /\ held' = [d \in Callers |-> held[d] \cup {target[c]}]
          /\ Goto(c, "exit 0")
          /\ UNCHANGED <<faults, failing>>
       \/ /\ faults < MaxFaults /\ faults' = faults + 1
          /\ failing' = [failing EXCEPT ![c] = TRUE]
          /\ Goto(c, "failed")
          /\ UNCHANGED <<volume, held>>
    /\ UNCHANGED <<argument, target, calls, request>>

\* std::stoi of an argument with its sign; -MaxInt - 1 is an int.
Number(a)   == IF a.prefix = "-" THEN -a.amount ELSE a.amount
IsNumber(a) == a.digits /\ a.prefix # "m"
IsInt(n)    == -MaxInt - 1 <= n /\ n <= MaxInt

\* PlayerClient::Seek.
ParseSeek(c) ==
    /\ pc[c] = "call" /\ request[c].command = "seek"
    /\ IF IsNumber(argument[c]) /\ IsInt(Number(argument[c]))
         THEN /\ Goto(c, "seek")
              /\ target' = [target EXCEPT ![c] = Number(argument[c])]
         ELSE Fails(c)
    /\ UNCHANGED <<volume, held, argument, calls, faults, request, failing>>

\* The Seek RPC.  mpv's answer is dropped; the client returns ok(), which is 1.
Seek(c) ==
    /\ pc[c] = "seek"
    /\ Goto(c, "failed")
    /\ UNCHANGED <<volume, held, argument, target, calls, faults, request, failing>>

-----------------------------------------------------------------------------
Work(c) == ParseVolume(c) \/ GetVolume(c) \/ SetVolume(c) \/ ParseSeek(c) \/ Seek(c)

Next == \E c \in Callers :
          \/ Work(c)
          \/ \E r \in [by : Origins, command : Commands, arg : Typed] :
               CanAsk(r) /\ Ask(c, r)

Spec == Init /\ [][Next]_vars

-----------------------------------------------------------------------------
(***************************************************************************)
(* What the user means: "Absolute (e.g. 50) or relative (e.g. +10)"        *)
(* (remote-control-argp.h:24), '+' and '-' alone are steps of 5, a number  *)
(* without a sign in Emacs is relative, and the volume is a percentage.    *)
(***************************************************************************)
Means(r, sign) ==
    r.arg.prefix = sign \/ (sign = "+" /\ r.by = "emacs" /\ r.arg.prefix = "")

Wanted(r, v) ==
    LET n    == IF r.arg.digits THEN r.arg.amount ELSE 5
        up   == IF v + n > 100 THEN 100 ELSE v + n
        down == IF n > v THEN 0 ELSE v - n
        to   == IF n > 100 THEN 100 ELSE n
    IN IF Means(r, "+") THEN up ELSE IF Means(r, "-") THEN down ELSE to

\* An 'm' in front is not something a user is told of.
IsMeaningful(r) ==
    /\ r.arg.prefix # "m"
    /\ r.arg.digits \/ (r.command = "volume" /\ r.arg.prefix \in Signs)
    /\ r.arg.amount <= MaxInt

(***************************************************************************)
(* A volume command that succeeds leaves the volume it asked for, counted  *)
(* from a volume there was while it ran: through the masking of '-', the   *)
(* sign Emacs adds, the clamping, and other callers that set the volume    *)
(* between its read and its write.  If nobody does, that is THE volume.    *)
(***************************************************************************)
DoneAsAsked ==
    [][\A c \in Callers :
         pc[c] = "set" /\ pc'[c] = "exit 0" /\ ~failing[c] /\ request[c].arg.prefix # "m"
           => \E v \in held[c] : volume' = Wanted(request[c], v)]_vars

(***************************************************************************)
(* What has a meaning is carried out: a volume command fails only if mpv   *)
(* does, and a seek reaches the server with the sign and number that were  *)
(* typed.                                                                  *)
(***************************************************************************)
MeaningfulIsDone ==
    \A c \in Callers :
      IsMeaningful(request[c]) =>
        /\ pc[c] # "usage"
        /\ pc[c] = "failed" /\ request[c].command = "volume" => failing[c]
        /\ pc[c] = "seek" \/ (pc[c] = "failed" /\ request[c].command = "seek")
             => target[c] = Number(request[c].arg)

(***************************************************************************)
(* The inductive invariant behind both: a command_arg is what was typed,   *)
(* with the sign Emacs adds; the volume of the moment counts as held; and  *)
(* what is about to be set is what is wanted of a volume held before.      *)
(***************************************************************************)
Given(r) == IF r.by = "emacs" THEN EmacsArgument(r.arg) ELSE r.arg

CallOK(c) ==
    /\ pc[c] \in {"call", "get"} =>
         /\ request[c].arg.prefix # "m" => argument[c] = Given(request[c])
         /\ volume \in held[c]
    /\ pc[c] \in {"get", "set"} => request[c].command = "volume"
    /\ pc[c] = "seek" => request[c].command = "seek"
    /\ pc[c] = "get" => IsRelative(argument[c])
    /\ pc[c] = "set" =>
         /\ target[c] \in Levels
         /\ ~failing[c] /\ request[c].arg.prefix # "m"
              => \E v \in held[c] : target[c] = Wanted(request[c], v)

RequestOK(r) ==
    /\ r.arg.digits \/ r.arg.amount = 0
    /\ r.by = "emacs" =>
         /\ r.command = "volume" /\ r.arg.prefix # "m"
         /\ r.arg.digits \/ r.arg.prefix \in Signs

VolumeInv ==
    /\ TypeOK
    /\ \A c \in Callers : RequestOK(request[c]) /\ CallOK(c)
    /\ MeaningfulIsDone
=============================================================================
