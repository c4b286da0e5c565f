---------------------------- MODULE VolumeProofs ----------------------------
(***************************************************************************)
(* Theorems about Volume, for any callers, numbers and size of int.        *)
(***************************************************************************)
EXTENDS Volume, TLAPS

(***************************************************************************)
(* The command line hands on what it was given: masking a '-' and taking   *)
(* the 'm' back is the identity on what does not begin with an 'm'.        *)
(***************************************************************************)
LEMMA CommandLineKeeps ==
  ASSUME NEW a \in Arguments, a.prefix # "m"
  PROVE  Restored(Masked(a)) = a
<1>1. CASE a.prefix = "-" /\ a.digits
  <2>1. Masked(a) = WithPrefix(a, "m")
    BY <1>1 DEF Masked
  <2>2. WithPrefix(a, "m").prefix = "m" /\ WithPrefix(a, "m").digits
    BY <1>1 DEF WithPrefix, Arguments
  <2>3. Restored(Masked(a)) = WithPrefix(WithPrefix(a, "m"), "-")
    BY <2>1, <2>2 DEF Restored
  <2>4. WithPrefix(WithPrefix(a, "m"), "-") = a
    BY <1>1 DEF WithPrefix, Arguments
  <2> QED
    BY <2>3, <2>4
<1>2. CASE ~(a.prefix = "-" /\ a.digits)
  BY <1>2 DEF Masked, Restored
<1> QED
  BY <1>1, <1>2

LEMMA RestoredType ==
  ASSUME NEW a \in Arguments
  PROVE  Masked(a) \in Arguments /\ Restored(Masked(a)) \in Arguments
BY DEF Masked, Restored, WithPrefix, Arguments, Signs

LEMMA GivenType ==
  ASSUME NEW r \in Requests
  PROVE  /\ Given(r) \in Arguments /\ r.arg \in Arguments
         /\ Given(r).digits = r.arg.digits /\ Given(r).amount = r.arg.amount
BY DEF Given, EmacsArgument, WithPrefix, Requests, Arguments, Signs

LEMMA GivenPrefix ==
  ASSUME NEW r \in Requests, RequestOK(r), r.arg.prefix # "m"
  PROVE  /\ Given(r).prefix = IF Means(r, "+") THEN "+" ELSE r.arg.prefix
         /\ Given(r).prefix = "-" <=> r.arg.prefix = "-"
BY DEF Given, EmacsArgument, WithPrefix, Requests, Arguments, Signs, Means, RequestOK

(***************************************************************************)
(* What the server computes is what is wanted.                             *)
(***************************************************************************)
LEMMA RelativeIsWanted ==
  ASSUME NEW r \in Requests, RequestOK(r), r.arg.prefix # "m", IsRelative(Given(r)),
         NEW v \in Levels
  PROVE  Clamped(Moved(Given(r), v)) = Wanted(r, v)
<1> DEFINE n == Amount(Given(r))
<1>1. n \in Nat /\ n = IF r.arg.digits THEN r.arg.amount ELSE 5
  BY GivenType DEF Amount, Arguments
<1>2. CASE Means(r, "+")
  <2>1. Moved(Given(r), v) = v + n
    BY <1>2, GivenPrefix DEF Moved
  <2>2. Wanted(r, v) = IF v + n > 100 THEN 100 ELSE v + n
    BY <1>1, <1>2 DEF Wanted
  <2> QED
    BY <1>1, <2>1, <2>2 DEF Clamped, Levels
<1>3. CASE ~Means(r, "+")
  <2>1. Given(r).prefix = "-" /\ r.arg.prefix = "-"
    BY <1>3, GivenPrefix DEF IsRelative, Signs, Means
  <2>2. Moved(Given(r), v) = v - n
    BY <2>1 DEF Moved
  <2>3. Wanted(r, v) = IF n > v THEN 0 ELSE v - n
    BY <1>1, <1>3, <2>1 DEF Wanted, Means
  <2> QED
    BY <1>1, <2>2, <2>3 DEF Clamped, Levels
<1> QED
  BY <1>2, <1>3

LEMMA ClampedNumber ==
  ASSUME NEW n \in Nat
  PROVE  Clamped(n) = IF n > 100 THEN 100 ELSE n
BY DEF Clamped

LEMMA AbsoluteIsWanted ==
  ASSUME NEW r \in Requests, RequestOK(r), Given(r).prefix = "", r.arg.prefix # "m",
         r.arg.digits, NEW v \in Levels
  PROVE  Clamped(Given(r).amount) = Wanted(r, v)
<1>1. ~Means(r, "+") /\ ~Means(r, "-")
  BY GivenPrefix DEF Means
<1>2. r.arg.amount \in Nat /\ Given(r).amount = r.arg.amount
  BY GivenType DEF Arguments
<1>3. Wanted(r, v) = IF r.arg.amount > 100 THEN 100 ELSE r.arg.amount
  BY <1>1 DEF Wanted
<1> QED
  BY <1>2, <1>3, ClampedNumber

LEMMA OneMore ==
  ASSUME NEW max \in Nat, NEW n \in 0..max, NEW m, m = n \/ (n < max /\ m = n + 1)
  PROVE  m \in 0..max
OBVIOUS

LEMMA ClampedType == ASSUME NEW n \in Int PROVE Clamped(n) \in Levels
BY DEF Clamped, Levels

-----------------------------------------------------------------------------
LEMMA VolumeInit == Init => VolumeInv
<1> SUFFICES ASSUME Init PROVE VolumeInv
  OBVIOUS
<1>1. NoArgument \in Arguments /\ NoRequest \in Requests
  BY DEF NoArgument, NoRequest, Arguments, Requests, Origins, Commands, Signs
<1>2. TypeOK
  BY <1>1, VolumeAssumption DEF Init, TypeOK, Pcs, Levels
<1>3. ASSUME NEW c \in Callers
      PROVE  RequestOK(request[c]) /\ CallOK(c) /\ ~IsMeaningful(request[c])
  <2>1. request[c] = NoRequest /\ pc[c] = "idle"
    BY DEF Init
  <2>2. ~IsMeaningful(NoRequest) /\ RequestOK(NoRequest)
    BY DEF RequestOK, NoRequest, NoArgument, IsMeaningful, Signs
  <2> QED
    BY <2>1, <2>2 DEF CallOK
<1> QED
  BY <1>2, <1>3 DEF VolumeInv, MeaningfulIsDone

(***************************************************************************)
(* What the invariant says of one caller, and that a step of another one   *)
(* does not disturb it.                                                    *)
(***************************************************************************)
DoneOK(c) ==
  IsMeaningful(request[c]) =>
    /\ pc[c] # "usage"
    /\ pc[c] = "failed" /\ request[c].command = "volume" => failing[c]
    /\ pc[c] = "seek" \/ (pc[c] = "failed" /\ request[c].command = "seek")
         => target[c] = Number(request[c].arg)

CallerOK(c) == RequestOK(request[c]) /\ CallOK(c) /\ DoneOK(c)

LEMMA InvByCaller == VolumeInv <=> TypeOK /\ \A c \in Callers : CallerOK(c)
BY DEF VolumeInv, MeaningfulIsDone, CallerOK, DoneOK

LEMMA InvByCallerNext == TypeOK' /\ (\A c \in Callers : CallerOK(c)') => VolumeInv'
BY DEF VolumeInv, MeaningfulIsDone, CallerOK, DoneOK

LEMMA Undisturbed ==
  ASSUME NEW c \in Callers, CallerOK(c),
         pc'[c] = pc[c], argument'[c] = argument[c], target'[c] = target[c],
         request'[c] = request[c], failing'[c] = failing[c],
         held[c] \subseteq held'[c], volume \in held[c] => volume' \in held'[c]
  PROVE  CallerOK(c)'
BY DEF CallerOK, RequestOK, CallOK, DoneOK

(***************************************************************************)
(* A command is given.                                                     *)
(***************************************************************************)
LEMMA AskStep ==
  ASSUME VolumeInv, NEW c \in Callers,
         NEW r \in [by : Origins, command : Commands, arg : Typed], CanAsk(r), Ask(c, r)
  PROVE  VolumeInv'
<1> DEFINE a == Given(r)
<1>1. /\ TypeOK /\ \A d \in Callers : CallerOK(d)
  BY InvByCaller
<1>2. r \in Requests /\ RequestOK(r)
  <2>1. r.arg \in Arguments
    <3>1. Amounts \cup {0} \subseteq Nat
      BY VolumeAssumption
    <3> QED
      BY <3>1 DEF Typed, Arguments
  <2>2. r.arg.digits \/ r.arg.amount = 0
    BY DEF Typed
  <2>3. r.by = "emacs" => r.arg.digits \/ r.arg.prefix \in Signs
    BY DEF CanAsk, Rejected, Masked, Signs, Typed
  <2> QED
    BY <2>1, <2>2, <2>3 DEF Requests, RequestOK, CanAsk
<1>3. a \in Arguments /\ Restored(Masked(a)) \in Arguments
  BY <1>2, GivenType, RestoredType
<1>4. /\ calls < MaxCalls /\ calls' = calls + 1
      /\ request' = [request EXCEPT ![c] = r]
      /\ held' = [held EXCEPT ![c] = {volume}]
      /\ failing' = [failing EXCEPT ![c] = FALSE]
      /\ UNCHANGED <<volume, target, faults>>
      /\ \/ /\ Rejected(Masked(a)) /\ pc' = [pc EXCEPT ![c] = "usage"]
            /\ UNCHANGED argument
         \/ /\ pc' = [pc EXCEPT ![c] = "call"]
            /\ argument' = [argument EXCEPT ![c] = Restored(Masked(a))]
  BY DEF Ask, CommandLine, Goto, Given
<1> HIDE DEF a
<1>5. TypeOK'
  <2>1. calls' \in 0..MaxCalls
    BY <1>1, <1>4, VolumeAssumption DEF TypeOK
  <2>2. pc' \in [Callers -> Pcs] /\ argument' \in [Callers -> Arguments]
    BY <1>1, <1>3, <1>4 DEF TypeOK, Pcs
  <2> QED
    BY <1>1, <1>2, <1>4, <2>1, <2>2 DEF TypeOK
<1>6. CallerOK(c)'
  <2>1. request'[c] = r /\ held'[c] = {volume} /\ volume' = volume
    BY <1>1, <1>4 DEF TypeOK
  <2>2. CASE pc'[c] = "usage" /\ Rejected(Masked(a))
    <3>1. ~IsMeaningful(r)
      BY <1>2, <2>2, GivenType, GivenPrefix
         DEF IsMeaningful, Rejected, Masked, WithPrefix, Arguments, a, Signs, Means
    <3> QED
      BY <1>2, <2>1, <2>2, <3>1 DEF CallerOK, CallOK, DoneOK
  <2>3. CASE pc'[c] = "call" /\ argument'[c] = Restored(Masked(a))
    <3>1. r.arg.prefix # "m" => argument'[c] = Given(r)
      BY <1>2, <1>3, <2>3, CommandLineKeeps, GivenPrefix DEF a
    <3> QED
      BY <1>2, <2>1, <2>3, <3>1 DEF CallerOK, CallOK, DoneOK
  <2> QED
    BY <1>1, <1>4, <2>2, <2>3 DEF TypeOK
<1>7. ASSUME NEW d \in Callers, d # c PROVE CallerOK(d)'
  BY <1>1, <1>4, <1>7, Undisturbed DEF TypeOK
<1> QED
  BY <1>5, <1>6, <1>7, InvByCallerNext

(***************************************************************************)
(* The steps of a call change one caller, and the volume only to a level   *)
(* that every caller then holds.                                           *)
(***************************************************************************)
LEMMA OthersKeep ==
  ASSUME VolumeInv, NEW c \in Callers, Work(c), NEW d \in Callers, d # c
  PROVE  CallerOK(d)'
<1>1. TypeOK /\ CallerOK(d)
  BY InvByCaller
<1>2. /\ pc'[d] = pc[d] /\ argument'[d] = argument[d] /\ target'[d] = target[d]
      /\ request'[d] = request[d] /\ failing'[d] = failing[d]
  BY <1>1 DEF TypeOK, Work, ParseVolume, GetVolume, SetVolume, ParseSeek, Seek, Goto, Fails
<1>3. held[d] \subseteq held'[d] /\ (volume \in held[d] => volume' \in held'[d])
  BY <1>1 DEF TypeOK, Work, ParseVolume, GetVolume, SetVolume, ParseSeek, Seek
<1> QED
  BY <1>1, <1>2, <1>3, Undisturbed

LEMMA ParseVolumeStep ==
  ASSUME VolumeInv, NEW c \in Callers, ParseVolume(c)
  PROVE  VolumeInv'
<1> DEFINE a == argument[c]
           r == request[c]
<1>1. /\ TypeOK /\ CallerOK(c) /\ r \in Requests /\ a \in Arguments
      /\ pc[c] = "call" /\ r.command = "volume" /\ RequestOK(r)
      /\ r.arg.prefix # "m" => a = Given(r)
      /\ volume \in held[c] /\ volume \in Levels
  BY InvByCaller DEF CallerOK, CallOK, ParseVolume, TypeOK
<1>2. UNCHANGED <<volume, held, argument, calls, faults, request, failing>>
  BY DEF ParseVolume
<1>3. \/ /\ IsRelative(a) /\ pc' = [pc EXCEPT ![c] = "get"] /\ UNCHANGED target
      \/ /\ a.prefix = "" /\ a.digits /\ pc' = [pc EXCEPT ![c] = "set"]
         /\ target' = [target EXCEPT ![c] = Clamped(a.amount)]
      \/ /\ \/ ~IsRelative(a) /\ (a.prefix = "m" \/ ~a.digits)
            \/ Amount(a) > MaxInt
         /\ pc' = [pc EXCEPT ![c] = "failed"] /\ UNCHANGED target
  BY DEF ParseVolume, Goto, Fails
<1>4. Clamped(a.amount) \in Levels /\ Clamped(a.amount) \in Int
  <2>1. a.amount \in Nat
    BY <1>1 DEF Arguments
  <2> QED
    BY <2>1, ClampedType DEF Levels
<1>5. TypeOK'
  BY <1>1, <1>2, <1>3, <1>4 DEF TypeOK, Pcs
<1>6. CallerOK(c)'
  <2>1. CASE IsRelative(a) /\ pc'[c] = "get"
    BY <1>1, <1>2, <2>1 DEF CallerOK, CallOK, DoneOK
  <2>2. CASE /\ a.prefix = "" /\ a.digits
             /\ pc'[c] = "set" /\ target'[c] = Clamped(a.amount)
    <3>1. r.arg.prefix # "m" => target'[c] = Wanted(r, volume)
      BY <1>1, <2>2, AbsoluteIsWanted, GivenType
    <3> QED
      BY <1>1, <1>2, <1>4, <2>2, <3>1 DEF CallerOK, CallOK, DoneOK
  <2>3. CASE /\ \/ ~IsRelative(a) /\ (a.prefix = "m" \/ ~a.digits)
                \/ Amount(a) > MaxInt
             /\ pc'[c] = "failed"
    <3>1. ASSUME IsMeaningful(r) PROVE FALSE
      <4>1. /\ a = Given(r) /\ a.digits = r.arg.digits /\ a.amount = r.arg.amount
            /\ r.arg.digits \/ r.arg.prefix \in Signs
            /\ r.arg.amount <= MaxInt
        BY <1>1, <3>1, GivenType DEF IsMeaningful
      <4>2. Amount(a) <= MaxInt
        BY <4>1, VolumeAssumption DEF Amount
      <4>3. a.prefix # "m" /\ (a.digits \/ IsRelative(a))
        BY <1>1, <3>1, <4>1, GivenPrefix DEF IsMeaningful, IsRelative, Signs, Means
      <4>4. Amount(a) \in Nat
        BY <1>1 DEF Amount, Arguments
      <4> QED
        BY <2>3, <4>2, <4>3, <4>4, VolumeAssumption
    <3> QED
      BY <1>1, <1>2, <2>3, <3>1 DEF CallerOK, CallOK, DoneOK
  <2> QED
    BY <1>1, <1>3, <2>1, <2>2, <2>3 DEF TypeOK
<1> QED
  BY <1>5, <1>6, OthersKeep, InvByCallerNext DEF Work

LEMMA GetVolumeStep ==
  ASSUME VolumeInv, NEW c \in Callers, GetVolume(c)
  PROVE  VolumeInv'
<1> DEFINE a == argument[c]
           r == request[c]
<1>1. /\ TypeOK /\ CallerOK(c) /\ r \in Requests /\ a \in Arguments
      /\ pc[c] = "get" /\ r.command = "volume" /\ RequestOK(r) /\ IsRelative(a)
      /\ r.arg.prefix # "m" => a = Given(r)
      /\ volume \in held[c] /\ volume \in Levels
  BY InvByCaller DEF CallerOK, CallOK, GetVolume, TypeOK
<1>2. /\ pc' = [pc EXCEPT ![c] = "set"]
      /\ UNCHANGED <<volume, held, argument, calls, request>>
      /\ \/ /\ target' = [target EXCEPT ![c] = Clamped(Moved(a, volume))]
            /\ UNCHANGED <<faults, failing>>
         \/ /\ faults < MaxFaults /\ faults' = faults + 1
            /\ failing' = [failing EXCEPT ![c] = TRUE]
            /\ \E v \in Garbage : target' = [target EXCEPT ![c] = v]
  BY DEF GetVolume, Goto
<1>3. Clamped(Moved(a, volume)) \in Levels
  <2>1. Amount(a) \in Int /\ volume \in Int
    <3>1. a.amount \in Nat
      BY <1>1 DEF Arguments
    <3> QED
      BY <1>1, <3>1 DEF Amount, Levels
  <2>2. Moved(a, volume) \in Int
    BY <2>1 DEF Moved
  <2> QED
    BY <2>2, ClampedType
<1>4. target'[c] \in Levels /\ target' \in [Callers -> Int]
  BY <1>1, <1>2, <1>3, VolumeAssumption DEF TypeOK, Levels
<1>5. TypeOK'
  <2>1. faults' \in 0..MaxFaults
    <3>1. MaxFaults \in Nat /\ faults \in 0..MaxFaults
      BY <1>1, VolumeAssumption DEF TypeOK
    <3> QED
      BY <1>2, <3>1, OneMore
  <2> QED
    BY <1>1, <1>2, <1>4, <2>1 DEF TypeOK, Pcs
<1>6. CallerOK(c)'
  <2>1. ~failing'[c] /\ r.arg.prefix # "m" => target'[c] = Wanted(r, volume)
    BY <1>1, <1>2, RelativeIsWanted DEF TypeOK
  <2>2. pc'[c] = "set"
    BY <1>1, <1>2 DEF TypeOK
  <2> QED
    BY <1>1, <1>2, <1>4, <2>1, <2>2 DEF CallerOK, CallOK, DoneOK
<1> QED
  BY <1>5, <1>6, OthersKeep, InvByCallerNext DEF Work

LEMMA SetVolumeStep ==
  ASSUME VolumeInv, NEW c \in Callers, SetVolume(c)
  PROVE  VolumeInv'
<1>1. /\ TypeOK /\ CallerOK(c) /\ pc[c] = "set" /\ target[c] \in Levels
      /\ request[c].command = "volume" /\ RequestOK(request[c])
  BY InvByCaller DEF CallerOK, CallOK, SetVolume
<1>2. UNCHANGED <<argument, target, calls, request>>
  BY DEF SetVolume
<1>3. \/ /\ volume' = target[c] /\ pc' = [pc EXCEPT ![c] = "exit 0"]
         /\ held' = [d \in Callers |-> held[d] \cup {target[c]}]
         /\ UNCHANGED <<faults, failing>>
      \/ /\ faults < MaxFaults /\ faults' = faults + 1
         /\ failing' = [failing EXCEPT ![c] = TRUE]
         /\ pc' = [pc EXCEPT ![c] = "failed"]
         /\ UNCHANGED <<volume, held>>
  BY DEF SetVolume, Goto
<1>4. TypeOK'
  <2>1. faults' \in 0..MaxFaults
    <3>1. MaxFaults \in Nat /\ faults \in 0..MaxFaults
      BY <1>1, VolumeAssumption DEF TypeOK
    <3> QED
      BY <1>3, <3>1, OneMore
  <2>2. volume' \in Levels /\ held' \in [Callers -> SUBSET Levels]
    <3>1. volume \in Levels /\ held \in [Callers -> SUBSET Levels]
      BY <1>1 DEF TypeOK
    <3> QED
      BY <1>1, <1>3, <3>1
  <2> QED
    BY <1>1, <1>2, <1>3, <2>1, <2>2 DEF TypeOK, Pcs
<1>5. CallerOK(c)'
  <2>1. pc'[c] = "exit 0" \/ (pc'[c] = "failed" /\ failing'[c])
    BY <1>1, <1>3 DEF TypeOK
  <2> QED
    BY <1>1, <1>2, <2>1 DEF CallerOK, CallOK, DoneOK
<1> QED
  BY <1>4, <1>5, OthersKeep, InvByCallerNext DEF Work

LEMMA SeekSteps ==
  ASSUME VolumeInv, NEW c \in Callers, ParseSeek(c) \/ Seek(c)
  PROVE  VolumeInv'
<1> DEFINE a == argument[c]
           r == request[c]
<1>1. /\ TypeOK /\ CallerOK(c) /\ r \in Requests /\ a \in Arguments /\ RequestOK(r)
      /\ r.command = "seek"
      /\ pc[c] = "call" /\ r.arg.prefix # "m" => a = r.arg
  <2>1. /\ TypeOK /\ CallerOK(c) /\ pc[c] \in {"call", "seek"} /\ r.command = "seek"
    BY InvByCaller DEF CallerOK, CallOK, ParseSeek, Seek
  <2>2. r.by # "emacs"
    BY <2>1 DEF CallerOK, RequestOK
  <2> QED
    BY <2>1, <2>2 DEF CallerOK, CallOK, TypeOK, Given
<1>2. UNCHANGED <<volume, held, argument, calls, faults, request, failing>>
  BY DEF ParseSeek, Seek
<1>3. a.amount \in Nat /\ Number(a) \in Int
  <2>1. a.amount \in Nat
    BY <1>1 DEF Arguments
  <2> QED
    BY <2>1 DEF Number
<1>4. CASE ParseSeek(c) /\ IsNumber(a) /\ IsInt(Number(a))
  <2>1. /\ pc' = [pc EXCEPT ![c] = "seek"]
        /\ target' = [target EXCEPT ![c] = Number(a)] /\ pc[c] = "call"
    BY <1>4 DEF ParseSeek, Goto
  <2>2. TypeOK'
    BY <1>1, <1>2, <1>3, <2>1 DEF TypeOK, Pcs
  <2>3. CallerOK(c)'
    <3>1. IsMeaningful(r) => Number(a) = Number(r.arg)
      BY <1>1, <2>1 DEF IsMeaningful
    <3>2. pc'[c] = "seek" /\ target'[c] = Number(a)
      BY <1>1, <2>1 DEF TypeOK
    <3> QED
      BY <1>1, <1>2, <3>1, <3>2 DEF CallerOK, CallOK, DoneOK
  <2> QED
    BY <2>2, <2>3, OthersKeep, InvByCallerNext DEF Work
<1>5. CASE ParseSeek(c) /\ ~(IsNumber(a) /\ IsInt(Number(a)))
  <2>1. pc' = [pc EXCEPT ![c] = "failed"] /\ UNCHANGED target /\ pc[c] = "call"
    BY <1>5 DEF ParseSeek, Fails, Goto
  <2>2. TypeOK'
    BY <1>1, <1>2, <2>1 DEF TypeOK, Pcs
  <2>3. CallerOK(c)'
    <3>1. ASSUME IsMeaningful(r) PROVE FALSE
      <4>1. a.prefix # "m" /\ a.digits /\ a.amount <= MaxInt
        BY <1>1, <2>1, <3>1 DEF IsMeaningful
      <4>2. IsInt(Number(a))
        BY <1>3, <4>1, VolumeAssumption DEF IsInt, Number
      <4> QED
        BY <1>5, <4>1, <4>2 DEF IsNumber
    <3>2. pc'[c] = "failed"
      BY <1>1, <2>1 DEF TypeOK
    <3> QED
      BY <1>1, <1>2, <3>1, <3>2 DEF CallerOK, CallOK, DoneOK
  <2> QED
    BY <2>2, <2>3, OthersKeep, InvByCallerNext DEF Work
<1>6. CASE Seek(c)
  <2>1. pc' = [pc EXCEPT ![c] = "failed"] /\ UNCHANGED target /\ pc[c] = "seek"
    BY <1>6 DEF Seek, Goto
  <2>2. TypeOK'
    BY <1>1, <1>2, <2>1 DEF TypeOK, Pcs
  <2>3. CallerOK(c)'
    <3>1. pc'[c] = "failed" /\ target'[c] = target[c]
      BY <1>1, <2>1 DEF TypeOK
    <3> QED
      BY <1>1, <1>2, <2>1, <3>1 DEF CallerOK, CallOK, DoneOK
  <2> QED
    BY <2>2, <2>3, OthersKeep, InvByCallerNext DEF Work
<1> QED
  BY <1>4, <1>5, <1>6

LEMMA VolumeStep == VolumeInv /\ [Next]_vars => VolumeInv'
<1> SUFFICES ASSUME VolumeInv, [Next]_vars PROVE VolumeInv'
  OBVIOUS
<1>1. CASE Next
  <2>1. PICK c \in Callers :
          \/ Work(c)
          \/ \E r \in [by : Origins, command : Commands, arg : Typed] :
               CanAsk(r) /\ Ask(c, r)
    BY <1>1 DEF Next
  <2>2. CASE Work(c)
    BY <2>2, ParseVolumeStep, GetVolumeStep, SetVolumeStep, SeekSteps DEF Work
  <2> QED
    BY <2>1, <2>2, AskStep
<1>2. CASE UNCHANGED vars
  BY <1>2 DEF vars, callVars, VolumeInv, TypeOK, RequestOK, CallOK, MeaningfulIsDone
<1> QED
  BY <1>1, <1>2

-----------------------------------------------------------------------------
(***************************************************************************)
(* The inductive invariant, types and the range of the volume included,    *)
(* holds in every reachable state.                                         *)
(***************************************************************************)
THEOREM VolumeInvariant == Spec => []VolumeInv
<1>1. Init => VolumeInv
  BY VolumeInit
<1>2. VolumeInv /\ [Next]_vars => VolumeInv'
  BY VolumeStep
<1> QED
  BY <1>1, <1>2, PTL DEF Spec

(***************************************************************************)
(* Whatever has a meaning is carried out, with the number that was typed.  *)
(***************************************************************************)
THEOREM MeaningfulCommandsAreDone == Spec => []MeaningfulIsDone
<1>1. VolumeInv => MeaningfulIsDone
  BY DEF VolumeInv
<1> QED
  BY <1>1, VolumeInvariant, PTL

(***************************************************************************)
(* A volume command that succeeds sets what was asked for, counted from a  *)
(* volume there was while it ran: what PlayerClient, the command line and  *)
(* Player::Volume do to its argument adds up to what the user meant.       *)
(***************************************************************************)
THEOREM VolumesAreAsAsked == Spec => DoneAsAsked
<1> DEFINE AsAsked(c) ==
      pc[c] = "set" /\ pc'[c] = "exit 0" /\ ~failing[c] /\ request[c].arg.prefix # "m"
        => \E v \in held[c] : volume' = Wanted(request[c], v)
<1>1. ASSUME VolumeInv, [Next]_vars, NEW c \in Callers PROVE AsAsked(c) \/ UNCHANGED vars
  <2> SUFFICES ASSUME Next, pc[c] = "set", pc'[c] = "exit 0"
               PROVE  AsAsked(c)
    BY <1>1
  <2>1. TypeOK /\ CallOK(c)
    BY <1>1 DEF VolumeInv
  <2>2. PICK d \in Callers :
          \/ Work(d)
          \/ \E r \in [by : Origins, command : Commands, arg : Typed] :
               CanAsk(r) /\ Ask(d, r)
    BY DEF Next
  <2>3. c = d /\ Work(c)
    BY <2>1, <2>2 DEF Work, ParseVolume, GetVolume, SetVolume, ParseSeek, Seek, Goto, Fails,
       Ask, CommandLine, TypeOK
  <2>4. volume' = target[c]
    BY <2>1, <2>3 DEF Work, ParseVolume, GetVolume, SetVolume, ParseSeek, Seek, Goto, TypeOK
  <2> QED
    BY <2>1, <2>4 DEF CallOK
<1>2. VolumeInv /\ [Next]_vars => [\A c \in Callers : AsAsked(c)]_vars
  BY <1>1
<1> QED
  BY <1>2, VolumeInvariant, PTL DEF Spec, DoneAsAsked
=============================================================================
