--------------------------- MODULE Configuration ---------------------------
(***************************************************************************)
(* The settings of a process (Config.cpp) as a value: a map and whether a  *)
(* file has been loaded, and the operations the programs use on it; and    *)
(* the ways a port's text is read (stoi in the two option parsers and in   *)
(* Util.cpp's check_port).                                                 *)
(*                                                                         *)
(* A file is a sequence of lines.  "" is the value of what is not set.     *)
(***************************************************************************)
EXTENDS Integers, Sequences

CONSTANTS
    Keys,         \* the names of settings
    Texts,        \* their values
    PortNumber,   \* what stoi makes of the text of a port ...
    Written       \* ... and to_string of that number

NoNumber == -1    \* stoi throws invalid_argument
TooBig   == -2    \* stoi throws out_of_range

ASSUME ConfigurationAssumption ==
    /\ "" \in Texts
    /\ PortNumber \in [Texts -> Int]
    /\ Written \in [Texts -> Texts]
    /\ \A t \in Texts : PortNumber[t] > 0 => Written[t] # ""

Lines == [kind : {"setting"}, key : Keys, value : Texts \ {""}]
             \cup [kind : {"comment", "unparsable"}]

\* A file that cannot be opened has no lines to speak of.
File == [readable : BOOLEAN, lines : Seq(Lines)]

Configs == [map : [Keys -> Texts], state : {"NOT_LOADED", "LOADED", "ERROR"}]

NotLoaded == [map |-> [k \in Keys |-> ""], state |-> "NOT_LOADED"]

\* Mutated: the value that was there is kept, as SetMaybe does.
KeepOld(config, key, value) ==
    IF config.map[key] = "" THEN [config EXCEPT !.map[key] = value] ELSE config

\* Set: an empty value changes nothing.
Set(config, key, value) ==
    IF value # "" THEN [config EXCEPT !.map[key] = value] ELSE config

\* One round of Load's loop.
ReadLine(config, line) ==
    IF line.kind = "setting"
    THEN [config EXCEPT !.map[line.key] = line.value]
    ELSE config

\* The end of Load: the file is read, or could not be opened, which is thrown.
Loaded(config)    == [config EXCEPT !.state = "LOADED"]
NotOpened(config) == [config EXCEPT !.state = "ERROR"]

\* Get, of a process that has called Load: empty after an error, whatever was set.
Get(config, key) == IF config.state = "LOADED" THEN config.map[key] ELSE ""

\* Require and CheckMissing.
Missing(config, required) == {k \in required : config.map[k] = ""}

InRange(n) == 5000 < n /\ n <= 65535

\* The option parsers: a port in range, as a number writes it.  What does not
\* start with a number or is out of range is refused, what does not fit an int
\* ends the program.
PortOption(text) ==
    IF text = "" THEN {""} ELSE IF InRange(PortNumber[text]) THEN {Written[text]} ELSE {}

\* check_port, which lets 0 pass too.
CheckPort(text) == InRange(PortNumber[text]) \/ PortNumber[text] = 0
=============================================================================
