------------------------------- MODULE SignIn -------------------------------
(***************************************************************************)
(* From the settings of a server and of a daemon to the session key: what  *)
(* each program makes of its arguments and its file (remote-player.cpp,    *)
(* remote-control-argp.h, Daemon.cpp), how the daemon finds the server,    *)
(* and how both prove to the other that they know the same passphrase      *)
(* (PlayerClient::Authenticate, PlayerServiceImpl::Authenticate).          *)
(*                                                                         *)
(* One server and one daemon, each started once; many sessions, restarts   *)
(* and lost connections are in module Sessions.                            *)
(***************************************************************************)
EXTENDS Configuration, Zkp

CONSTANTS
    ServerSettings,   \* what a server may be started with ...
    DaemonSettings,   \* ... and a daemon: its arguments and its file
    Certificate       \* whose certificate a file holds, "" if it is empty

Options == {"grpc_port", "cert_port", "grpc_host", "passphrase"}

Settings == [args : [Options -> Texts], file : File]

Processes == {"server", "daemon"}

\* Up to LOADED, which both programs go through; after it; and the end.
Early        == {"START", "PARSED", "LOADING", "LOADED"}
ServerStages == {"CONFIGURED", "CERTIFIED", "LISTENING",
                 "ACCEPTED", "DENIED", "PROVED", "INTERNAL"}
DaemonStages == {"CONFIG_INITIALIZED", "GRPC_CLIENT_INITIALIZED", "PROVED", "AUTHENTICATED"}

ASSUME SignInAssumption ==
    /\ Options \cup {"cert_file", "key_file"} = Keys
    /\ ServerSettings \subseteq Settings
    /\ DaemonSettings \subseteq Settings
    /\ Texts \ {""} \subseteq Passphrases
    /\ {"0", "server.crt", "server.key"} \subseteq Texts
    /\ Certificate \in [Texts -> Texts]

VARIABLES
    given,     \* the arguments and the file of each program
    config,    \* its settings
    line,      \* the lines of the file it has read
    stage,     \* how far the server, and the launcher and its daemon, are
    message,   \* the AuthData last sent, with what its digest was made of
    unsent,    \* a proof could not be serialised
    digest     \* history: what the digest of message was when it was checked

vars == <<given, config, line, stage, message, unsent, digest>>

NoMessage == [by |-> "nobody"]
NoDigest  == -1

Messages == [by : {"client", "server"}, zkp : Zkps, public_key : Points,
             generator : Points, challenge : Challenges]

Init ==
    /\ \E s \in ServerSettings, d \in DaemonSettings :
         given = [p \in Processes |-> IF p = "server" THEN s ELSE d]
    /\ config = [p \in Processes |-> NotLoaded]
    /\ line = [p \in Processes |-> 0]
    /\ stage = [p \in Processes |-> "START"]
    /\ message = NoMessage
    /\ unsent = FALSE
    /\ digest = NoDigest

\* parse_opt and daemon_parse_opt: the arguments with their ports, none if one of
\* them is refused or too big.  (A file that does not exist is refused here if its
\* name is an argument, and by Load if it is not; either ends the program.)
Parsed(args) ==
    {[args EXCEPT !["grpc_port"] = port, !["cert_port"] = cert_port] :
        port \in PortOption(args["grpc_port"]), cert_port \in PortOption(args["cert_port"])}

\* An argument wins over the file.
WithOption(c, key, args) == Set(c, key, args[key])

-----------------------------------------------------------------------------
\* The beginning, which is alike in main of remote-player.cpp and in the launcher.

Parse(p) ==
    /\ stage[p] = "START"
    /\ \/ \E args \in Parsed(given[p].args) :
            /\ given' = [given EXCEPT ![p].args = args]
            /\ stage' = [stage EXCEPT ![p] = "PARSED"]
       \/ /\ Parsed(given[p].args) = {}
          /\ stage' = [stage EXCEPT ![p] = "ENDED"]
          /\ UNCHANGED given
    /\ UNCHANGED <<config, line, message, unsent, digest>>

\* Load opens the file; the launcher does so before it forks, in config_init.
OpenFile(p) ==
    /\ stage[p] = "PARSED"
    /\ \/ /\ given[p].file.readable
          /\ stage' = [stage EXCEPT ![p] = "LOADING"]
          /\ UNCHANGED config
       \/ /\ ~given[p].file.readable
          /\ config' = [config EXCEPT ![p] = NotOpened(@)]
          /\ stage' = [stage EXCEPT ![p] = "ENDED"]
    /\ UNCHANGED <<given, line, message, unsent, digest>>

LoadLine(p) ==
    /\ stage[p] = "LOADING"
    /\ line[p] < Len(given[p].file.lines)
    /\ line' = [line EXCEPT ![p] = @ + 1]
    /\ config' = [config EXCEPT ![p] = ReadLine(@, given[p].file.lines[line[p] + 1])]
    /\ UNCHANGED <<given, stage, message, unsent, digest>>

EndOfFile(p) ==
    /\ stage[p] = "LOADING"
    /\ line[p] = Len(given[p].file.lines)
    /\ config' = [config EXCEPT ![p] = Loaded(@)]
    /\ stage' = [stage EXCEPT ![p] = "LOADED"]
    /\ UNCHANGED <<given, line, message, unsent, digest>>

-----------------------------------------------------------------------------
\* The rest of main of remote-player.cpp.

\* initialize_config.  The port for certificates is 0 without an argument,
\* whatever the file says; an empty port or passphrase is thrown.
ServerInitializesConfig ==
    /\ stage["server"] = "LOADED"
    /\ LET args == given["server"].args
           port == WithOption(config["server"], "grpc_port", args)
           cert == WithOption(Set(port, "cert_port", "0"), "cert_port", args)
           full == WithOption(cert, "passphrase", args)
       IN \/ /\ Get(port, "grpc_port") = ""
             /\ config' = [config EXCEPT !["server"] = port]
             /\ stage' = [stage EXCEPT !["server"] = "ENDED"]
          \/ /\ Get(port, "grpc_port") # ""
             /\ config' = [config EXCEPT !["server"] = full]
             /\ stage' = [stage EXCEPT !["server"] =
                            IF Get(full, "passphrase") = "" THEN "ENDED" ELSE "CONFIGURED"]
    /\ UNCHANGED <<given, line, message, unsent, digest>>

\* The names of the certificate and of the key are fixed, whatever the file says.
LoadCertificate ==
    /\ stage["server"] = "CONFIGURED"
    /\ LET named == Set(Set(config["server"], "cert_file", "server.crt"),
                        "key_file", "server.key")
       IN /\ config' = [config EXCEPT !["server"] = named]
          /\ stage' = [stage EXCEPT !["server"] =
                         IF \/ Certificate[Get(named, "cert_file")] = ""
                            \/ Certificate[Get(named, "key_file")] = ""
                         THEN "ENDED" ELSE "CERTIFIED"]
    /\ UNCHANGED <<given, line, message, unsent, digest>>

\* gRPC may take it for a port, also with leading zeros.
IsPort(text) == PortNumber[text] \in 0 .. 65535

\* BuildAndStart.  If it cannot listen, on a text that is no port or on one that is
\* taken, the pointer it returns is null and Wait ends the program.
BuildAndStart ==
    /\ stage["server"] = "CERTIFIED"
    /\ \/ /\ IsPort(Get(config["server"], "grpc_port"))
          /\ stage' = [stage EXCEPT !["server"] = "LISTENING"]
       \/ stage' = [stage EXCEPT !["server"] = "ENDED"]
    /\ UNCHANGED <<given, config, line, message, unsent, digest>>

-----------------------------------------------------------------------------
\* The daemon, which is forked with the settings of the launcher.

Required == {"grpc_port", "grpc_host", "passphrase", "cert_file"}

\* initialize_config of the daemon.  Its Load finds the launcher's file loaded and
\* does nothing.
InitializeConfig ==
    /\ stage["daemon"] = "LOADED" /\ config["daemon"].state = "LOADED"
    /\ LET args   == given["daemon"].args
           port   == WithOption(config["daemon"], "grpc_port", args)
           host   == WithOption(port, "grpc_host", args)
           cert   == WithOption(host, "cert_port", args)
           full   == WithOption(cert, "passphrase", args)
           usable == Missing(full, Required) = {} /\ CheckPort(Get(full, "grpc_port"))
           final  == IF usable /\ Get(full, "cert_port") = ""
                     THEN Set(full, "cert_port", "0") ELSE full
       IN /\ config' = [config EXCEPT !["daemon"] = final]
          /\ stage' = [stage EXCEPT !["daemon"] =
                         IF usable /\ CheckPort(Get(final, "cert_port"))
                         THEN "CONFIG_INITIALIZED" ELSE "ENDED"]
    /\ UNCHANGED <<given, line, message, unsent, digest>>

\* The channel can become ready: the address is the server's, whose port is the one
\* it asked for, and the file holds the server's certificate.
Reachable ==
    /\ stage["server"] = "LISTENING"
    /\ Get(config["daemon"], "grpc_host") = "localhost"
    /\ PortNumber[Get(config["daemon"], "grpc_port")]
           = PortNumber[Get(config["server"], "grpc_port")]
    /\ PortNumber[Get(config["server"], "grpc_port")] # 0
    /\ Certificate[Get(config["daemon"], "cert_file")]
           = Certificate[Get(config["server"], "cert_file")]

\* initialize_grpc_client: an empty certificate is thrown at once, a channel that is
\* not ready after five seconds at last.
InitializeGrpcClient ==
    /\ stage["daemon"] = "CONFIG_INITIALIZED"
    /\ \/ /\ Certificate[Get(config["daemon"], "cert_file")] # ""
          /\ Reachable
          /\ stage' = [stage EXCEPT !["daemon"] = "GRPC_CLIENT_INITIALIZED"]
       \/ stage' = [stage EXCEPT !["daemon"] = "ENDED"]
    /\ UNCHANGED <<given, config, line, message, unsent, digest>>

-----------------------------------------------------------------------------
\* The exchange of proofs.

Generator(process) == MakeGenerator(Get(config[process], "passphrase"))

\* A new key pair, the proof of its private key, and the digest c that went into it.
NewMessage(by, generator) ==
    {[by |-> by, zkp |-> MakeZkp(by, x, v, c, generator),
      public_key |-> Times(generator, x), generator |-> generator, challenge |-> c] :
        x \in PrivateKeys, v \in PrivateKeys, c \in Challenges}

\* The digest as the other side computes it: the same of the same bytes, and a digest
\* of other bytes may be anything.
ChallengeFor(generator) ==
    IF message.generator = generator THEN {message.challenge} ELSE Challenges

\* PlayerClient::Authenticate up to the write.  What cannot be serialised is thrown.
ClientProves ==
    /\ stage["daemon"] = "GRPC_CLIENT_INITIALIZED"
    /\ \E m \in NewMessage("client", Generator("daemon")) :
         \/ /\ CanSerialize(m.zkp)
            /\ message' = m
            /\ stage' = [stage EXCEPT !["daemon"] = "PROVED"]
            /\ UNCHANGED unsent
         \/ /\ ~CanSerialize(m.zkp)
            /\ unsent' = TRUE
            /\ stage' = [stage EXCEPT !["daemon"] = "ENDED"]
            /\ UNCHANGED message
    /\ UNCHANGED <<given, config, line, digest>>

\* PlayerServiceImpl::Authenticate up to deny or to the session key.
CheckClient ==
    /\ stage["server"] = "LISTENING" /\ stage["daemon"] = "PROVED"
    /\ \E c \in ChallengeFor(Generator("server")) :
         /\ digest' = c
         /\ stage' = [stage EXCEPT !["server"] =
                        IF CheckZkp(message.zkp, message.public_key, c, "server",
                                    Generator("server"))
                        THEN "ACCEPTED" ELSE "DENIED"]
    /\ UNCHANGED <<given, config, line, message, unsent>>

\* Its rest: the server's own proof, or INTERNAL.
ServerProves ==
    /\ stage["server"] = "ACCEPTED"
    /\ \E m \in NewMessage("server", Generator("server")) :
         \/ /\ CanSerialize(m.zkp)
            /\ message' = m
            /\ stage' = [stage EXCEPT !["server"] = "PROVED"]
            /\ UNCHANGED unsent
         \/ /\ ~CanSerialize(m.zkp)
            /\ unsent' = TRUE
            /\ stage' = [stage EXCEPT !["server"] = "INTERNAL"]
            /\ UNCHANGED message
    /\ digest' = NoDigest
    /\ UNCHANGED <<given, config, line>>

\* The rest of PlayerClient::Authenticate.  An answer without a proof has an empty
\* public key, which is no point.
CheckServer ==
    /\ stage["daemon"] = "PROVED"
    /\ \/ /\ stage["server"] \in {"DENIED", "INTERNAL"}
          /\ stage' = [stage EXCEPT !["daemon"] = "ENDED"]
          /\ UNCHANGED digest
       \/ /\ stage["server"] = "PROVED"
          /\ \E c \in ChallengeFor(Generator("daemon")) :
               /\ digest' = c
               /\ stage' = [stage EXCEPT !["daemon"] =
                              IF CheckZkp(message.zkp, message.public_key, c, "client",
                                          Generator("daemon"))
                              THEN "AUTHENTICATED" ELSE "ENDED"]
    /\ UNCHANGED <<given, config, line, message, unsent>>

\* The server waits for others, the daemon serves or is gone.
Finished ==
    /\ stage["daemon"] \in {"AUTHENTICATED", "ENDED"}
    /\ stage["server"] \in {"LISTENING", "DENIED", "PROVED", "INTERNAL", "ENDED"}
    /\ UNCHANGED vars

Next ==
    \/ \E p \in Processes : Parse(p) \/ OpenFile(p) \/ LoadLine(p) \/ EndOfFile(p)
    \/ ServerInitializesConfig \/ LoadCertificate \/ BuildAndStart
    \/ InitializeConfig \/ InitializeGrpcClient
    \/ ClientProves \/ CheckClient \/ ServerProves \/ CheckServer
    \/ Finished

Spec == Init /\ [][Next]_vars

-----------------------------------------------------------------------------
\* What the variables hold.
TypeOK ==
    /\ given \in [Processes -> Settings]
    /\ config \in [Processes -> Configs]
    /\ line \in [Processes -> Nat]
    /\ stage \in [Processes -> Early \cup ServerStages \cup DaemonStages \cup {"ENDED"}]
    /\ stage["server"] \in Early \cup ServerStages \cup {"ENDED"}
    /\ stage["daemon"] \in Early \cup DaemonStages \cup {"ENDED"}
    /\ message \in Messages \cup {NoMessage}
    /\ unsent \in BOOLEAN
    /\ digest \in Challenges \cup {NoDigest}

\* The first n lines leave value to a setting: the last of them that sets it does.
Sets(l, key) == l.kind = "setting" /\ l.key = key

LeftBy(lines, n, key, value) ==
    \/ value = "" /\ \A i \in 1 .. n : ~Sets(lines[i], key)
    \/ \E i \in 1 .. n :
         /\ Sets(lines[i], key) /\ lines[i].value = value
         /\ \A j \in (i + 1) .. n : ~Sets(lines[j], key)

\* What a user means a setting to be: the argument, or else what the file leaves.
Intended(p, key) ==
    LET lines == given[p].file.lines
        value == Get(config[p], key)
    IN IF key \in Options /\ given[p].args[key] # ""
       THEN value = given[p].args[key]
       ELSE LeftBy(lines, Len(lines), key, value)

\* Whenever either program acts on a setting of its user (the port and the
\* passphrase, in the daemon also the host and the certificate), it is the argument
\* if there is one and else the last line of the file that sets it: no order of
\* loading, setting the arguments and forking lets the file win over an argument or
\* an earlier line over a later one.
SettingsIntended ==
    /\ stage["server"] \in ServerStages =>
         \A key \in {"grpc_port", "passphrase"} : Intended("server", key)
    /\ stage["daemon"] \in DaemonStages => \A key \in Required : Intended("daemon", key)

SameGenerator == Generator("server") = Generator("daemon")

\* Equal passphrases suffice: a server never denies a daemon that derives the same
\* generator from its passphrase, and once they are connected such a daemon fails only
\* if one of the two responses came out as 0 and could not be sent.  That the digest
\* is not reduced by the order, and that the private keys leave out one value, does
\* no harm.
AgreementSuffices ==
    message # NoMessage /\ SameGenerator =>
        /\ stage["server"] # "DENIED"
        /\ stage["daemon"] = "ENDED" => unsent

\* The one digest, modulo the order, with which a proof made with one generator passes
\* for another: away from the prover's digest by as much as the generators differ.
ByChance(m, generator) ==
    CHOOSE c \in Points :
        (m.public_key * c) % Order
          = ((m.public_key * m.challenge) + ((m.generator - generator) * m.zkp.r)) % Order

\* A wrong passphrase is refused, by the server and by the daemon: with another
\* generator than the other side's, neither accepts a proof, unless the digest it
\* computed of the proof and its own generator is the one value that lets it pass.
WrongPassphraseRefused ==
    \A p \in Processes :
        stage[p] \in {"ACCEPTED", "AUTHENTICATED"} /\ ~SameGenerator =>
            digest % Order = ByChance(message, Generator(p))

\* What makes the settings right: while the file is read, every setting is what the
\* lines so far left, and nothing else writes it before the arguments do.
ReadBy(p) ==
    LET lines == given[p].file.lines
    IN /\ stage[p] \in {"START", "PARSED"} => config[p] = NotLoaded /\ line[p] = 0
       /\ stage[p] \in {"LOADING", "LOADED"} =>
            /\ line[p] <= Len(lines)
            /\ \A key \in Keys : LeftBy(lines, line[p], key, config[p].map[key])
       /\ stage[p] = "LOADED" => line[p] = Len(lines)
       /\ stage[p] \notin {"START", "PARSED", "LOADING", "ENDED"} =>
            config[p].state = "LOADED"

FileIsRead == \A p \in Processes : ReadBy(p)

HasPassphrase(p) == Get(config[p], "passphrase") \in Texts \ {""}

\* How far the two sides are in the exchange, and whose message is on the way.
ExchangeOrder ==
    /\ stage["server"] \in ServerStages => HasPassphrase("server")
    /\ stage["daemon"] \in DaemonStages => HasPassphrase("daemon")
    /\ message = NoMessage =>
         /\ stage["server"] \in Early \cup {"CONFIGURED", "CERTIFIED", "LISTENING", "ENDED"}
         /\ stage["daemon"] \notin {"PROVED", "AUTHENTICATED"}
    /\ message # NoMessage =>
         /\ HasPassphrase("server") /\ HasPassphrase("daemon")
         /\ stage["daemon"] \in {"PROVED", "AUTHENTICATED", "ENDED"}
         /\ \/ /\ message \in NewMessage("client", Generator("daemon"))
               /\ stage["server"] \in {"LISTENING", "ACCEPTED", "DENIED", "INTERNAL"}
            \/ /\ message \in NewMessage("server", Generator("server"))
               /\ stage["server"] = "PROVED"
    /\ message # NoMessage /\ stage["server"] \in {"LISTENING", "ACCEPTED"} =>
         stage["daemon"] = "PROVED"
    /\ stage["server"] = "INTERNAL" => unsent
    /\ stage["daemon"] = "AUTHENTICATED" => stage["server"] = "PROVED"
    /\ stage["daemon"] = "GRPC_CLIENT_INITIALIZED" => stage["server"] = "LISTENING"

\* What was accepted was checked, with the checker's own generator.
AcceptedFits ==
    \A p \in Processes :
        stage[p] \in {"ACCEPTED", "AUTHENTICATED"} =>
            digest # NoDigest /\ Fits(message.zkp, message.public_key, digest, Generator(p))

\* The invariant that start-up and the exchange keep: types, a file read in order,
\* settings as intended, a message that one of the two made, no refusal among equals, nothing
\* accepted unchecked.
SignInInv ==
    /\ TypeOK
    /\ FileIsRead
    /\ SettingsIntended
    /\ ExchangeOrder
    /\ AgreementSuffices
    /\ AcceptedFits
=============================================================================
