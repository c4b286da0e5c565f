------------------------------ MODULE Sessions ------------------------------
(***************************************************************************)
(* Session keys: how a daemon proves the passphrase to the server and gets *)
(* a key (PlayerServiceImpl::Authenticate, PlayerClient::Authenticate),    *)
(* and how every other RPC is let in by that key (CHECK_AUTH, check_auth). *)
(*                                                                         *)
(* A client is one daemon process: it authenticates once, when it starts.  *)
(* The server runs a thread per RPC; sessions_mtx_ protects the choice of  *)
(* a key and, in a second critical section, its insertion, but not the     *)
(* lookup in check_auth.  A lookup in a std::set during an insertion is a  *)
(* data race; it may miss a key that is there.  The server may be          *)
(* restarted, perhaps with another passphrase; the set is not persistent.  *)
(*                                                                         *)
(* External: the proofs are complete and sound (a proof checks if and only *)
(* if both sides use one passphrase), and RAND_priv_bytes never repeats    *)
(* its 256 bits.  `drawn` and `keyEpoch` are history.                      *)
(***************************************************************************)
EXTENDS Naturals

CONSTANTS
    Clients,      \* daemon processes
    Passphrases,
    NoPass,       \* what a message without a proof proves
    Keys,         \* what RAND_priv_bytes can yield
    NoKey,        \* session_key_ of a daemon that has not authenticated
    NoClient,
    MaxRestarts,  \* bound: server restarts
    MaxFaults     \* bound: replies the server cannot compose, lost connections

ASSUME SessionsAssumption ==
    /\ NoKey \notin Keys /\ NoPass \notin Passphrases
    /\ NoClient \notin Clients
    /\ {MaxRestarts, MaxFaults} \subseteq Nat

VARIABLES
    serverPass,   \* the passphrase `secret` is made from
    sessions,     \* authenticated_sessions_
    inserting,    \* the client whose handler is inside insert(), or NoClient
    handler,      \* where the Authenticate handler for a client is
    candidate,    \* the handler's `key`
    reply,        \* the AuthData on its way to the client
    pass,         \* a client's passphrase
    clientPc,     \* where a client is
    key,          \* session_key_
    lastCall,     \* outcome of the client's latest RPC
    epoch, keyEpoch,  \* how often the server was started; when key was issued
    drawn, faults

serverVars == <<serverPass, epoch>>
setVars    == <<sessions, inserting>>
authVars   == <<handler, candidate, drawn>>
clientVars == <<pass, clientPc, key, keyEpoch, lastCall>>
vars == <<serverVars, setVars, authVars, reply, clientVars, faults>>

HandlerPcs == {"none", "check", "generate", "insert", "inserting", "prove", "done"}
ClientPcs  == {"idle", "sent", "authenticated", "failed", "gone"}

\* AuthData on its way: a key and a proof that only works for one passphrase.
Replies == [come : BOOLEAN, key : Keys \cup {NoKey},
            proof : Passphrases \cup {NoPass}, epoch : Nat]
NoReply == [come |-> FALSE, key |-> NoKey, proof |-> NoPass, epoch |-> 0]
\* denied, INTERNAL or a broken stream: the client reads an empty message
Refused == [NoReply EXCEPT !.come = TRUE]
Granted(k) == [come |-> TRUE, key |-> k, proof |-> serverPass, epoch |-> epoch]

TypeOK ==
    /\ serverPass \in Passphrases /\ epoch \in Nat
    /\ sessions \subseteq Keys /\ inserting \in Clients \cup {NoClient}
    /\ handler \in [Clients -> HandlerPcs]
    /\ candidate \in [Clients -> Keys \cup {NoKey}]
    /\ reply \in [Clients -> Replies]
    /\ pass \in [Clients -> Passphrases]
    /\ clientPc \in [Clients -> ClientPcs]
    /\ key \in [Clients -> Keys \cup {NoKey}]
    /\ keyEpoch \in [Clients -> Nat]
    /\ lastCall \in [Clients -> {"none", "served", "denied"}]
    /\ drawn \subseteq Keys /\ faults \in Nat

Init ==
    /\ serverPass \in Passphrases /\ epoch = 0
    /\ sessions = {} /\ inserting = NoClient
    /\ handler = [c \in Clients |-> "none"]
    /\ candidate = [c \in Clients |-> NoKey]
    /\ reply = [c \in Clients |-> NoReply]
    /\ pass \in [Clients -> Passphrases]
    /\ clientPc = [c \in Clients |-> "idle"]
    /\ key = [c \in Clients |-> NoKey]
    /\ keyEpoch = [c \in Clients |-> 0]
    /\ lastCall = [c \in Clients |-> "none"]
    /\ drawn = {} /\ faults = 0

-----------------------------------------------------------------------------
(***************************************************************************)
(* The server's Authenticate.                                              *)
(***************************************************************************)
CheckProof(c) ==
    /\ handler[c] = "check"
    /\ IF pass[c] = serverPass
         THEN /\ handler' = [handler EXCEPT ![c] = "generate"]
              /\ UNCHANGED reply
         ELSE /\ handler' = [handler EXCEPT ![c] = "done"]
              /\ reply' = [reply EXCEPT ![c] = Refused]
    /\ UNCHANGED <<serverVars, setVars, candidate, drawn, clientVars, faults>>

\* Mutated: the key is never put into the set.
KeyNotKept(c) ==
    /\ handler[c] = "generate" /\ inserting = NoClient
    /\ \E k \in Keys \ (drawn \cup sessions) :
         /\ candidate' = [candidate EXCEPT ![c] = k]
         /\ drawn' = drawn \cup {k}
    /\ handler' = [handler EXCEPT ![c] = "prove"]
    /\ UNCHANGED <<serverVars, setVars, reply, clientVars, faults>>

\* generate_session_key: under sessions_mtx_, a value that is not in the set.
GenerateKey(c) ==
    /\ handler[c] = "generate" /\ inserting = NoClient
    /\ \E k \in Keys \ (drawn \cup sessions) :
         /\ candidate' = [candidate EXCEPT ![c] = k]
         /\ drawn' = drawn \cup {k}
    /\ handler' = [handler EXCEPT ![c] = "insert"]
    /\ UNCHANGED <<serverVars, setVars, reply, clientVars, faults>>

\* The insertion, from the moment the tree is being changed...
InsertBegins(c) ==
    /\ handler[c] = "insert" /\ inserting = NoClient
    /\ inserting' = c
    /\ handler' = [handler EXCEPT ![c] = "inserting"]
    /\ UNCHANGED <<serverVars, sessions, candidate, drawn, reply, clientVars, faults>>

\* Mutated: the new key takes the place of the others.
InsertOverwrites(c) ==
    /\ handler[c] = "inserting"
    /\ sessions' = {candidate[c]}
    /\ inserting' = NoClient
    /\ handler' = [handler EXCEPT ![c] = "prove"]
    /\ UNCHANGED <<serverVars, candidate, drawn, reply, clientVars, faults>>

\* Mutated: sessions_mtx_ is not released.
InsertKeepsLock(c) ==
    /\ handler[c] = "inserting"
    /\ sessions' = sessions \cup {candidate[c]}
    /\ handler' = [handler EXCEPT ![c] = "prove"]
    /\ UNCHANGED <<serverVars, inserting, candidate, drawn, reply, clientVars,
                   faults>>

\* ... until sessions_mtx_ is released.
InsertEnds(c) ==
    /\ handler[c] = "inserting"
    /\ sessions' = sessions \cup {candidate[c]}
    /\ inserting' = NoClient
    /\ handler' = [handler EXCEPT ![c] = "prove"]
    /\ UNCHANGED <<serverVars, candidate, drawn, reply, clientVars, faults>>

\* The server's own proof and the reply.  If the proof cannot be made the RPC
\* ends with INTERNAL; the key stays in the set.
Prove(c) ==
    /\ handler[c] = "prove"
    /\ handler' = [handler EXCEPT ![c] = "done"]
    /\ \/ /\ reply' = [reply EXCEPT ![c] =
                         IF @.come THEN @   \* the stream is broken
                         ELSE Granted(candidate[c])]
          /\ UNCHANGED faults
       \/ /\ faults < MaxFaults
          /\ faults' = faults + 1
          /\ reply' = [reply EXCEPT ![c] = Refused]
    /\ UNCHANGED <<serverVars, setVars, candidate, drawn, clientVars>>

\* Mutated: the sessions are kept over a restart.
SessionsOutliveServer(newPass) ==
    /\ epoch < MaxRestarts
    /\ epoch' = epoch + 1
    /\ serverPass' = newPass
    /\ inserting' = NoClient
    /\ handler' = [c \in Clients |-> IF handler[c] = "none" THEN "none" ELSE "done"]
    /\ reply' = [c \in Clients |->
                   IF handler[c] \in {"none", "done"} THEN reply[c] ELSE Refused]
    /\ UNCHANGED <<sessions, candidate, drawn, clientVars, faults>>

\* The process ends and a new one starts: no session survives, the RPCs in
\* progress are cut off, replies that are on their way still arrive.
ServerRestarts(newPass) ==
    /\ epoch < MaxRestarts
    /\ epoch' = epoch + 1
    /\ serverPass' = newPass
    /\ sessions' = {} /\ inserting' = NoClient
    /\ handler' = [c \in Clients |-> IF handler[c] = "none" THEN "none" ELSE "done"]
    /\ reply' = [c \in Clients |->
                   IF handler[c] \in {"none", "done"} THEN reply[c] ELSE Refused]
    /\ UNCHANGED <<candidate, drawn, clientVars, faults>>

-----------------------------------------------------------------------------
(***************************************************************************)
(* The client.                                                             *)
(***************************************************************************)
SendProof(c) ==
    /\ clientPc[c] = "idle"
    /\ clientPc' = [clientPc EXCEPT ![c] = "sent"]
    /\ handler' = [handler EXCEPT ![c] = "check"]
    /\ UNCHANGED <<serverVars, setVars, candidate, drawn, reply, pass, key,
                   keyEpoch, lastCall, faults>>

\* The server's proof is checked with the client's own passphrase; a refusal
\* has no proof in it and fails the same way.
ReceiveReply(c) ==
    /\ clientPc[c] = "sent" /\ reply[c].come
    /\ \/ /\ reply[c].proof = pass[c]
          /\ clientPc' = [clientPc EXCEPT ![c] = "authenticated"]
          /\ key' = [key EXCEPT ![c] = reply[c].key]
          /\ keyEpoch' = [keyEpoch EXCEPT ![c] = reply[c].epoch]
       \/ /\ reply[c].proof # pass[c]
          /\ clientPc' = [clientPc EXCEPT ![c] = "failed"]
          /\ UNCHANGED <<key, keyEpoch>>
    /\ UNCHANGED <<serverVars, setVars, authVars, reply, pass, lastCall, faults>>

\* The connection breaks before the client has its reply.
ConnectionLost(c) ==
    /\ clientPc[c] = "sent" /\ faults < MaxFaults
    /\ faults' = faults + 1
    /\ reply' = [reply EXCEPT ![c] = Refused]
    /\ UNCHANGED <<serverVars, setVars, authVars, clientVars>>

\* What authenticated_sessions_.find(k) can yield.
Lookup(k) ==
    {found \in BOOLEAN : found <=> k \in sessions}
        \cup {found \in {FALSE} : inserting # NoClient}

\* Any RPC but Authenticate: CHECK_AUTH and, if it lets the call in, the rest.
Call(c) ==
    /\ clientPc[c] = "authenticated"
    /\ \E found \in Lookup(key[c]) :
         lastCall' = [lastCall EXCEPT ![c] = IF found THEN "served" ELSE "denied"]
    /\ UNCHANGED <<serverVars, setVars, authVars, reply, pass, clientPc, key,
                   keyEpoch, faults>>

\* The daemon exits; nothing tells the server.
ClientExits(c) ==
    /\ clientPc[c] \in {"authenticated", "failed"}
    /\ clientPc' = [clientPc EXCEPT ![c] = "gone"]
    /\ UNCHANGED <<serverVars, setVars, authVars, reply, pass, key, keyEpoch,
                   lastCall, faults>>

-----------------------------------------------------------------------------
ServerStep(c) ==
    CheckProof(c) \/ GenerateKey(c) \/ InsertBegins(c) \/ InsertEnds(c) \/ Prove(c)

Next ==
    \/ \E c \in Clients :
         \/ ServerStep(c)
         \/ SendProof(c) \/ ReceiveReply(c) \/ ConnectionLost(c)
         \/ Call(c) \/ ClientExits(c)
    \/ \E p \in Passphrases : ServerRestarts(p)

Spec == Init /\ [][Next]_vars

\* RPC threads run; a reply or the end of the stream reaches the client.
FairSpec ==
    Spec /\ \A c \in Clients : WF_vars(ServerStep(c)) /\ WF_vars(ReceiveReply(c))

-----------------------------------------------------------------------------
(***************************************************************************)
(* A key that opens the server belongs to a client with the passphrase the *)
(* server has NOW: over restarts, changed passphrases, keys issued to      *)
(* clients that have left and replies that arrive late.                    *)
(***************************************************************************)
AuthorisedKeys ==
    \A c \in Clients : key[c] \in sessions => pass[c] = serverPass

(***************************************************************************)
(* A session lives exactly as long as the server process that issued it:   *)
(* the key of an authenticated daemon is in the set from the moment the    *)
(* daemon has it (Authenticate inserts before it writes), nothing takes it *)
(* out while the server runs, and a restarted server does not know it.     *)
(***************************************************************************)
SessionLivesWithServer ==
    \A c \in Clients : clientPc[c] = "authenticated" =>
        (keyEpoch[c] = epoch <=> key[c] \in sessions)

(***************************************************************************)
(* The inductive invariant behind both.  A handler that is past the check  *)
(* serves a client with the server's passphrase; keys are drawn once; a    *)
(* reply that proves a passphrase carries the handler's key, and that key  *)
(* is in the set if and only if this server process wrote the reply; what  *)
(* a client has is what its reply said.                                    *)
(***************************************************************************)
HandlersOK ==
    /\ \A c \in Clients :
         /\ handler[c] \in {"generate", "insert", "inserting", "prove"}
              => pass[c] = serverPass
         /\ handler[c] \in {"none", "check", "generate"} => candidate[c] = NoKey
         /\ handler[c] \in {"insert", "inserting", "prove"} => candidate[c] \in Keys
         /\ handler[c] = "prove" => candidate[c] \in sessions
         /\ handler[c] = "none" <=> clientPc[c] = "idle"
    /\ \A c, d \in Clients :
         candidate[c] = candidate[d] /\ candidate[c] # NoKey => c = d

DrawnOK ==
    /\ sessions \subseteq drawn
    /\ \A c \in Clients : candidate[c] \in drawn \cup {NoKey}

ReplyOK(c) ==
    reply[c].proof # NoPass =>
        /\ handler[c] = "done"
        /\ reply[c].come /\ reply[c].key = candidate[c] /\ candidate[c] \in Keys
        /\ reply[c].epoch <= epoch
        /\ reply[c].epoch = epoch
             => reply[c].proof = serverPass /\ reply[c].key \in sessions
        /\ reply[c].epoch # epoch => reply[c].key \notin sessions

ClientOK(c) ==
    /\ key[c] # NoKey =>
         /\ clientPc[c] \notin {"idle", "sent"}
         /\ reply[c].proof = pass[c]
         /\ key[c] = reply[c].key /\ keyEpoch[c] = reply[c].epoch
    /\ clientPc[c] = "authenticated" => key[c] # NoKey

SessionsInv ==
    /\ TypeOK
    /\ HandlersOK
    /\ DrawnOK
    /\ \A c \in Clients : ReplyOK(c)
    /\ \A c \in Clients : ClientOK(c)

(***************************************************************************)
(* "Wrong passphrase." is what CHECK_AUTH answers when it refuses a call:  *)
(* a client that authenticated with the running server is only refused     *)
(* while another client's key is being inserted.                           *)
(***************************************************************************)
DeniedOnlyByRace ==
    [][\A c \in Clients :
         lastCall[c] # "denied" /\ lastCall'[c] = "denied" =>
            keyEpoch[c] # epoch \/ inserting # NoClient]_vars

(***************************************************************************)
(* An attempt to authenticate ends, whatever happens to the server or the  *)
(* connection meanwhile.                                                   *)
(***************************************************************************)
AttemptEnds ==
    \A c \in Clients : (clientPc[c] = "sent") ~> (clientPc[c] # "sent")
=============================================================================
