--------------------------- MODULE SessionsProofs ---------------------------
(***************************************************************************)
(* Theorems about Sessions, for every set of daemons, passphrases and keys *)
(* and every number of restarts and faults.                                *)
(***************************************************************************)
EXTENDS Sessions, TLAPS

(***************************************************************************)
(* The messages of the model are replies.                                  *)
(***************************************************************************)
LEMMA ReplyTypes ==
    /\ NoReply \in Replies /\ Refused \in Replies
    /\ Refused.proof = NoPass /\ Refused.come
    /\ TypeOK => \A k \in Keys : Granted(k) \in Replies
BY DEF NoReply, Refused, Granted, Replies, TypeOK

LEMMA SessionsInit == Init => SessionsInv
<1> SUFFICES ASSUME Init PROVE SessionsInv
  OBVIOUS
<1> USE SessionsAssumption DEF Init
<1>1. TypeOK
  BY ReplyTypes DEF TypeOK, HandlerPcs, ClientPcs
<1>2. HandlersOK /\ DrawnOK
  BY DEF HandlersOK, DrawnOK
<1>3. \A c \in Clients : ReplyOK(c) /\ ClientOK(c)
  BY DEF ReplyOK, ClientOK, NoReply
<1> QED
  BY <1>1, <1>2, <1>3 DEF SessionsInv

(***************************************************************************)
(* Every step keeps the types.                                             *)
(***************************************************************************)
LEMMA SessionsTypeStep == SessionsInv /\ [Next]_vars => TypeOK'
<1> SUFFICES ASSUME SessionsInv, [Next]_vars PROVE TypeOK'
  OBVIOUS
<1> USE SessionsAssumption, ReplyTypes DEF SessionsInv, TypeOK, HandlerPcs, ClientPcs,
      serverVars, setVars, clientVars, authVars
<1>1. ASSUME NEW c \in Clients, CheckProof(c) PROVE TypeOK'
  BY <1>1 DEF CheckProof
<1>2. ASSUME NEW c \in Clients, GenerateKey(c) PROVE TypeOK'
  BY <1>2 DEF GenerateKey
<1>3. ASSUME NEW c \in Clients, InsertBegins(c) PROVE TypeOK'
  BY <1>3 DEF InsertBegins
<1>4. ASSUME NEW c \in Clients, InsertEnds(c) PROVE TypeOK'
  BY <1>4 DEF InsertEnds, HandlersOK
<1>5. ASSUME NEW c \in Clients, Prove(c) PROVE TypeOK'
  BY <1>5 DEF Prove, HandlersOK
<1>6. ASSUME NEW c \in Clients, SendProof(c) PROVE TypeOK'
  BY <1>6 DEF SendProof
<1>7. ASSUME NEW c \in Clients, ReceiveReply(c) PROVE TypeOK'
  BY <1>7 DEF ReceiveReply, Replies
<1>8. ASSUME NEW c \in Clients, ConnectionLost(c) PROVE TypeOK'
  BY <1>8 DEF ConnectionLost
<1>9. ASSUME NEW c \in Clients, Call(c) PROVE TypeOK'
  BY <1>9 DEF Call
<1>10. ASSUME NEW c \in Clients, ClientExits(c) PROVE TypeOK'
  BY <1>10 DEF ClientExits
<1>11. ASSUME NEW p \in Passphrases, ServerRestarts(p) PROVE TypeOK'
  BY <1>11 DEF ServerRestarts
<1>12. CASE UNCHANGED vars
  BY <1>12 DEF vars, serverVars, setVars, authVars, clientVars
<1> QED
  BY <1>1, <1>2, <1>3, <1>4, <1>5, <1>6, <1>7, <1>8, <1>9, <1>10, <1>11, <1>12 DEF Next, ServerStep

(***************************************************************************)
(* Handlers past the check serve clients with the server's passphrase, and *)
(* no two of them hold one key.                                            *)
(***************************************************************************)
LEMMA HandlersStep == SessionsInv /\ [Next]_vars => HandlersOK'
<1> SUFFICES ASSUME SessionsInv, [Next]_vars PROVE HandlersOK'
  OBVIOUS
<1> USE SessionsAssumption, ReplyTypes DEF SessionsInv, TypeOK, HandlersOK,
      DrawnOK, ClientOK, serverVars, setVars, clientVars, authVars
<1>1. ASSUME NEW c \in Clients, CheckProof(c) PROVE HandlersOK'
  BY <1>1 DEF CheckProof
<1>2. ASSUME NEW c \in Clients, GenerateKey(c) PROVE HandlersOK'
  BY <1>2 DEF GenerateKey
<1>3. ASSUME NEW c \in Clients, InsertBegins(c) PROVE HandlersOK'
  BY <1>3 DEF InsertBegins
<1>4. ASSUME NEW c \in Clients, InsertEnds(c) PROVE HandlersOK'
  BY <1>4 DEF InsertEnds
<1>5. ASSUME NEW c \in Clients, Prove(c) PROVE HandlersOK'
  BY <1>5 DEF Prove
<1>6. ASSUME NEW c \in Clients, SendProof(c) PROVE HandlersOK'
  BY <1>6 DEF SendProof
<1>7. ASSUME NEW c \in Clients, ReceiveReply(c) PROVE HandlersOK'
  BY <1>7 DEF ReceiveReply
<1>8. ASSUME NEW c \in Clients, ConnectionLost(c) PROVE HandlersOK'
  BY <1>8 DEF ConnectionLost
<1>9. ASSUME NEW c \in Clients, Call(c) PROVE HandlersOK'
  BY <1>9 DEF Call
<1>10. ASSUME NEW c \in Clients, ClientExits(c) PROVE HandlersOK'
  BY <1>10 DEF ClientExits
<1>11. ASSUME NEW p \in Passphrases, ServerRestarts(p) PROVE HandlersOK'
  BY <1>11 DEF ServerRestarts
<1>12. CASE UNCHANGED vars
  BY <1>12 DEF vars, serverVars, setVars, authVars, clientVars
<1> QED
  BY <1>1, <1>2, <1>3, <1>4, <1>5, <1>6, <1>7, <1>8, <1>9, <1>10, <1>11, <1>12 DEF Next, ServerStep

(***************************************************************************)
(* Only drawn keys are handed out.                                         *)
(***************************************************************************)
LEMMA DrawnStep == SessionsInv /\ [Next]_vars => DrawnOK'
<1> SUFFICES ASSUME SessionsInv, [Next]_vars PROVE DrawnOK'
  OBVIOUS
<1> USE SessionsAssumption, ReplyTypes DEF SessionsInv, TypeOK, HandlersOK,
      DrawnOK, serverVars, setVars, clientVars, authVars
<1>1. ASSUME NEW c \in Clients, CheckProof(c) PROVE DrawnOK'
  BY <1>1 DEF CheckProof
<1>2. ASSUME NEW c \in Clients, GenerateKey(c) PROVE DrawnOK'
  BY <1>2 DEF GenerateKey
<1>3. ASSUME NEW c \in Clients, InsertBegins(c) PROVE DrawnOK'
  BY <1>3 DEF InsertBegins
<1>4. ASSUME NEW c \in Clients, InsertEnds(c) PROVE DrawnOK'
  BY <1>4 DEF InsertEnds
<1>5. ASSUME NEW c \in Clients, Prove(c) PROVE DrawnOK'
  BY <1>5 DEF Prove
<1>6. ASSUME NEW c \in Clients, SendProof(c) PROVE DrawnOK'
  BY <1>6 DEF SendProof
<1>7. ASSUME NEW c \in Clients, ReceiveReply(c) PROVE DrawnOK'
  BY <1>7 DEF ReceiveReply
<1>8. ASSUME NEW c \in Clients, ConnectionLost(c) PROVE DrawnOK'
  BY <1>8 DEF ConnectionLost
<1>9. ASSUME NEW c \in Clients, Call(c) PROVE DrawnOK'
  BY <1>9 DEF Call
<1>10. ASSUME NEW c \in Clients, ClientExits(c) PROVE DrawnOK'
  BY <1>10 DEF ClientExits
<1>11. ASSUME NEW p \in Passphrases, ServerRestarts(p) PROVE DrawnOK'
  BY <1>11 DEF ServerRestarts
<1>12. CASE UNCHANGED vars
  BY <1>12 DEF vars, serverVars, setVars, authVars, clientVars
<1> QED
  BY <1>1, <1>2, <1>3, <1>4, <1>5, <1>6, <1>7, <1>8, <1>9, <1>10, <1>11, <1>12 DEF Next, ServerStep

(***************************************************************************)
(* The key in a reply is in the set exactly as long as the server that wrote *)
(* it runs.                                                                *)
(***************************************************************************)
LEMMA RepliesStep == SessionsInv /\ [Next]_vars => (\A d \in Clients : ReplyOK(d))'
<1> SUFFICES ASSUME SessionsInv, [Next]_vars PROVE (\A d \in Clients : ReplyOK(d))'
  OBVIOUS
<1> USE SessionsAssumption, ReplyTypes DEF SessionsInv, TypeOK, HandlersOK,
      ReplyOK, Granted, serverVars, setVars, clientVars, authVars
<1>1. ASSUME NEW c \in Clients, CheckProof(c) PROVE (\A d \in Clients : ReplyOK(d))'
  BY <1>1 DEF CheckProof
<1>2. ASSUME NEW c \in Clients, GenerateKey(c) PROVE (\A d \in Clients : ReplyOK(d))'
  BY <1>2 DEF GenerateKey
<1>3. ASSUME NEW c \in Clients, InsertBegins(c) PROVE (\A d \in Clients : ReplyOK(d))'
  BY <1>3 DEF InsertBegins
<1>4. ASSUME NEW c \in Clients, InsertEnds(c) PROVE (\A d \in Clients : ReplyOK(d))'
  BY <1>4 DEF InsertEnds
<1>5. ASSUME NEW c \in Clients, Prove(c) PROVE (\A d \in Clients : ReplyOK(d))'
  BY <1>5 DEF Prove
<1>6. ASSUME NEW c \in Clients, SendProof(c) PROVE (\A d \in Clients : ReplyOK(d))'
  BY <1>6 DEF SendProof
<1>7. ASSUME NEW c \in Clients, ReceiveReply(c) PROVE (\A d \in Clients : ReplyOK(d))'
  BY <1>7 DEF ReceiveReply
<1>8. ASSUME NEW c \in Clients, ConnectionLost(c) PROVE (\A d \in Clients : ReplyOK(d))'
  BY <1>8 DEF ConnectionLost
<1>9. ASSUME NEW c \in Clients, Call(c) PROVE (\A d \in Clients : ReplyOK(d))'
  BY <1>9 DEF Call
<1>10. ASSUME NEW c \in Clients, ClientExits(c) PROVE (\A d \in Clients : ReplyOK(d))'
  BY <1>10 DEF ClientExits
<1>11. ASSUME NEW p \in Passphrases, ServerRestarts(p) PROVE (\A d \in Clients : ReplyOK(d))'
  BY <1>11 DEF ServerRestarts, Replies
<1>12. CASE UNCHANGED vars
  BY <1>12 DEF vars, serverVars, setVars, authVars, clientVars
<1> QED
  BY <1>1, <1>2, <1>3, <1>4, <1>5, <1>6, <1>7, <1>8, <1>9, <1>10, <1>11, <1>12 DEF Next, ServerStep

(***************************************************************************)
(* A client keeps what its reply said.                                     *)
(***************************************************************************)
LEMMA ClientsStep == SessionsInv /\ [Next]_vars => (\A d \in Clients : ClientOK(d))'
<1> SUFFICES ASSUME SessionsInv, [Next]_vars PROVE (\A d \in Clients : ClientOK(d))'
  OBVIOUS
<1> USE SessionsAssumption, ReplyTypes DEF SessionsInv, TypeOK, HandlersOK,
      ReplyOK, ClientOK, serverVars, setVars, clientVars, authVars
<1>1. ASSUME NEW c \in Clients, CheckProof(c) PROVE (\A d \in Clients : ClientOK(d))'
  BY <1>1 DEF CheckProof
<1>2. ASSUME NEW c \in Clients, GenerateKey(c) PROVE (\A d \in Clients : ClientOK(d))'
  BY <1>2 DEF GenerateKey
<1>3. ASSUME NEW c \in Clients, InsertBegins(c) PROVE (\A d \in Clients : ClientOK(d))'
  BY <1>3 DEF InsertBegins
<1>4. ASSUME NEW c \in Clients, InsertEnds(c) PROVE (\A d \in Clients : ClientOK(d))'
  BY <1>4 DEF InsertEnds
<1>5. ASSUME NEW c \in Clients, Prove(c) PROVE (\A d \in Clients : ClientOK(d))'
  BY <1>5 DEF Prove
<1>6. ASSUME NEW c \in Clients, SendProof(c) PROVE (\A d \in Clients : ClientOK(d))'
  BY <1>6 DEF SendProof
<1>7. ASSUME NEW c \in Clients, ReceiveReply(c) PROVE (\A d \in Clients : ClientOK(d))'
  BY <1>7 DEF ReceiveReply
<1>8. ASSUME NEW c \in Clients, ConnectionLost(c) PROVE (\A d \in Clients : ClientOK(d))'
  BY <1>8 DEF ConnectionLost
<1>9. ASSUME NEW c \in Clients, Call(c) PROVE (\A d \in Clients : ClientOK(d))'
  BY <1>9 DEF Call
<1>10. ASSUME NEW c \in Clients, ClientExits(c) PROVE (\A d \in Clients : ClientOK(d))'
  BY <1>10 DEF ClientExits
<1>11. ASSUME NEW p \in Passphrases, ServerRestarts(p) PROVE (\A d \in Clients : ClientOK(d))'
  BY <1>11 DEF ServerRestarts
<1>12. CASE UNCHANGED vars
  BY <1>12 DEF vars, serverVars, setVars, authVars, clientVars
<1> QED
  BY <1>1, <1>2, <1>3, <1>4, <1>5, <1>6, <1>7, <1>8, <1>9, <1>10, <1>11, <1>12 DEF Next, ServerStep

(***************************************************************************)
(* The inductive invariant holds in every reachable state.                 *)
(***************************************************************************)
THEOREM SessionsInvariant == Spec => []SessionsInv
<1>1. SessionsInv /\ [Next]_vars => SessionsInv'
  <2> SUFFICES ASSUME SessionsInv, [Next]_vars PROVE SessionsInv'
    OBVIOUS
  <2> QED
    BY SessionsTypeStep, HandlersStep, DrawnStep, RepliesStep, ClientsStep
    DEF SessionsInv
<1> QED
  BY SessionsInit, <1>1, PTL DEF Spec

(***************************************************************************)
(* Every variable of the session protocol keeps its type.                  *)
(***************************************************************************)
THEOREM SessionsTypeCorrect == Spec => []TypeOK
<1>1. SessionsInv => TypeOK
  BY DEF SessionsInv
<1> QED
  BY <1>1, SessionsInvariant, PTL

LEMMA InvLives == SessionsInv => SessionLivesWithServer
BY SessionsAssumption DEF SessionsInv, SessionLivesWithServer, ReplyOK, ClientOK, TypeOK

(***************************************************************************)
(* A key opens the server exactly as long as the server process that       *)
(* issued it runs (Authenticate, check_auth).                              *)
(***************************************************************************)
THEOREM SessionsLiveWithServer == Spec => []SessionLivesWithServer
<1> QED
  BY InvLives, SessionsInvariant, PTL

(***************************************************************************)
(* Whoever has a key that opens the server knows the passphrase the server *)
(* has now, over restarts and changed passphrases (Authenticate).          *)
(***************************************************************************)
THEOREM KeysAreAuthorised == Spec => []AuthorisedKeys
<1>1. SessionsInv => AuthorisedKeys
  <2> SUFFICES ASSUME SessionsInv, NEW c \in Clients, key[c] \in sessions
              PROVE pass[c] = serverPass
    BY DEF AuthorisedKeys
  <2>1. key[c] # NoKey /\ pass[c] \in Passphrases
    BY SessionsAssumption DEF SessionsInv, TypeOK
  <2>2. reply[c].proof = pass[c] /\ key[c] = reply[c].key
    BY <2>1 DEF SessionsInv, ClientOK
  <2> QED
    BY <2>1, <2>2, SessionsAssumption DEF SessionsInv, ReplyOK
<1> QED
  BY <1>1, SessionsInvariant, PTL

(***************************************************************************)
(* A daemon authenticated with the running server is refused only while a  *)
(* key is being inserted: the race on the set is the only cause            *)
(* (CHECK_AUTH).                                                           *)
(***************************************************************************)
THEOREM DenialsAreRaces == Spec => DeniedOnlyByRace
<1> DEFINE OnlyByRace ==
      \A c \in Clients :
         lastCall[c] # "denied" /\ lastCall'[c] = "denied" =>
            keyEpoch[c] # epoch \/ inserting # NoClient
<1>1. SessionsInv /\ [Next]_vars => [OnlyByRace]_vars
  <2> SUFFICES ASSUME SessionsInv, [Next]_vars, NEW d \in Clients,
                      lastCall[d] # "denied", lastCall'[d] = "denied"
               PROVE  keyEpoch[d] # epoch \/ inserting # NoClient
    OBVIOUS
  <2>1. CASE Call(d)
    <3>1. FALSE \in Lookup(key[d]) /\ clientPc[d] = "authenticated"
      <4>1. PICK found \in Lookup(key[d]) :
              lastCall' = [lastCall EXCEPT ![d] = IF found THEN "served" ELSE "denied"]
        BY <2>1 DEF Call
      <4>2. found \in BOOLEAN
        BY DEF Lookup
      <4>3. found = FALSE
        BY <4>1, <4>2 DEF SessionsInv, TypeOK
      <4> QED
        BY <2>1, <4>3 DEF Call
    <3> QED
      BY <3>1, InvLives DEF SessionLivesWithServer, Lookup
  <2>2. CASE \E c \in Clients \ {d} : Call(c)
    BY <2>2 DEF Call, SessionsInv, TypeOK
  <2>3. CASE UNCHANGED lastCall
    BY <2>3
  <2>4. (\E c \in Clients : Call(c)) \/ UNCHANGED lastCall
    BY DEF Next, vars, ServerStep, CheckProof, GenerateKey, InsertBegins,
           InsertEnds, Prove, SendProof, ReceiveReply, ConnectionLost,
           ClientExits, ServerRestarts, clientVars
  <2> QED
    BY <2>1, <2>2, <2>3, <2>4
<1> QED
  BY <1>1, SessionsInvariant, PTL DEF Spec, DeniedOnlyByRace
=============================================================================
