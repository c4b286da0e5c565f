---------------------------- MODULE SignInProofs ----------------------------
(***************************************************************************)
(* Proofs about Zkp and SignIn: that a proof made with a generator is      *)
(* accepted with it, and with another for one digest only, and the         *)
(* invariants of signing in, for every prime order of the curve, every set *)
(* of digests, passphrases, settings and files.                            *)
(***************************************************************************)
EXTENDS SignIn, WellFoundedInduction, TLAPS

USE DEF Points, Infinity

-----------------------------------------------------------------------------
\* Remainders.

LEMMA RemainderBounds ==
    ASSUME NEW a \in Int, NEW n \in Nat, n > 0
    PROVE  a % n \in 0 .. (n - 1)
BY SMT

LEMMA QuotientExists ==
    ASSUME NEW a \in Int, NEW n \in Nat, n > 0
    PROVE  \E k \in Int : a % n = a - n * k
<1>1. a \div n \in Int /\ a = n * (a \div n) + (a % n) BY SMT
<1>2. a % n \in Int BY RemainderBounds
<1> QED BY <1>1, <1>2, SMT

LEMMA RemainderUnique ==
    ASSUME NEW a \in Int, NEW n \in Nat, n > 0, NEW k \in Int, NEW r \in 0 .. (n - 1),
           a = n * k + r
    PROVE  a % n = r
BY SMT

\* A multiple of n does not matter to the remainder.
LEMMA RemainderShift ==
    ASSUME NEW a \in Int, NEW b \in Int, NEW n \in Nat, n > 0, NEW k \in Int,
           a = b + n * k
    PROVE  a % n = b % n
<1>1. PICK l \in Int : b % n = b - n * l BY QuotientExists
<1>2. PICK m \in Int : m = k + l OBVIOUS
<1>3. PICK r \in 0 .. (n - 1) : r = b % n BY RemainderBounds
<1>4. a = n * m + r
  <2>1. n * m = n * k + n * l BY <1>2, SMT
  <2>2. n * k \in Int /\ n * l \in Int BY SMT
  <2> QED BY <1>1, <1>3, <2>1, <2>2, SMT
<1>5. a % n = r BY <1>4, RemainderUnique
<1> QED BY <1>3, <1>5

-----------------------------------------------------------------------------
\* Points and proofs.

LEMMA OrderIsNat == Order \in Nat /\ Order > 0 /\ Order > 3
BY ZkpAssumption

LEMMA OneIsPoint == 1 \in Points /\ 1 # 0
BY OrderIsNat

\* A point other than infinity times a number below the order is not infinity.
LEMMA NotInfinity ==
    ASSUME NEW g \in Points, g # 0, NEW x \in Points, x # 0
    PROVE  Times(g, x) \in Points /\ Times(g, x) # 0
<1>1. g \in 1 .. (Order - 1) /\ x \in 1 .. (Order - 1) BY OrderIsNat
<1>2. g * x \in Int BY <1>1, SMT
<1>3. (g * x) % Order \in 0 .. (Order - 1) BY <1>2, OrderIsNat, RemainderBounds
<1>4. (g * x) % Order # 0 BY <1>1, OrderIsPrime
<1> QED BY <1>3, <1>4 DEF Times

LEMMA PrivateKeyIsPoint ==
    ASSUME NEW x \in PrivateKeys PROVE x \in Points /\ x # 0 /\ x \in Int
BY OrderIsNat DEF PrivateKeys

\* The sum that check_zkp computes from a proof made with the same generator and
\* challenge differs from V by a multiple of the order.
LEMMA SumOfProof ==
    ASSUME NEW g \in Int, NEW x \in Int, NEW v \in Int, NEW c \in Int, NEW n \in Int,
           NEW k1 \in Int, NEW k2 \in Int, NEW k3 \in Int
    PROVE  (g * ((v - (x * c - n * k1)) - n * k2)) + ((g * x - n * k3) * c)
               = g * v + n * ((g * k1 - g * k2) - k3 * c)
BY SMT

LEMMA ChallengeIsInt ==
    ASSUME NEW c \in Challenges PROVE c \in Int
BY ZkpAssumption

LEMMA PointIsInt ==
    ASSUME NEW g \in Points PROVE g \in Int
BY OrderIsNat

LEMMA ModOrder ==
    \A a \in Int : a % Order \in Points /\ \E k \in Int : a % Order = a - Order * k
<1>1. TAKE a \in Int
<1>2. a % Order \in 0 .. (Order - 1) BY OrderIsNat, RemainderBounds
<1>3. \E k \in Int : a % Order = a - Order * k BY OrderIsNat, QuotientExists
<1> QED BY <1>2, <1>3

LEMMA ShiftOrder ==
    \A a, b, k \in Int : a = b + Order * k => a % Order = b % Order
<1>1. TAKE a, b, k \in Int
<1>2. HAVE a = b + Order * k
<1> QED BY <1>2, OrderIsNat, RemainderShift, Zenon

LEMMA TimesType ==
    ASSUME NEW a \in Int, NEW b \in Int
    PROVE  /\ a * b \in Int
           /\ Times(a, b) \in Points
           /\ \E k \in Int : Times(a, b) = a * b - Order * k
<1>1. a * b \in Int BY SMT
<1>2. (a * b) % Order \in 0 .. (Order - 1) BY <1>1, OrderIsNat, RemainderBounds
<1>3. \E k \in Int : (a * b) % Order = a * b - Order * k
  BY <1>1, OrderIsNat, QuotientExists
<1> QED BY <1>1, <1>2, <1>3 DEF Times

LEMMA ResponseType ==
    \A x, v, c \in Int :
        /\ (v - ((x * c) % Order)) % Order \in Points
        /\ \E k1, k2 \in Int : (v - ((x * c) % Order)) % Order
                                = (v - (x * c - Order * k1)) - Order * k2
<1>1. TAKE x, v, c \in Int
<1>2. x * c \in Int BY SMT
<1>3. PICK k1 \in Int : (x * c) % Order = x * c - Order * k1
  BY <1>2, OrderIsNat, QuotientExists
<1>4. PICK m \in Int : m = v - ((x * c) % Order)
  <2>1. Order * k1 \in Int BY OrderIsNat, SMT
  <2> QED BY <1>2, <1>3, <2>1
<1>5. m % Order \in Points BY ModOrder, Zenon
<1>6. PICK k2 \in Int : m % Order = m - Order * k2 BY ModOrder, Zenon
<1>7. m % Order = (v - (x * c - Order * k1)) - Order * k2 BY <1>3, <1>4, <1>6
<1> QED BY <1>4, <1>5, <1>7

(***************************************************************************)
(* Completeness, of make_zkp and check_zkp: a proof is accepted by whoever *)
(* uses the generator it was made with, whatever keys were drawn and       *)
(* although the digest is not reduced by the order.                        *)
(***************************************************************************)
LEMMA ProofFits ==
    ASSUME NEW g \in Points, NEW x \in Int, NEW v \in Int, NEW c \in Int, NEW by
    PROVE  Fits(MakeZkp(by, x, v, c, g), Times(g, x), c, g)
<1> DEFINE z == MakeZkp(by, x, v, c, g)
<1>1. z.V = Times(g, v) /\ z.r = (v - ((x * c) % Order)) % Order BY DEF MakeZkp
<1> HIDE DEF z
<1>2. g \in Int /\ Order \in Int BY PointIsInt, OrderIsNat
<1>3. PICK k1, k2 \in Int : z.r = (v - (x * c - Order * k1)) - Order * k2
  <2>1. \E k1, k2 \in Int : (v - ((x * c) % Order)) % Order
                              = (v - (x * c - Order * k1)) - Order * k2
    BY ResponseType, Zenon
  <2> QED BY <1>1, <2>1, Zenon
<1>4. PICK k3 \in Int : Times(g, x) = g * x - Order * k3 BY <1>2, TimesType
<1>5. PICK m \in Int : m = g * v BY <1>2, TimesType
<1>6. PICK k \in Int : k = (g * k1 - g * k2) - k3 * c
  <2>1. g * k1 \in Int /\ g * k2 \in Int /\ k3 * c \in Int BY <1>2, SMT
  <2> QED BY <2>1
<1>7. PICK s \in Int : s = (g * z.r) + (Times(g, x) * c)
  <2>1. z.r \in Int /\ Times(g, x) \in Int
    BY <1>1, <1>2, ResponseType, TimesType, OrderIsNat
  <2>2. g * z.r \in Int /\ Times(g, x) * c \in Int BY <1>2, <2>1, SMT
  <2> QED BY <2>2
<1>8. s = m + Order * k BY <1>2, <1>3, <1>4, <1>5, <1>6, <1>7, SumOfProof
<1>9. s % Order = m % Order BY <1>8, ShiftOrder, Zenon
<1> QED BY <1>1, <1>5, <1>7, <1>9 DEF Fits, Times, z

THEOREM ProofAccepted ==
    ASSUME NEW g \in Points, g # 0, NEW x \in PrivateKeys, NEW v \in PrivateKeys,
           NEW c \in Challenges, NEW by, NEW id, by # id, by # ""
    PROVE  CheckZkp(MakeZkp(by, x, v, c, g), Times(g, x), c, id, g)
<1>1. Fits(MakeZkp(by, x, v, c, g), Times(g, x), c, g)
  BY ProofFits, PrivateKeyIsPoint, ChallengeIsInt
<1>2. Times(g, x) \in Points /\ Times(g, x) # 0 BY NotInfinity, PrivateKeyIsPoint
<1>3. Times(Times(g, x), 1) # 0
  BY <1>2, OneIsPoint, NotInfinity, Zenon
<1>4. Times(g, v) # 0 BY NotInfinity, PrivateKeyIsPoint
<1>5. /\ MakeZkp(by, x, v, c, g).V = Times(g, v)
      /\ MakeZkp(by, x, v, c, g).user_id = by
  BY DEF MakeZkp
<1> QED BY <1>1, <1>2, <1>3, <1>4, <1>5, Zenon DEF CheckZkp

(***************************************************************************)
(* What one challenge was accepted for is not accepted for another: if     *)
(* check_zkp's sum is the same point with c and with d, then c and d are   *)
(* equal modulo the order.                                                 *)
(***************************************************************************)
LEMMA SumsDiffer ==
    ASSUME NEW a \in Int, NEW p \in Int, NEW c \in Int, NEW d \in Int, NEW n \in Int,
           NEW k1 \in Int, NEW k2 \in Int, NEW k3 \in Int, NEW e \in Int,
           (a + p * c) - n * k1 = (a + p * d) - n * k2,
           e = (c - d) - n * k3
    PROVE  p * e = 0 + n * ((k1 - k2) - p * k3)
<1>1. p * e = (p * c - p * d) - n * (p * k3) BY SMT
<1>2. n * ((k1 - k2) - p * k3) = (n * k1 - n * k2) - n * (p * k3) BY SMT
<1>3. p * c - p * d = n * k1 - n * k2
  <2>1. p * c \in Int /\ p * d \in Int /\ n * k1 \in Int /\ n * k2 \in Int BY SMT
  <2> QED BY <2>1
<1>4. n * (p * k3) \in Int /\ n * k1 \in Int /\ n * k2 \in Int BY SMT
<1> QED BY <1>1, <1>2, <1>3, <1>4

LEMMA ChallengesAgree ==
    ASSUME NEW a \in Int, NEW p \in Points, p # 0, NEW c \in Int, NEW d \in Int,
           (a + (p * c)) % Order = (a + (p * d)) % Order
    PROVE  c % Order = d % Order
<1>1. p \in Int /\ Order \in Int BY PointIsInt, OrderIsNat
<1>2. p * c \in Int /\ p * d \in Int BY <1>1, SMT
<1>. /\ a + (p * c) \in Int
     /\ a + (p * d) \in Int
  BY <1>2
<1>3. PICK k1 \in Int : (a + (p * c)) % Order = (a + p * c) - Order * k1
  BY ModOrder, Zenon
<1>4. PICK k2 \in Int : (a + (p * d)) % Order = (a + p * d) - Order * k2
  BY ModOrder, Zenon
<1>5. PICK e \in 0 .. (Order - 1) : e = (c - d) % Order
  BY OrderIsNat, RemainderBounds
<1>6. PICK k3 \in Int : e = (c - d) - Order * k3
  <2>1. c - d \in Int OBVIOUS
  <2>2. \E k \in Int : (c - d) % Order = (c - d) - Order * k BY <2>1, ModOrder, Zenon
  <2> QED BY <1>5, <2>2
<1>7. PICK k \in Int : k = (k1 - k2) - p * k3
  <2>1. p * k3 \in Int BY <1>1, SMT
  <2> QED BY <2>1
<1>8. p * e = 0 + Order * k
  BY <1>1, <1>3, <1>4, <1>6, <1>7, SumsDiffer
<1>9. (p * e) % Order = 0
  <2>1. 0 % Order = 0 BY OrderIsNat, SMT
  <2>2. p * e \in Int /\ 0 \in Int BY <1>1, SMT
  <2> QED BY <1>8, <2>1, <2>2, ShiftOrder, Zenon
<1>10. e = 0
  <2>1. SUFFICES ASSUME e # 0 PROVE FALSE OBVIOUS
  <2>2. e \in 1 .. (Order - 1) /\ p \in 1 .. (Order - 1) BY <2>1, OrderIsNat
  <2> QED BY <1>9, <2>2, OrderIsPrime
<1>11. c = d + Order * k3
  <2>1. Order * k3 \in Int BY <1>1, SMT
  <2> QED BY <1>6, <1>10, <2>1
<1> QED BY <1>11, ShiftOrder, Zenon

-----------------------------------------------------------------------------
\* The generator of a passphrase is a point other than infinity.

LEMMA LeastOf ==
    ASSUME NEW T \in SUBSET Nat, T # {}
    PROVE  \E x \in T : \A y \in T : x <= y
<1> DEFINE R == OpToRel(<, Nat)
<1>1. IsWellFoundedOn(R, Nat) BY NatLessThanWellFounded
<1>2. R = {ss \in Nat \X Nat : ss[1] < ss[2]} BY Zenon DEF OpToRel
<1> HIDE DEF R
<1>3. PICK x \in T : \A y \in T : ~ (<<y, x>> \in R) BY <1>1, WFMin
<1>4. \A y \in T : ~(y < x) BY <1>2, <1>3
<1> QED BY <1>4

LEMMA GeneratorIsPoint ==
    \A p \in Passphrases : MakeGenerator(p) \in Points /\ MakeGenerator(p) # 0
<1>1. TAKE p \in Passphrases
<1> DEFINE digests == Digests[p]
           usable == {i \in DOMAIN digests : digests[i] % Order # 0}
           first == CHOOSE i \in usable : \A j \in usable : i <= j
<1>2. digests \in Seq(Nat) BY ZkpAssumption
<1>3. usable \in SUBSET Nat /\ usable # {} BY <1>2, ZkpAssumption
<1>4. first \in usable BY <1>3, LeastOf
<1>5. MakeGenerator(p) = digests[first] % Order BY DEF MakeGenerator
<1>6. first \in DOMAIN digests /\ digests[first] % Order # 0 BY <1>4
<1> HIDE DEF first, usable
<1>7. digests[first] \in Int BY <1>2, <1>6
<1> HIDE DEF digests
<1>8. digests[first] % Order \in Points BY <1>7, ModOrder
<1> QED BY <1>5, <1>6, <1>8

-----------------------------------------------------------------------------
\* Settings and lines.

\* d is c with a value for k, if it is not empty.
Wrote(c, d, k, value) ==
    /\ d \in Configs
    /\ d.state = c.state
    /\ \A key \in Keys : d.map[key] = IF key = k /\ value # "" THEN value ELSE c.map[key]

LEMMA SetResult ==
    \A c \in Configs, k \in Keys, v \in Texts : Wrote(c, Set(c, k, v), k, v)
BY DEF Set, Configs, Wrote

LEMMA OptionsAreKeys == Options \subseteq Keys
BY SignInAssumption

LEMMA WithOptionResult ==
    ASSUME NEW args \in [Options -> Texts]
    PROVE  \A c \in Configs, k \in Options : Wrote(c, WithOption(c, k, args), k, args[k])
<1>1. TAKE c \in Configs, k \in Options
<1>2. args[k] \in Texts BY SMT
<1>3. k \in Keys BY OptionsAreKeys
<1> QED BY <1>2, <1>3, SetResult, Zenon DEF WithOption

LEMMA LineType ==
    ASSUME NEW l \in Lines, l.kind = "setting"
    PROVE  l.key \in Keys /\ l.value \in Texts
BY DEF Lines

LEMMA ReadLineResult ==
    ASSUME NEW c \in Configs, NEW l \in Lines
    PROVE  /\ ReadLine(c, l) \in Configs
           /\ ReadLine(c, l).state = c.state
           /\ \A key \in Keys : ReadLine(c, l).map[key]
                                  = IF Sets(l, key) THEN l.value ELSE c.map[key]
<1>1. CASE l.kind = "setting" BY <1>1, LineType DEF ReadLine, Configs, Sets
<1>2. CASE l.kind # "setting" BY <1>2 DEF ReadLine, Configs, Sets
<1> QED BY <1>1, <1>2

LEMMA LeftByNothing ==
    ASSUME NEW lines, NEW key PROVE LeftBy(lines, 0, key, "")
BY DEF LeftBy

\* The next line leaves its value to the setting it sets, and others alone.
LEMMA LeftByNext ==
    ASSUME NEW lines, NEW n \in Nat, NEW key, NEW value, LeftBy(lines, n, key, value)
    PROVE  LeftBy(lines, n + 1, key,
                  IF Sets(lines[n + 1], key) THEN lines[n + 1].value ELSE value)
<1>1. CASE Sets(lines[n + 1], key)
  <2>1. \A j \in ((n + 1) + 1) .. (n + 1) : ~Sets(lines[j], key) OBVIOUS
  <2>2. n + 1 \in 1 .. (n + 1) OBVIOUS
  <2> QED BY <1>1, <2>1, <2>2, Zenon DEF LeftBy
<1>2. CASE ~Sets(lines[n + 1], key)
  <2>1. \A i \in 1 .. (n + 1) : i \in 1 .. n \/ i = n + 1 OBVIOUS
  <2>2. CASE value = "" /\ \A i \in 1 .. n : ~Sets(lines[i], key)
    <3>1. \A i \in 1 .. (n + 1) : ~Sets(lines[i], key) BY <1>2, <2>1, <2>2
    <3> QED BY <1>2, <2>2, <3>1 DEF LeftBy
  <2>3. CASE \E i \in 1 .. n : /\ Sets(lines[i], key) /\ lines[i].value = value
                             /\ \A j \in (i + 1) .. n : ~Sets(lines[j], key)
    <3>1. PICK i \in 1 .. n : /\ Sets(lines[i], key) /\ lines[i].value = value
                             /\ \A j \in (i + 1) .. n : ~Sets(lines[j], key)
      BY <2>3
    <3>2. \A j \in (i + 1) .. (n + 1) : j \in (i + 1) .. n \/ j = n + 1 OBVIOUS
    <3>3. \A j \in (i + 1) .. (n + 1) : ~Sets(lines[j], key) BY <1>2, <3>1, <3>2
    <3>4. i \in 1 .. (n + 1) OBVIOUS
    <3> QED BY <1>2, <3>1, <3>3, <3>4 DEF LeftBy
  <2> QED BY <2>2, <2>3 DEF LeftBy
<1> QED BY <1>1, <1>2

\* d is c with the arguments that are not empty, as far as the given keys show.
SetBy(c, d, args, keys) ==
    /\ d \in Configs
    /\ d.state = c.state
    /\ \A key \in keys : d.map[key] = IF key \in Options /\ args[key] # ""
                                      THEN args[key] ELSE c.map[key]

\* The settings of the server after its arguments, and of the daemon after its own.
LEMMA ServerSets ==
    ASSUME NEW c \in Configs, NEW args \in [Options -> Texts], NEW port, NEW cert, NEW full,
           port = WithOption(c, "grpc_port", args),
           cert = WithOption(Set(port, "cert_port", "0"), "cert_port", args),
           full = WithOption(cert, "passphrase", args)
    PROVE  /\ SetBy(c, port, args, {})
           /\ SetBy(c, full, args, {"grpc_port", "passphrase"})
<1>1. /\ {"grpc_port", "cert_port", "passphrase"} \subseteq Options
      /\ {"grpc_port", "cert_port", "passphrase"} \subseteq Keys
      /\ "0" \in Texts
  BY SignInAssumption DEF Options
<1>2. Wrote(c, port, "grpc_port", args["grpc_port"])
  BY <1>1, WithOptionResult, Zenon
<1>3. PICK zero : zero = Set(port, "cert_port", "0") OBVIOUS
<1>4. Wrote(port, zero, "cert_port", "0")
  <2>1. port \in Configs BY <1>2 DEF Wrote
  <2>2. "cert_port" \in Keys /\ "0" \in Texts BY <1>1
  <2> QED BY <1>3, <2>1, <2>2, SetResult, Zenon
<1>5. Wrote(zero, cert, "cert_port", args["cert_port"])
  <2>1. zero \in Configs /\ "cert_port" \in Options BY <1>1, <1>4 DEF Wrote
  <2> QED BY <1>3, <2>1, WithOptionResult, Zenon
<1>6. Wrote(cert, full, "passphrase", args["passphrase"])
  <2>1. cert \in Configs /\ "passphrase" \in Options BY <1>1, <1>5 DEF Wrote
  <2> QED BY <2>1, WithOptionResult, Zenon
<1> HIDE DEF Configs
<1>7. /\ full.map["grpc_port"] = port.map["grpc_port"]
      /\ port.map["grpc_port"]
            = IF args["grpc_port"] # "" THEN args["grpc_port"] ELSE c.map["grpc_port"]
  BY <1>1, <1>2, <1>4, <1>5, <1>6 DEF Wrote
<1>8. full.map["passphrase"]
        = IF args["passphrase"] # "" THEN args["passphrase"] ELSE c.map["passphrase"]
  BY <1>1, <1>2, <1>4, <1>5, <1>6 DEF Wrote
<1>9. /\ port \in Configs /\ full \in Configs
      /\ port.state = c.state /\ full.state = c.state
  BY <1>2, <1>4, <1>5, <1>6 DEF Wrote
<1> QED BY <1>1, <1>7, <1>8, <1>9 DEF SetBy

LEMMA DaemonSets ==
    ASSUME NEW c \in Configs, NEW args \in [Options -> Texts],
           NEW port, NEW host, NEW cert, NEW full, NEW final,
           port = WithOption(c, "grpc_port", args),
           host = WithOption(port, "grpc_host", args),
           cert = WithOption(host, "cert_port", args),
           full = WithOption(cert, "passphrase", args),
           final \in {full, Set(full, "cert_port", "0")}
    PROVE  /\ SetBy(c, full, args, Keys \ {"cert_port"})
           /\ SetBy(c, final, args, Keys \ {"cert_port"})
<1>1. /\ Options = {"grpc_port", "cert_port", "grpc_host", "passphrase"}
      /\ Options \subseteq Keys /\ "0" \in Texts
  BY SignInAssumption DEF Options
<1>2. Wrote(c, port, "grpc_port", args["grpc_port"])
  <2>1. "grpc_port" \in Options BY <1>1
  <2> QED BY <2>1, WithOptionResult, Zenon
<1>3. Wrote(port, host, "grpc_host", args["grpc_host"])
  <2>1. port \in Configs /\ "grpc_host" \in Options BY <1>1, <1>2 DEF Wrote
  <2> QED BY <2>1, WithOptionResult, Zenon
<1>4. Wrote(host, cert, "cert_port", args["cert_port"])
  <2>1. host \in Configs /\ "cert_port" \in Options BY <1>1, <1>3 DEF Wrote
  <2> QED BY <2>1, WithOptionResult, Zenon
<1>5. Wrote(cert, full, "passphrase", args["passphrase"])
  <2>1. cert \in Configs /\ "passphrase" \in Options BY <1>1, <1>4 DEF Wrote
  <2> QED BY <2>1, WithOptionResult, Zenon
<1>6. /\ full \in Configs
      /\ final = full \/ Wrote(full, final, "cert_port", "0")
  <2>1. full \in Configs BY <1>5 DEF Wrote
  <2>2. "cert_port" \in Keys /\ "0" \in Texts BY <1>1
  <2>3. Wrote(full, Set(full, "cert_port", "0"), "cert_port", "0")
    BY <2>1, <2>2, SetResult, Zenon
  <2> QED BY <2>1, <2>3
<1> HIDE DEF Configs
<1>7. /\ final \in Configs /\ final.state = c.state /\ full.state = c.state
  BY <1>2, <1>3, <1>4, <1>5, <1>6 DEF Wrote
<1>8. \A key \in Keys : key # "cert_port" => final.map[key] = full.map[key]
  BY <1>6 DEF Wrote
<1>9. \A key \in Keys : key # "cert_port" =>
        full.map[key] = IF key \in Options /\ args[key] # "" THEN args[key] ELSE c.map[key]
  <2>1. TAKE key \in Keys
  <2>2. HAVE key # "cert_port"
  <2>3. full.map[key] = IF key = "passphrase" /\ args["passphrase"] # ""
                        THEN args["passphrase"] ELSE host.map[key]
    BY <1>4, <1>5, <2>2 DEF Wrote
  <2>4. host.map[key] = IF key = "grpc_host" /\ args["grpc_host"] # ""
                        THEN args["grpc_host"] ELSE port.map[key]
    BY <1>3 DEF Wrote
  <2>5. port.map[key] = IF key = "grpc_port" /\ args["grpc_port"] # ""
                        THEN args["grpc_port"] ELSE c.map[key]
    BY <1>2 DEF Wrote
  <2> QED BY <1>1, <2>2, <2>3, <2>4, <2>5
<1> QED BY <1>6, <1>7, <1>8, <1>9 DEF SetBy

-----------------------------------------------------------------------------
\* Messages.

LEMMA GeneratorType ==
    ASSUME NEW p, HasPassphrase(p)
    PROVE  Generator(p) \in Points /\ Generator(p) # 0
<1>1. Get(config[p], "passphrase") \in Passphrases
  BY SignInAssumption DEF HasPassphrase
<1> QED BY <1>1, GeneratorIsPoint, Zenon DEF Generator

LEMMA MessageType ==
    ASSUME NEW by \in {"client", "server"}, NEW g \in Points, NEW m \in NewMessage(by, g)
    PROVE  m \in Messages
<1>1. PICK x \in PrivateKeys, v \in PrivateKeys, c \in Challenges :
        m = [by |-> by, zkp |-> MakeZkp(by, x, v, c, g), public_key |-> Times(g, x),
             generator |-> g, challenge |-> c]
  BY DEF NewMessage
<1>2. x \in Int /\ v \in Int /\ c \in Int /\ g \in Int
  BY PrivateKeyIsPoint, ChallengeIsInt, PointIsInt
<1>3. Times(g, x) \in Points /\ Times(g, v) \in Points BY <1>2, TimesType
<1>4. (v - ((x * c) % Order)) % Order \in Points BY <1>2, ResponseType, Zenon
<1> HIDE DEF Points
<1>5. MakeZkp(by, x, v, c, g) \in Zkps BY <1>3, <1>4 DEF MakeZkp, Zkps
<1> QED BY <1>1, <1>3, <1>5 DEF Messages

(***************************************************************************)
(* Soundness, of check_zkp against make_zkp: a proof made with generator g *)
(* and accepted with generator h was accepted for the one digest, modulo   *)
(* the order, by which the two sums come out alike.                        *)
(***************************************************************************)
LEMMA SumsAlike ==
    ASSUME NEW p \in Int, NEW c \in Int, NEW d \in Int, NEW r \in Int, NEW g \in Int,
           NEW h \in Int, NEW n \in Int, NEW k \in Int, NEW l \in Int,
           ((g * r) + (p * d)) - n * k = ((h * r) + (p * c)) - n * l
    PROVE  p * c = ((p * d) + ((g - h) * r)) + n * (l - k)
<1>1. (g - h) * r = g * r - h * r BY SMT
<1>2. n * (l - k) = n * l - n * k BY SMT
<1>3. /\ g * r \in Int /\ h * r \in Int /\ p * d \in Int /\ p * c \in Int
      /\ n * l \in Int /\ n * k \in Int
  BY SMT
<1> QED BY <1>1, <1>2, <1>3

LEMMA AcceptedByChance ==
    ASSUME NEW by \in {"client", "server"}, NEW g \in Points, g # 0,
           NEW m \in NewMessage(by, g), NEW h \in Points,
           NEW c \in Challenges, Fits(m.zkp, m.public_key, c, h)
    PROVE  c % Order = ByChance(m, h)
<1>1. PICK x \in PrivateKeys, v \in PrivateKeys, d \in Challenges :
        m = [by |-> by, zkp |-> MakeZkp(by, x, v, d, g), public_key |-> Times(g, x),
             generator |-> g, challenge |-> d]
  BY DEF NewMessage
<1>2. x \in Int /\ v \in Int /\ d \in Int /\ c \in Int /\ g \in Int /\ h \in Int
  BY PrivateKeyIsPoint, ChallengeIsInt, PointIsInt
<1>3. PICK p \in Points : p = m.public_key /\ p # 0
  BY <1>1, PrivateKeyIsPoint, NotInfinity
<1>4. PICK r \in Points : r = m.zkp.r
  <2> HIDE DEF Points
  <2>1. m \in Messages BY MessageType
  <2> QED BY <2>1 DEF Messages, Zkps
<1>5. p \in Int /\ r \in Int BY PointIsInt
<1>6. Fits(m.zkp, p, d, g)
  <2> HIDE DEF Points
  <2>1. Fits(MakeZkp(by, x, v, d, g), Times(g, x), d, g) BY <1>2, ProofFits
  <2> QED BY <1>1, <1>3, <2>1
<1>7. ((g * r) + (p * d)) % Order = ((h * r) + (p * c)) % Order
  BY <1>3, <1>4, <1>6, Zenon DEF Fits
<1>8. (p * (c % Order)) % Order = ((p * d) + ((g - h) * r)) % Order
  <2> HIDE DEF Points
  <2>0. /\ p \in Int /\ c \in Int /\ d \in Int
        /\ r \in Int /\ g \in Int /\ h \in Int
    BY <1>2, <1>5
  <2>1. /\ (g * r) + (p * d) \in Int /\ (h * r) + (p * c) \in Int
        /\ (p * d) + ((g - h) * r) \in Int /\ p * c \in Int /\ Order \in Int
    <3>1. /\ g * r \in Int /\ h * r \in Int /\ p * d \in Int /\ p * c \in Int
          /\ (g - h) * r \in Int
      BY <2>0, SMT
    <3> QED BY <3>1, OrderIsNat
  <2>2. PICK a \in Int : a = (g * r) + (p * d) BY <2>1
  <2>3. PICK b \in Int : b = (h * r) + (p * c) BY <2>1
  <2>4. PICK s \in Int : s = (p * d) + ((g - h) * r) BY <2>1
  <2>5. PICK k \in Int : a % Order = a - Order * k BY ModOrder, Zenon
  <2>6. PICK l \in Int : b % Order = b - Order * l BY ModOrder, Zenon
  <2>7. PICK i \in Int : c % Order = c - Order * i BY <2>0, ModOrder, Zenon
  <2>8. p * c = s + Order * (l - k)
    BY <1>7, <2>0, <2>1, <2>2, <2>3, <2>4, <2>5, <2>6, SumsAlike
  <2>9. p * (c % Order) = s + Order * ((l - k) - p * i)
    <3>1. p * (c - Order * i) = p * c - Order * (p * i) BY <2>0, <2>1, SMT
    <3>2. Order * ((l - k) - p * i) = Order * (l - k) - Order * (p * i) BY <2>0, <2>1, SMT
    <3>3. Order * (p * i) \in Int /\ Order * (l - k) \in Int BY <2>0, <2>1, SMT
    <3> QED BY <2>1, <2>7, <2>8, <3>1, <3>2, <3>3
  <2>10. PICK t \in Int : t = p * (c % Order)
    <3>1. c % Order \in Int BY <2>0, <2>1, <2>7, SMT
    <3> QED BY <2>0, <3>1, SMT
  <2>11. PICK j \in Int : j = (l - k) - p * i
    <3>1. p * i \in Int BY <2>0, SMT
    <3> QED BY <3>1
  <2>12. t % Order = s % Order
    <3>1. t = s + Order * j BY <2>9, <2>10, <2>11
    <3> QED BY <3>1, ShiftOrder, Zenon
  <2> QED BY <2>4, <2>10, <2>12, Zenon
<1> DEFINE Alike(e) == (p * e) % Order = ((p * d) + ((g - h) * r)) % Order
<1>9. c % Order \in Points BY <1>2, ModOrder, Zenon
<1>10. ASSUME NEW e \in Points, Alike(e) PROVE e = c % Order
  <2>1. PICK f \in Points : f = c % Order BY <1>9
  <2>2. (p * e) % Order = (p * f) % Order BY <1>8, <1>10, <2>1
  <2>3. e \in Int /\ f \in Int BY PointIsInt
  <2>4. (0 + (p * e)) % Order = (0 + (p * f)) % Order
    <3>1. p * e \in Int /\ p * f \in Int BY <1>5, <2>3, SMT
    <3>2. 0 + (p * e) = p * e /\ 0 + (p * f) = p * f BY <3>1
    <3> QED BY <2>2, <3>2, Zenon
  <2>5. e % Order = f % Order
    <3>1. 0 \in Int OBVIOUS
    <3> HIDE DEF Points
    <3> QED BY <1>3, <2>3, <2>4, <3>1, ChallengesAgree
  <2>6. e % Order = e /\ f % Order = f BY OrderIsNat, SMT
  <2> QED BY <2>1, <2>5, <2>6
<1>11. ByChance(m, h) = CHOOSE e \in Points : Alike(e)
  BY <1>1, <1>3, <1>4 DEF ByChance
<1> HIDE DEF Alike, Points
<1> QED BY <1>8, <1>9, <1>10, <1>11

\* The other side accepts it if it has the same generator and another id.
LEMMA MessageAccepted ==
    ASSUME NEW by \in {"client", "server"}, NEW id, by # id, NEW g \in Points, g # 0,
           NEW m \in NewMessage(by, g)
    PROVE  CheckZkp(m.zkp, m.public_key, m.challenge, id, g) /\ m.generator = g
<1>1. PICK x \in PrivateKeys, v \in PrivateKeys, c \in Challenges :
        m = [by |-> by, zkp |-> MakeZkp(by, x, v, c, g), public_key |-> Times(g, x),
             generator |-> g, challenge |-> c]
  BY DEF NewMessage
<1>2. CheckZkp(MakeZkp(by, x, v, c, g), Times(g, x), c, id, g)
  <2>1. by # "" OBVIOUS
  <2> HIDE DEF Points
  <2> QED BY <2>1, ProofAccepted
<1> QED BY <1>1, <1>2

-----------------------------------------------------------------------------
\* The invariant.  First what the early steps, of either process alone, have in
\* common: nothing is on the way, and the other process is left alone.

USE DEF Processes

LEMMA NothingSentYet ==
    ASSUME SignInInv,
           \/ stage["server"] \in Early \cup {"CONFIGURED", "CERTIFIED", "ENDED"}
           \/ stage["daemon"] \in Early \cup {"CONFIG_INITIALIZED", "GRPC_CLIENT_INITIALIZED"}
    PROVE  message = NoMessage
BY DEF SignInInv, ExchangeOrder, Early

LEMMA StillNothingSent ==
    ASSUME message' = NoMessage,
           stage'["server"] \in Early \cup {"CONFIGURED", "CERTIFIED", "LISTENING", "ENDED"},
           stage'["daemon"] \notin {"PROVED", "AUTHENTICATED"}, TypeOK',
           stage'["server"] \in ServerStages => HasPassphrase("server")',
           stage'["daemon"] \in DaemonStages => HasPassphrase("daemon")',
           stage'["daemon"] = "GRPC_CLIENT_INITIALIZED" => stage'["server"] = "LISTENING"
    PROVE  ExchangeOrder' /\ AgreementSuffices' /\ AcceptedFits'
BY DEF ExchangeOrder, AgreementSuffices, AcceptedFits, Early, TypeOK, DaemonStages

LEMMA ProcessLeftAlone ==
    ASSUME NEW p, given'[p] = given[p], config'[p] = config[p],
           line'[p] = line[p], stage'[p] = stage[p]
    PROVE  /\ ReadBy(p) => ReadBy(p)'
           /\ HasPassphrase(p) => HasPassphrase(p)'
           /\ \A key : Intended(p, key) => Intended(p, key)'
<1>1. ReadBy(p) => ReadBy(p)' BY DEF ReadBy
<1>2. HasPassphrase(p) => HasPassphrase(p)' BY DEF HasPassphrase, Get
<1>3. \A key : Intended(p, key) => Intended(p, key)' BY DEF Intended, Get
<1> QED BY <1>1, <1>2, <1>3

LEMMA EarlyStep ==
    ASSUME SignInInv, TypeOK', NEW p \in Processes,
           stage[p] \in Early, stage'[p] \in Early \cup {"ENDED"},
           \A q \in Processes \ {p} :
               /\ given'[q] = given[q] /\ config'[q] = config[q]
               /\ line'[q] = line[q] /\ stage'[q] = stage[q],
           message' = message, ReadBy(p)'
    PROVE  SignInInv'
<1>1. message = NoMessage BY NothingSentYet
<1>2. /\ stage'[p] \notin ServerStages /\ stage'[p] \notin DaemonStages
      /\ stage'[p] \notin {"PROVED", "AUTHENTICATED", "GRPC_CLIENT_INITIALIZED"}
  BY DEF Early, ServerStages, DaemonStages
<1>3. FileIsRead'
  <2>1. SUFFICES ASSUME NEW q \in Processes PROVE ReadBy(q)' BY DEF FileIsRead
  <2>2. CASE q = p BY <2>2
  <2>3. CASE q # p BY <2>3, ProcessLeftAlone DEF SignInInv, FileIsRead
  <2> QED BY <2>2, <2>3
<1>4. SettingsIntended'
  <2>1. ASSUME NEW q \in Processes \ {p}, NEW key, Intended(q, key)
        PROVE  Intended(q, key)'
    BY <2>1, ProcessLeftAlone
  <2>2. CASE p = "server" BY <1>2, <2>1, <2>2 DEF SignInInv, SettingsIntended
  <2>3. CASE p = "daemon" BY <1>2, <2>1, <2>3 DEF SignInInv, SettingsIntended
  <2> QED BY <2>2, <2>3
<1>5. ExchangeOrder' /\ AgreementSuffices' /\ AcceptedFits'
  <2>1. ASSUME NEW q \in Processes \ {p}, HasPassphrase(q) PROVE HasPassphrase(q)'
    BY <2>1, ProcessLeftAlone
  <2>2. CASE p = "server"
    <3>1. stage'["daemon"] = stage["daemon"] /\ "daemon" \in Processes \ {p} BY <2>2
    <3>2. stage["daemon"] \notin {"PROVED", "AUTHENTICATED", "GRPC_CLIENT_INITIALIZED"}
      BY <1>1, <2>2 DEF SignInInv, ExchangeOrder, Early
    <3>3. stage'["daemon"] \in DaemonStages => HasPassphrase("daemon")'
      BY <2>1, <3>1 DEF SignInInv, ExchangeOrder
    <3> QED BY <1>1, <1>2, <2>2, <3>1, <3>2, <3>3, StillNothingSent
  <2>3. CASE p = "daemon"
    <3>1. stage'["server"] = stage["server"] /\ "server" \in Processes \ {p} BY <2>3
    <3>2. stage["server"] \in Early \cup {"CONFIGURED", "CERTIFIED", "LISTENING", "ENDED"}
      BY <1>1 DEF SignInInv, ExchangeOrder
    <3>3. stage'["server"] \in ServerStages => HasPassphrase("server")'
      BY <2>1, <3>1 DEF SignInInv, ExchangeOrder
    <3> QED BY <1>1, <1>2, <2>3, <3>1, <3>2, <3>3, StillNothingSent
  <2> QED BY <2>2, <2>3
<1> QED BY <1>3, <1>4, <1>5 DEF SignInInv

LEMMA InitInv ==
    ASSUME Init PROVE SignInInv
<1>1. PICK s \in ServerSettings, d \in DaemonSettings :
        given = [p \in Processes |-> IF p = "server" THEN s ELSE d]
  BY DEF Init
<1>2. NotLoaded \in Configs BY ConfigurationAssumption DEF NotLoaded, Configs
<1>3. TypeOK BY <1>1, <1>2, SignInAssumption DEF Init, TypeOK, Early
<1>4. FileIsRead BY DEF Init, FileIsRead, ReadBy
<1>5. SettingsIntended BY DEF Init, SettingsIntended, ServerStages, DaemonStages
<1>6. ExchangeOrder /\ AgreementSuffices /\ AcceptedFits
  BY DEF Init, ExchangeOrder, AgreementSuffices, AcceptedFits, ServerStages, DaemonStages,
         Early
<1> QED BY <1>3, <1>4, <1>5, <1>6 DEF SignInInv

LEMMA ParsedType ==
    ASSUME NEW args \in [Options -> Texts], NEW parsed \in Parsed(args)
    PROVE  parsed \in [Options -> Texts]
<1>1. \A text \in Texts : PortOption(text) \subseteq Texts
  BY ConfigurationAssumption DEF PortOption
<1>2. args["grpc_port"] \in Texts /\ args["cert_port"] \in Texts BY DEF Options
<1>3. PICK port \in Texts, cert \in Texts :
        parsed = [args EXCEPT !["grpc_port"] = port, !["cert_port"] = cert]
  BY <1>1, <1>2 DEF Parsed
<1> QED BY <1>3

LEMMA ParseStep ==
    ASSUME SignInInv, NEW p \in Processes, Parse(p) PROVE SignInInv'
<1>1. stage[p] = "START" /\ ReadBy(p) BY DEF Parse, SignInInv, FileIsRead
<1>2. config' = config /\ line' = line /\ UNCHANGED <<message, unsent, digest>> BY DEF Parse
<1>3. /\ stage'[p] \in {"PARSED", "ENDED"}
      /\ \A q \in Processes \ {p} : stage'[q] = stage[q] /\ given'[q] = given[q]
      /\ given' \in [Processes -> Settings]
      /\ stage' \in [Processes -> Early \cup ServerStages \cup DaemonStages \cup {"ENDED"}]
  <2>1. CASE Parsed(given[p].args) = {}
    BY <2>1 DEF Parse, SignInInv, TypeOK, Early
  <2>2. CASE Parsed(given[p].args) # {}
    <3>1. PICK args \in Parsed(given[p].args) :
            /\ given' = [given EXCEPT ![p].args = args]
            /\ stage' = [stage EXCEPT ![p] = "PARSED"]
      BY <2>2 DEF Parse
    <3>2. given[p].args \in [Options -> Texts] BY DEF SignInInv, TypeOK, Settings
    <3>3. args \in [Options -> Texts] BY <3>1, <3>2, ParsedType
    <3>4. given' \in [Processes -> Settings]
      BY <3>1, <3>3 DEF SignInInv, TypeOK, Settings
    <3> QED BY <3>1, <3>4 DEF SignInInv, TypeOK, Early
  <2> QED BY <2>1, <2>2
<1>4. TypeOK' BY <1>2, <1>3 DEF SignInInv, TypeOK, Early
<1>5. ReadBy(p)' BY <1>1, <1>2, <1>3 DEF ReadBy
<1> QED BY <1>1, <1>2, <1>3, <1>4, <1>5, EarlyStep DEF Early

LEMMA OpenFileStep ==
    ASSUME SignInInv, NEW p \in Processes, OpenFile(p) PROVE SignInInv'
<1>1. stage[p] = "PARSED" /\ ReadBy(p) BY DEF OpenFile, SignInInv, FileIsRead
<1>2. given' = given /\ line' = line /\ UNCHANGED <<message, unsent, digest>>
  BY DEF OpenFile
<1>3. /\ stage'[p] \in {"LOADING", "ENDED"}
      /\ stage'[p] = "LOADING" => config'[p] = config[p]
      /\ \A q \in Processes \ {p} : stage'[q] = stage[q] /\ config'[q] = config[q]
      /\ stage' \in [Processes -> Early \cup ServerStages \cup DaemonStages \cup {"ENDED"}]
  BY DEF OpenFile, SignInInv, TypeOK, Early
<1>4. config' \in [Processes -> Configs]
  BY DEF OpenFile, SignInInv, TypeOK, Configs, NotOpened
<1>5. TypeOK' BY <1>2, <1>3, <1>4 DEF SignInInv, TypeOK, Early
<1>6. ReadBy(p)'
  <2>1. CASE stage'[p] = "ENDED" BY <2>1 DEF ReadBy
  <2>2. CASE stage'[p] = "LOADING"
    <3>1. config'[p] = NotLoaded /\ line'[p] = 0 BY <1>1, <1>2, <1>3, <2>2 DEF ReadBy
    <3>2. \A key \in Keys : config'[p].map[key] = ""
      <4>1. \A key \in Keys : NotLoaded.map[key] = "" BY DEF NotLoaded
      <4> QED BY <3>1, <4>1
    <3>3. given[p].file.lines \in Seq(Lines) BY DEF SignInInv, TypeOK, Settings, File
    <3>4. 0 <= Len(given[p].file.lines) BY <3>3
    <3> QED BY <1>2, <2>2, <3>1, <3>2, <3>4, LeftByNothing DEF ReadBy
  <2> QED BY <1>3, <2>1, <2>2
<1> QED BY <1>1, <1>2, <1>3, <1>5, <1>6, EarlyStep DEF Early

LEMMA LoadLineStep ==
    ASSUME SignInInv, NEW p \in Processes, LoadLine(p) PROVE SignInInv'
<1> DEFINE lines == given[p].file.lines
           n == line[p]
           l == lines[n + 1]
<1>1. stage[p] = "LOADING" /\ ReadBy(p) BY DEF LoadLine, SignInInv, FileIsRead
<1>2. given' = given /\ stage' = stage /\ UNCHANGED <<message, unsent, digest>>
  BY DEF LoadLine
<1>3. lines \in Seq(Lines) /\ n \in Nat /\ n < Len(lines) /\ config[p] \in Configs
  BY DEF LoadLine, SignInInv, TypeOK, Settings, File
<1>4. l \in Lines BY <1>3
<1>5. /\ ReadLine(config[p], l) \in Configs
      /\ \A key \in Keys : ReadLine(config[p], l).map[key]
                             = IF Sets(l, key) THEN l.value ELSE config[p].map[key]
  BY <1>3, <1>4, ReadLineResult
<1>6. /\ config' = [config EXCEPT ![p] = ReadLine(config[p], l)]
      /\ line' = [line EXCEPT ![p] = n + 1]
  BY DEF LoadLine
<1>7. config'[p] = ReadLine(config[p], l) /\ line'[p] = n + 1
  BY <1>6 DEF SignInInv, TypeOK
<1>8. TypeOK' BY <1>2, <1>3, <1>5, <1>6 DEF SignInInv, TypeOK
<1>9. ReadBy(p)'
  <2>1. ASSUME NEW key \in Keys
        PROVE  LeftBy(lines, n + 1, key, ReadLine(config[p], l).map[key])
    <3>1. LeftBy(lines, n, key, config[p].map[key]) BY <1>1 DEF ReadBy
    <3> HIDE DEF lines, n
    <3> QED BY <1>3, <1>5, <3>1, LeftByNext
  <2>2. n + 1 <= Len(lines) BY <1>3
  <2> HIDE DEF n, l
  <2> QED BY <1>1, <1>2, <1>7, <2>1, <2>2 DEF ReadBy
<1> QED BY <1>1, <1>2, <1>6, <1>8, <1>9, EarlyStep DEF Early, SignInInv, TypeOK

LEMMA EndOfFileStep ==
    ASSUME SignInInv, NEW p \in Processes, EndOfFile(p) PROVE SignInInv'
<1>1. stage[p] = "LOADING" /\ ReadBy(p) BY DEF EndOfFile, SignInInv, FileIsRead
<1>2. /\ given' = given /\ line' = line /\ UNCHANGED <<message, unsent, digest>>
      /\ line[p] = Len(given[p].file.lines)
  BY DEF EndOfFile
<1>3. /\ stage'[p] = "LOADED"
      /\ config'[p].state = "LOADED" /\ config'[p].map = config[p].map
      /\ \A q \in Processes \ {p} : stage'[q] = stage[q] /\ config'[q] = config[q]
      /\ stage' \in [Processes -> Early \cup ServerStages \cup DaemonStages \cup {"ENDED"}]
      /\ config' \in [Processes -> Configs]
  BY DEF EndOfFile, SignInInv, TypeOK, Early, Configs, Loaded
<1>4. TypeOK' BY <1>2, <1>3 DEF SignInInv, TypeOK, Early
<1>5. ReadBy(p)' BY <1>1, <1>2, <1>3 DEF ReadBy
<1> QED BY <1>1, <1>2, <1>3, <1>4, <1>5, EarlyStep DEF Early

-----------------------------------------------------------------------------
\* The steps on the arguments, the certificate and the channel.

LEMMA IntendedBy ==
    ASSUME NEW p \in Processes, NEW key \in Keys, SignInInv, stage[p] = "LOADED",
           given' = given, config'[p].state = "LOADED",
           config'[p].map[key] = IF key \in Options /\ given[p].args[key] # ""
                                 THEN given[p].args[key] ELSE config[p].map[key]
    PROVE  Intended(p, key)'
<1>1. LeftBy(given[p].file.lines, Len(given[p].file.lines), key, config[p].map[key])
  BY DEF SignInInv, FileIsRead, ReadBy
<1> QED BY <1>1 DEF Intended, Get

LEMMA ServerInitializesConfigStep ==
    ASSUME SignInInv, ServerInitializesConfig PROVE SignInInv'
<1> DEFINE args == given["server"].args
           port == WithOption(config["server"], "grpc_port", args)
           cert == WithOption(Set(port, "cert_port", "0"), "cert_port", args)
           full == WithOption(cert, "passphrase", args)
<1>1. /\ stage["server"] = "LOADED"
      /\ given' = given /\ line' = line /\ UNCHANGED <<message, unsent, digest>>
  BY DEF ServerInitializesConfig
<1>2. /\ port \in Configs /\ full \in Configs
      /\ port.state = config["server"].state /\ full.state = config["server"].state
      /\ \A key \in {"grpc_port", "passphrase"} :
           full.map[key] = IF args[key] # "" THEN args[key] ELSE config["server"].map[key]
  <2>1. config["server"] \in Configs /\ args \in [Options -> Texts]
    BY DEF SignInInv, TypeOK, Settings
  <2>2. /\ SetBy(config["server"], port, args, {})
        /\ SetBy(config["server"], full, args, {"grpc_port", "passphrase"})
    <3> HIDE DEF args
    <3> QED BY <2>1, ServerSets
  <2>3. {"grpc_port", "passphrase"} \subseteq Options BY DEF Options
  <2> HIDE DEF port, full, args, Configs
  <2> QED BY <2>2, <2>3 DEF SetBy
<1>3. config["server"].state = "LOADED" BY <1>1 DEF SignInInv, FileIsRead, ReadBy
<1>4. \/ /\ config' = [config EXCEPT !["server"] = port]
         /\ stage' = [stage EXCEPT !["server"] = "ENDED"]
      \/ /\ config' = [config EXCEPT !["server"] = full]
         /\ stage' = [stage EXCEPT !["server"] =
                        IF Get(full, "passphrase") = "" THEN "ENDED" ELSE "CONFIGURED"]
  BY DEF ServerInitializesConfig
<1> HIDE DEF port, full
<1>5. /\ stage'["server"] \in {"CONFIGURED", "ENDED"}
      /\ stage'["daemon"] = stage["daemon"] /\ config'["daemon"] = config["daemon"]
      /\ config' \in [Processes -> Configs]
      /\ stage' \in [Processes -> Early \cup ServerStages \cup DaemonStages \cup {"ENDED"}]
      /\ config'["server"].state = "LOADED"
      /\ stage'["server"] = "CONFIGURED" =>
           config'["server"] = full /\ Get(full, "passphrase") # ""
  BY <1>2, <1>3, <1>4 DEF SignInInv, TypeOK, ServerStages
<1>6. TypeOK' BY <1>1, <1>5 DEF SignInInv, TypeOK, ServerStages
<1>7. FileIsRead'
  <2>1. ReadBy("daemon")' BY <1>1, <1>5, ProcessLeftAlone DEF SignInInv, FileIsRead
  <2>2. ReadBy("server")' BY <1>5 DEF ReadBy
  <2> QED BY <2>1, <2>2 DEF FileIsRead
<1>8. SettingsIntended'
  <2>1. stage'["daemon"] \in DaemonStages => \A key \in Required : Intended("daemon", key)'
    BY <1>1, <1>5, ProcessLeftAlone DEF SignInInv, SettingsIntended
  <2>2. ASSUME stage'["server"] \in ServerStages, NEW key \in {"grpc_port", "passphrase"}
        PROVE  Intended("server", key)'
    <3>1. config'["server"] = full BY <1>5, <2>2 DEF ServerStages
    <3>2. key \in Options /\ key \in Keys BY OptionsAreKeys DEF Options
    <3>3. full.map[key] = IF key \in Options /\ given["server"].args[key] # ""
                          THEN given["server"].args[key] ELSE config["server"].map[key]
      BY <1>2, <3>2
    <3> QED BY <1>1, <1>5, <3>1, <3>2, <3>3, IntendedBy
  <2> QED BY <2>1, <2>2 DEF SettingsIntended, Required
<1>9. ExchangeOrder' /\ AgreementSuffices' /\ AcceptedFits'
  <2>1. message = NoMessage BY <1>1, NothingSentYet DEF Early
  <2>2. stage["daemon"] \notin {"PROVED", "AUTHENTICATED", "GRPC_CLIENT_INITIALIZED"}
    BY <1>1, <2>1 DEF SignInInv, ExchangeOrder
  <2>3. stage'["daemon"] \in DaemonStages => HasPassphrase("daemon")'
    BY <1>1, <1>5, ProcessLeftAlone DEF SignInInv, ExchangeOrder
  <2>4. stage'["server"] \in ServerStages => HasPassphrase("server")'
    <3>1. "passphrase" \in Keys BY OptionsAreKeys DEF Options
    <3>2. full.map["passphrase"] \in Texts BY <1>2, <3>1 DEF Configs
    <3>3. Get(full, "passphrase") \in Texts BY <3>2, ConfigurationAssumption DEF Get
    <3> QED BY <1>5, <3>3 DEF HasPassphrase, ServerStages
  <2> QED BY <1>1, <1>5, <1>6, <2>1, <2>2, <2>3, <2>4, StillNothingSent
<1> QED BY <1>6, <1>7, <1>8, <1>9 DEF SignInInv

LEMMA LoadCertificateStep ==
    ASSUME SignInInv, LoadCertificate PROVE SignInInv'
<1> DEFINE half == Set(config["server"], "cert_file", "server.crt")
           named == Set(half, "key_file", "server.key")
<1>1. /\ stage["server"] = "CONFIGURED"
      /\ given' = given /\ line' = line /\ UNCHANGED <<message, unsent, digest>>
      /\ config' = [config EXCEPT !["server"] = named]
      /\ stage'["server"] \in {"CERTIFIED", "ENDED"}
      /\ stage' = [stage EXCEPT !["server"] = stage'["server"]]
  BY DEF LoadCertificate, SignInInv, TypeOK
<1>2. /\ named \in Configs /\ named.state = config["server"].state
      /\ \A key \in Keys : key \notin {"cert_file", "key_file"} =>
           named.map[key] = config["server"].map[key]
  <2>1. /\ config["server"] \in Configs
        /\ "cert_file" \in Keys /\ "key_file" \in Keys
        /\ "server.crt" \in Texts /\ "server.key" \in Texts
    BY SignInAssumption DEF SignInInv, TypeOK
  <2>2. Wrote(config["server"], half, "cert_file", "server.crt")
    BY <2>1, SetResult, Zenon
  <2>3. Wrote(half, named, "key_file", "server.key")
    <3>1. half \in Configs BY <2>2 DEF Wrote
    <3> HIDE DEF half
    <3> QED BY <2>1, <3>1, SetResult, Zenon
  <2> HIDE DEF half, named, Configs
  <2> QED BY <2>2, <2>3 DEF Wrote
<1> HIDE DEF named
<1>3. /\ config'["server"] = named /\ config'["daemon"] = config["daemon"]
      /\ stage'["daemon"] = stage["daemon"]
      /\ config["server"].state = "LOADED"
  BY <1>1 DEF SignInInv, TypeOK, FileIsRead, ReadBy
<1>4. TypeOK' BY <1>1, <1>2 DEF SignInInv, TypeOK, ServerStages
<1>5. FileIsRead'
  <2>1. ReadBy("daemon")' BY <1>1, <1>3, ProcessLeftAlone DEF SignInInv, FileIsRead
  <2>2. ReadBy("server")' BY <1>1, <1>2, <1>3 DEF ReadBy
  <2> QED BY <2>1, <2>2 DEF FileIsRead
<1>6. SettingsIntended'
  <2>1. stage'["daemon"] \in DaemonStages => \A key \in Required : Intended("daemon", key)'
    BY <1>1, <1>3, ProcessLeftAlone DEF SignInInv, SettingsIntended
  <2>2. ASSUME NEW key \in {"grpc_port", "passphrase"}
        PROVE  Intended("server", key)'
    <3>1. key \in Keys /\ key \notin {"cert_file", "key_file"}
      BY SignInAssumption DEF Options
    <3>2. Intended("server", key)
      BY <1>1 DEF SignInInv, SettingsIntended, ServerStages
    <3>3. Get(named, key) = Get(config["server"], key) BY <1>2, <3>1 DEF Get
    <3> QED BY <1>1, <1>3, <3>2, <3>3 DEF Intended
  <2> QED BY <2>1, <2>2 DEF SettingsIntended
<1>7. ExchangeOrder' /\ AgreementSuffices' /\ AcceptedFits'
  <2>1. message = NoMessage BY <1>1, NothingSentYet
  <2>2. stage["daemon"] \notin {"PROVED", "AUTHENTICATED", "GRPC_CLIENT_INITIALIZED"}
    BY <1>1, <2>1 DEF SignInInv, ExchangeOrder
  <2>3. stage'["daemon"] \in DaemonStages => HasPassphrase("daemon")'
    BY <1>1, <1>3, ProcessLeftAlone DEF SignInInv, ExchangeOrder
  <2>4. HasPassphrase("server")'
    <3>1. "passphrase" \in Keys BY OptionsAreKeys DEF Options
    <3>2. Get(named, "passphrase") = Get(config["server"], "passphrase")
      BY <1>2, <3>1 DEF Get
    <3> QED BY <1>1, <1>3, <3>2
      DEF SignInInv, ExchangeOrder, ServerStages, HasPassphrase
  <2> QED BY <1>1, <1>3, <1>4, <2>1, <2>2, <2>3, <2>4, StillNothingSent
<1> QED BY <1>4, <1>5, <1>6, <1>7 DEF SignInInv

LEMMA InitializeConfigStep ==
    ASSUME SignInInv, InitializeConfig PROVE SignInInv'
<1> DEFINE args == given["daemon"].args
           port == WithOption(config["daemon"], "grpc_port", args)
           host == WithOption(port, "grpc_host", args)
           cert == WithOption(host, "cert_port", args)
           full == WithOption(cert, "passphrase", args)
           usable == Missing(full, Required) = {} /\ CheckPort(Get(full, "grpc_port"))
           final == IF usable /\ Get(full, "cert_port") = ""
                    THEN Set(full, "cert_port", "0") ELSE full
<1>1. /\ stage["daemon"] = "LOADED" /\ config["daemon"].state = "LOADED"
      /\ given' = given /\ line' = line /\ UNCHANGED <<message, unsent, digest>>
      /\ config' = [config EXCEPT !["daemon"] = final]
      /\ stage' = [stage EXCEPT !["daemon"] =
                     IF usable /\ CheckPort(Get(final, "cert_port"))
                     THEN "CONFIG_INITIALIZED" ELSE "ENDED"]
  BY DEF InitializeConfig
<1>2. final \in {full, Set(full, "cert_port", "0")} OBVIOUS
<1>3. /\ SetBy(config["daemon"], full, args, Keys \ {"cert_port"})
      /\ SetBy(config["daemon"], final, args, Keys \ {"cert_port"})
  <2>1. config["daemon"] \in Configs /\ args \in [Options -> Texts]
    BY DEF SignInInv, TypeOK, Settings
  <2> HIDE DEF args, final
  <2> QED BY <1>2, <2>1, DaemonSets
<1>4. Required \subseteq Keys \ {"cert_port"}
  BY SignInAssumption DEF Options, Required
<1>5. usable => full.map["passphrase"] # ""
  BY DEF Missing, Required
<1> HIDE DEF full, usable, final
<1>6. /\ stage'["daemon"] \in {"CONFIG_INITIALIZED", "ENDED"}
      /\ stage'["server"] = stage["server"] /\ config'["server"] = config["server"]
      /\ config' \in [Processes -> Configs]
      /\ stage' \in [Processes -> Early \cup ServerStages \cup DaemonStages \cup {"ENDED"}]
      /\ config'["daemon"] = final /\ final.state = "LOADED"
      /\ stage'["daemon"] = "CONFIG_INITIALIZED" => usable
  BY <1>1, <1>3 DEF SignInInv, TypeOK, DaemonStages, SetBy
<1>7. TypeOK' BY <1>1, <1>6 DEF SignInInv, TypeOK, DaemonStages
<1>8. FileIsRead'
  <2>1. ReadBy("server")' BY <1>1, <1>6, ProcessLeftAlone DEF SignInInv, FileIsRead
  <2>2. ReadBy("daemon")' BY <1>6 DEF ReadBy
  <2> QED BY <2>1, <2>2 DEF FileIsRead
<1>9. SettingsIntended'
  <2>1. stage'["server"] \in ServerStages =>
          \A key \in {"grpc_port", "passphrase"} : Intended("server", key)'
    BY <1>1, <1>6, ProcessLeftAlone DEF SignInInv, SettingsIntended
  <2>2. ASSUME NEW key \in Required
        PROVE  Intended("daemon", key)'
    <3>1. key \in Keys \ {"cert_port"} BY <1>4
    <3>2. final.map[key] = IF key \in Options /\ given["daemon"].args[key] # ""
                           THEN given["daemon"].args[key] ELSE config["daemon"].map[key]
      BY <1>3, <3>1 DEF SetBy
    <3> QED BY <1>1, <1>6, <3>1, <3>2, IntendedBy
  <2> QED BY <2>1, <2>2 DEF SettingsIntended
<1>10. ExchangeOrder' /\ AgreementSuffices' /\ AcceptedFits'
  <2>1. message = NoMessage BY <1>1, NothingSentYet DEF Early
  <2>2. stage["server"] \in Early \cup {"CONFIGURED", "CERTIFIED", "LISTENING", "ENDED"}
    BY <1>1, <2>1 DEF SignInInv, ExchangeOrder
  <2>3. stage'["server"] \in ServerStages => HasPassphrase("server")'
    BY <1>1, <1>6, ProcessLeftAlone DEF SignInInv, ExchangeOrder
  <2>4. stage'["daemon"] \in DaemonStages => HasPassphrase("daemon")'
    <3>1. "passphrase" \in Keys \ {"cert_port"} BY OptionsAreKeys DEF Options
    <3>2. final.map["passphrase"] = full.map["passphrase"] BY <1>3, <3>1 DEF SetBy
    <3>3. final.map["passphrase"] \in Texts BY <1>3, <3>1 DEF SetBy, Configs
    <3> QED BY <1>5, <1>6, <3>2, <3>3 DEF HasPassphrase, Get, DaemonStages
  <2> QED BY <1>1, <1>6, <1>7, <2>1, <2>2, <2>3, <2>4, StillNothingSent
<1> QED BY <1>7, <1>8, <1>9, <1>10 DEF SignInInv

-----------------------------------------------------------------------------
\* The steps that leave all settings alone.

LEMMA SettingsLeftAlone ==
    ASSUME SignInInv, given' = given, config' = config, line' = line,
           stage["server"] \in ServerStages \/ stage'["server"] = stage["server"],
           stage["daemon"] \in DaemonStages \/ stage'["daemon"] = stage["daemon"],
           stage'["server"] \in Early => stage'["server"] = stage["server"],
           stage'["daemon"] \in Early => stage'["daemon"] = stage["daemon"]
    PROVE  /\ FileIsRead' /\ SettingsIntended'
           /\ \A p : HasPassphrase(p)' = HasPassphrase(p)
           /\ \A p : Generator(p)' = Generator(p)
<1>1. \A p : HasPassphrase(p)' = HasPassphrase(p) BY DEF HasPassphrase, Get
<1>2. \A p : Generator(p)' = Generator(p) BY DEF Generator, Get
<1>3. \A p, key : Intended(p, key)' = Intended(p, key) BY DEF Intended, Get
<1>4. SettingsIntended' BY <1>3 DEF SignInInv, SettingsIntended
<1>5. ReadBy("server")'
  BY DEF SignInInv, FileIsRead, ReadBy, ServerStages, Early
<1>6. ReadBy("daemon")'
  BY DEF SignInInv, FileIsRead, ReadBy, DaemonStages, Early
<1> QED BY <1>1, <1>2, <1>4, <1>5, <1>6 DEF FileIsRead

LEMMA BuildAndStartStep ==
    ASSUME SignInInv, BuildAndStart PROVE SignInInv'
<1>1. /\ stage["server"] = "CERTIFIED" /\ stage["server"] \in ServerStages
      /\ stage'["server"] \in {"LISTENING", "ENDED"}
      /\ stage'["daemon"] = stage["daemon"]
      /\ stage' \in [Processes -> Early \cup ServerStages \cup DaemonStages \cup {"ENDED"}]
      /\ given' = given /\ config' = config /\ line' = line
      /\ UNCHANGED <<message, unsent, digest>>
  BY DEF BuildAndStart, SignInInv, TypeOK, ServerStages
<1>2. TypeOK' BY <1>1 DEF SignInInv, TypeOK, ServerStages
<1>3. /\ FileIsRead' /\ SettingsIntended'
      /\ \A p : HasPassphrase(p)' = HasPassphrase(p)
  BY <1>1, SettingsLeftAlone DEF Early
<1>4. ExchangeOrder' /\ AgreementSuffices' /\ AcceptedFits'
  <2>1. message = NoMessage BY <1>1, NothingSentYet
  <2>2. stage["daemon"] \notin {"PROVED", "AUTHENTICATED", "GRPC_CLIENT_INITIALIZED"}
    BY <1>1, <2>1 DEF SignInInv, ExchangeOrder
  <2>3. stage'["server"] \in ServerStages => HasPassphrase("server")'
    BY <1>1, <1>3 DEF SignInInv, ExchangeOrder
  <2>4. stage'["daemon"] \in DaemonStages => HasPassphrase("daemon")'
    BY <1>1, <1>3 DEF SignInInv, ExchangeOrder
  <2> QED BY <1>1, <1>2, <2>1, <2>2, <2>3, <2>4, StillNothingSent
<1> QED BY <1>2, <1>3, <1>4 DEF SignInInv

LEMMA InitializeGrpcClientStep ==
    ASSUME SignInInv, InitializeGrpcClient PROVE SignInInv'
<1>1. /\ stage["daemon"] = "CONFIG_INITIALIZED" /\ stage["daemon"] \in DaemonStages
      /\ stage'["daemon"] \in {"GRPC_CLIENT_INITIALIZED", "ENDED"}
      /\ stage'["server"] = stage["server"]
      /\ stage' \in [Processes -> Early \cup ServerStages \cup DaemonStages \cup {"ENDED"}]
      /\ given' = given /\ config' = config /\ line' = line
      /\ UNCHANGED <<message, unsent, digest>>
      /\ stage'["daemon"] = "GRPC_CLIENT_INITIALIZED" => stage["server"] = "LISTENING"
  BY DEF InitializeGrpcClient, SignInInv, TypeOK, DaemonStages, Reachable
<1>2. TypeOK' BY <1>1 DEF SignInInv, TypeOK, DaemonStages
<1>3. /\ FileIsRead' /\ SettingsIntended'
      /\ \A p : HasPassphrase(p)' = HasPassphrase(p)
  BY <1>1, SettingsLeftAlone DEF Early
<1>4. ExchangeOrder' /\ AgreementSuffices' /\ AcceptedFits'
  <2>1. message = NoMessage BY <1>1, NothingSentYet
  <2>2. stage["server"] \in Early \cup {"CONFIGURED", "CERTIFIED", "LISTENING", "ENDED"}
    BY <2>1 DEF SignInInv, ExchangeOrder
  <2>3. stage'["server"] \in ServerStages => HasPassphrase("server")'
    BY <1>1, <1>3 DEF SignInInv, ExchangeOrder
  <2>4. stage'["daemon"] \in DaemonStages => HasPassphrase("daemon")'
    BY <1>1, <1>3 DEF SignInInv, ExchangeOrder
  <2> QED BY <1>1, <1>2, <2>1, <2>2, <2>3, <2>4, StillNothingSent
<1> QED BY <1>2, <1>3, <1>4 DEF SignInInv

LEMMA NewMessageType ==
    ASSUME NEW p \in Processes, HasPassphrase(p), NEW by \in {"client", "server"},
           NEW m \in NewMessage(by, Generator(p))
    PROVE  m \in Messages /\ m # NoMessage
<1>1. m \in Messages BY GeneratorType, MessageType
<1>2. m.by # NoMessage.by BY <1>1 DEF Messages, NoMessage
<1> QED BY <1>1, <1>2

\* What the four steps of the exchange have in common.
LEMMA ExchangeStep ==
    ASSUME SignInInv, given' = given, config' = config, line' = line,
           stage' \in [Processes -> ServerStages \cup DaemonStages \cup {"ENDED"}],
           stage["server"] \in ServerStages, stage["daemon"] \in DaemonStages,
           stage'["server"] \in ServerStages,
           stage'["daemon"] \in DaemonStages \cup {"ENDED"},
           message' \in Messages \cup {NoMessage}, unsent' \in BOOLEAN,
           digest' \in Challenges \cup {NoDigest},
           ExchangeOrder', AgreementSuffices', AcceptedFits'
    PROVE  SignInInv'
<1>1. TypeOK'
  BY DEF SignInInv, TypeOK, ServerStages, DaemonStages
<1>2. FileIsRead' /\ SettingsIntended'
  <2>1. stage'["server"] \notin Early /\ stage'["daemon"] \notin Early
    BY DEF Early, ServerStages, DaemonStages
  <2> QED BY <2>1, SettingsLeftAlone
<1> QED BY <1>1, <1>2 DEF SignInInv

LEMMA ClientProvesStep ==
    ASSUME SignInInv, ClientProves PROVE SignInInv'
<1>1. /\ stage["daemon"] = "GRPC_CLIENT_INITIALIZED" /\ stage["server"] = "LISTENING"
      /\ given' = given /\ config' = config /\ line' = line
      /\ stage'["server"] = "LISTENING" /\ stage'["daemon"] \in {"PROVED", "ENDED"}
      /\ stage' \in [Processes -> ServerStages \cup DaemonStages \cup {"ENDED"}]
      /\ message = NoMessage /\ digest' = digest
      /\ digest \in Challenges \cup {NoDigest}
  BY NothingSentYet
  DEF ClientProves, SignInInv, TypeOK, ExchangeOrder, ServerStages, DaemonStages
<1>2. HasPassphrase("server") /\ HasPassphrase("daemon")
  BY <1>1 DEF SignInInv, ExchangeOrder, ServerStages, DaemonStages
<1>3. /\ HasPassphrase("server")' /\ HasPassphrase("daemon")'
      /\ Generator("daemon")' = Generator("daemon")
  BY <1>1, <1>2 DEF HasPassphrase, Generator, Get
<1>4. \/ /\ message' \in NewMessage("client", Generator("daemon"))
         /\ stage'["daemon"] = "PROVED" /\ unsent' = unsent
      \/ /\ message' = message /\ stage'["daemon"] = "ENDED" /\ unsent' = TRUE
  BY DEF ClientProves, SignInInv, TypeOK
<1>5. unsent \in BOOLEAN BY DEF SignInInv, TypeOK
<1>6. CASE /\ message' \in NewMessage("client", Generator("daemon"))
           /\ stage'["daemon"] = "PROVED" /\ unsent' = unsent
  <2>1. message' \in Messages /\ message' # NoMessage BY <1>2, <1>6, NewMessageType
  <2>2. message' \in NewMessage("client", Generator("daemon"))'
    BY <1>3, <1>6 DEF NewMessage
  <2>3. ExchangeOrder' BY <1>1, <1>3, <1>6, <2>1, <2>2 DEF ExchangeOrder
  <2>4. AgreementSuffices' /\ AcceptedFits'
    BY <1>1, <1>6 DEF AgreementSuffices, AcceptedFits
  <2> QED BY <1>1, <1>5, <1>6, <2>1, <2>3, <2>4, ExchangeStep
          DEF ServerStages, DaemonStages
<1>7. CASE message' = message /\ stage'["daemon"] = "ENDED" /\ unsent' = TRUE
  <2>1. TypeOK'
    BY <1>1, <1>7 DEF SignInInv, TypeOK, ServerStages, DaemonStages
  <2>2. ExchangeOrder' /\ AgreementSuffices' /\ AcceptedFits'
    BY <1>1, <1>3, <1>7, <2>1, StillNothingSent DEF DaemonStages
  <2> QED BY <1>1, <1>7, <2>2, ExchangeStep DEF ServerStages, DaemonStages
<1> QED BY <1>4, <1>6, <1>7

\* The digest that the other side computes is one.
LEMMA ChallengeType ==
    ASSUME SignInInv, message # NoMessage, NEW g, NEW c \in ChallengeFor(g)
    PROVE  c \in Challenges /\ c # NoDigest
<1>1. message.challenge \in Challenges BY DEF SignInInv, TypeOK, Messages
<1>2. c \in Challenges BY <1>1 DEF ChallengeFor
<1> QED BY <1>2, ZkpAssumption DEF NoDigest

LEMMA CheckClientStep ==
    ASSUME SignInInv, CheckClient PROVE SignInInv'
<1>1. /\ stage["daemon"] = "PROVED" /\ stage["server"] = "LISTENING"
      /\ given' = given /\ config' = config /\ line' = line
      /\ UNCHANGED <<message, unsent>>
      /\ stage'["server"] \in {"ACCEPTED", "DENIED"} /\ stage'["daemon"] = "PROVED"
      /\ stage' \in [Processes -> ServerStages \cup DaemonStages \cup {"ENDED"}]
  BY DEF CheckClient, SignInInv, TypeOK, ServerStages, DaemonStages
<1>2. /\ message # NoMessage
      /\ HasPassphrase("server") /\ HasPassphrase("daemon")
      /\ message \in NewMessage("client", Generator("daemon"))
  BY <1>1 DEF SignInInv, ExchangeOrder
<1>3. /\ HasPassphrase("server")' /\ HasPassphrase("daemon")'
      /\ Generator("daemon")' = Generator("daemon")
      /\ Generator("server")' = Generator("server")
  BY <1>1, <1>2 DEF HasPassphrase, Generator, Get
<1>4. message' \in NewMessage("client", Generator("daemon"))'
  BY <1>1, <1>2, <1>3 DEF NewMessage
<1>5. ExchangeOrder' BY <1>1, <1>2, <1>3, <1>4 DEF ExchangeOrder
<1>6. SameGenerator => stage'["server"] = "ACCEPTED"
  <2>1. HAVE SameGenerator
  <2>2. PICK g : g = Generator("daemon") OBVIOUS
  <2>3. g \in Points /\ g # 0 BY <1>2, <2>2, GeneratorType
  <2>4. /\ CheckZkp(message.zkp, message.public_key, message.challenge, "server", g)
        /\ message.generator = g
    <3> HIDE DEF Points
    <3> QED BY <1>2, <2>2, <2>3, MessageAccepted
  <2>5. Generator("server") = g BY <2>1, <2>2 DEF SameGenerator
  <2>6. ChallengeFor(Generator("server")) = {message.challenge}
    BY <2>4, <2>5 DEF ChallengeFor
  <2>7. stage' = [stage EXCEPT !["server"] =
                    IF CheckZkp(message.zkp, message.public_key, message.challenge,
                                "server", Generator("server"))
                    THEN "ACCEPTED" ELSE "DENIED"]
    BY <2>6 DEF CheckClient
  <2> QED BY <2>4, <2>5, <2>7 DEF SignInInv, TypeOK
<1>7. AgreementSuffices' BY <1>1, <1>3, <1>6 DEF AgreementSuffices, SameGenerator
<1>8. PICK c \in ChallengeFor(Generator("server")) :
        /\ digest' = c
        /\ stage' = [stage EXCEPT !["server"] =
                       IF CheckZkp(message.zkp, message.public_key, c, "server",
                                   Generator("server"))
                       THEN "ACCEPTED" ELSE "DENIED"]
  BY DEF CheckClient
<1>9. c \in Challenges /\ c # NoDigest
  BY <1>2, <1>8, ChallengeType
<1>10. AcceptedFits'
  <2>1. stage'["server"] = "ACCEPTED" =>
          Fits(message.zkp, message.public_key, c, Generator("server"))
    BY <1>8 DEF CheckZkp, SignInInv, TypeOK
  <2>2. Fits(message.zkp, message.public_key, c, Generator("server")) =>
          Fits(message.zkp, message.public_key, digest, Generator("server"))'
    BY <1>1, <1>3, <1>8 DEF Fits
  <2> QED BY <1>1, <1>8, <1>9, <2>1, <2>2 DEF AcceptedFits
<1> QED BY <1>1, <1>5, <1>7, <1>8, <1>9, <1>10, ExchangeStep DEF SignInInv, TypeOK, ServerStages, DaemonStages

LEMMA ServerProvesStep ==
    ASSUME SignInInv, ServerProves PROVE SignInInv'
<1>1. /\ stage["daemon"] = "PROVED" /\ stage["server"] = "ACCEPTED"
      /\ given' = given /\ config' = config /\ line' = line
      /\ stage'["server"] \in {"PROVED", "INTERNAL"} /\ stage'["daemon"] = "PROVED"
      /\ stage' \in [Processes -> ServerStages \cup DaemonStages \cup {"ENDED"}]
      /\ message # NoMessage /\ digest' = NoDigest
  <2>1. stage["server"] = "ACCEPTED" BY DEF ServerProves
  <2>2. message # NoMessage
    BY <2>1 DEF SignInInv, ExchangeOrder, Early
  <2>3. stage["daemon"] = "PROVED" BY <2>1, <2>2 DEF SignInInv, ExchangeOrder
  <2> QED BY <2>1, <2>2, <2>3 DEF ServerProves, SignInInv, TypeOK, ServerStages, DaemonStages
<1>2. /\ HasPassphrase("server") /\ HasPassphrase("daemon")
      /\ message \in NewMessage("client", Generator("daemon"))
  BY <1>1 DEF SignInInv, ExchangeOrder
<1>3. /\ HasPassphrase("server")' /\ HasPassphrase("daemon")'
      /\ Generator("daemon")' = Generator("daemon")
      /\ Generator("server")' = Generator("server")
  BY <1>1, <1>2 DEF HasPassphrase, Generator, Get
<1>4. \/ /\ message' \in NewMessage("server", Generator("server"))
         /\ stage'["server"] = "PROVED" /\ unsent' = unsent
      \/ /\ message' = message /\ stage'["server"] = "INTERNAL" /\ unsent' = TRUE
  BY DEF ServerProves, SignInInv, TypeOK
<1>5. unsent \in BOOLEAN /\ message \in Messages \cup {NoMessage}
  BY DEF SignInInv, TypeOK
<1>6. AgreementSuffices' /\ AcceptedFits' BY <1>1 DEF AgreementSuffices, AcceptedFits
<1>7. CASE /\ message' \in NewMessage("server", Generator("server"))
           /\ stage'["server"] = "PROVED" /\ unsent' = unsent
  <2>1. message' \in Messages /\ message' # NoMessage BY <1>2, <1>7, NewMessageType
  <2>2. message' \in NewMessage("server", Generator("server"))'
    BY <1>3, <1>7 DEF NewMessage
  <2>3. ExchangeOrder' BY <1>1, <1>3, <1>7, <2>1, <2>2 DEF ExchangeOrder
  <2> QED BY <1>1, <1>5, <1>6, <1>7, <2>1, <2>3, ExchangeStep
          DEF ServerStages, DaemonStages
<1>8. CASE message' = message /\ stage'["server"] = "INTERNAL" /\ unsent' = TRUE
  <2>1. message' \in NewMessage("client", Generator("daemon"))'
    BY <1>2, <1>3, <1>8 DEF NewMessage
  <2>2. ExchangeOrder' BY <1>1, <1>3, <1>8, <2>1 DEF ExchangeOrder
  <2> QED BY <1>1, <1>5, <1>6, <1>8, <2>2, ExchangeStep
          DEF ServerStages, DaemonStages
<1> QED BY <1>4, <1>7, <1>8

LEMMA CheckServerStep ==
    ASSUME SignInInv, CheckServer PROVE SignInInv'
<1>1. /\ stage["daemon"] = "PROVED" /\ stage["server"] \in {"DENIED", "INTERNAL", "PROVED"}
      /\ given' = given /\ config' = config /\ line' = line
      /\ UNCHANGED <<message, unsent>>
      /\ stage'["server"] = stage["server"]
      /\ stage'["daemon"] \in {"AUTHENTICATED", "ENDED"}
      /\ stage'["daemon"] = "AUTHENTICATED" => stage["server"] = "PROVED"
      /\ stage' \in [Processes -> ServerStages \cup DaemonStages \cup {"ENDED"}]
  BY DEF CheckServer, SignInInv, TypeOK, ServerStages, DaemonStages
<1>2. /\ message # NoMessage
      /\ HasPassphrase("server") /\ HasPassphrase("daemon")
      /\ \/ message \in NewMessage("client", Generator("daemon"))
            /\ stage["server"] \in {"DENIED", "INTERNAL"}
         \/ message \in NewMessage("server", Generator("server"))
            /\ stage["server"] = "PROVED"
      /\ stage["server"] = "INTERNAL" => unsent
  BY <1>1 DEF SignInInv, ExchangeOrder
<1>3. /\ HasPassphrase("server")' /\ HasPassphrase("daemon")'
      /\ Generator("daemon")' = Generator("daemon")
      /\ Generator("server")' = Generator("server")
  BY <1>1, <1>2 DEF HasPassphrase, Generator, Get
<1>4. /\ message' \in NewMessage("client", Generator("daemon"))'
           <=> message \in NewMessage("client", Generator("daemon"))
      /\ message' \in NewMessage("server", Generator("server"))'
           <=> message \in NewMessage("server", Generator("server"))
  BY <1>1, <1>3 DEF NewMessage
<1>5. ExchangeOrder' BY <1>1, <1>2, <1>3, <1>4 DEF ExchangeOrder
<1>6. SameGenerator /\ stage["server"] = "PROVED" => stage'["daemon"] = "AUTHENTICATED"
  <2>1. HAVE SameGenerator /\ stage["server"] = "PROVED"
  <2>2. PICK g : g = Generator("server") OBVIOUS
  <2>3. g \in Points /\ g # 0 BY <1>2, <2>2, GeneratorType
  <2>4. message \in NewMessage("server", g) BY <1>2, <2>1, <2>2
  <2>5. /\ CheckZkp(message.zkp, message.public_key, message.challenge, "client", g)
        /\ message.generator = g
    <3> HIDE DEF Points
    <3> QED BY <2>3, <2>4, MessageAccepted
  <2>6. Generator("daemon") = g BY <2>1, <2>2 DEF SameGenerator
  <2>7. ChallengeFor(Generator("daemon")) = {message.challenge}
    BY <2>5, <2>6 DEF ChallengeFor
  <2>8. stage' = [stage EXCEPT !["daemon"] =
                    IF CheckZkp(message.zkp, message.public_key, message.challenge,
                                "client", Generator("daemon"))
                    THEN "AUTHENTICATED" ELSE "ENDED"]
    BY <2>1, <2>7 DEF CheckServer
  <2> QED BY <2>5, <2>6, <2>8 DEF SignInInv, TypeOK
<1>7. AgreementSuffices'
  <2>1. SameGenerator' <=> SameGenerator BY <1>3 DEF SameGenerator
  <2>2. SameGenerator => stage["server"] # "DENIED"
    BY <1>2 DEF SignInInv, AgreementSuffices
  <2> QED BY <1>1, <1>2, <1>6, <2>1, <2>2 DEF AgreementSuffices
<1>8. /\ digest' \in Challenges \cup {NoDigest}
      /\ stage'["daemon"] = "AUTHENTICATED" =>
           /\ digest' # NoDigest
           /\ Fits(message.zkp, message.public_key, digest', Generator("daemon"))
  <2>1. CASE stage["server"] # "PROVED"
    BY <1>1, <2>1 DEF CheckServer, SignInInv, TypeOK
  <2>2. CASE stage["server"] = "PROVED"
    <3>1. PICK c \in ChallengeFor(Generator("daemon")) :
            /\ digest' = c
            /\ stage' = [stage EXCEPT !["daemon"] =
                           IF CheckZkp(message.zkp, message.public_key, c, "client",
                                       Generator("daemon"))
                           THEN "AUTHENTICATED" ELSE "ENDED"]
      BY <2>2 DEF CheckServer
    <3>2. c \in Challenges /\ c # NoDigest
      BY <1>2, <3>1, ChallengeType
    <3> QED BY <3>1, <3>2 DEF CheckZkp, SignInInv, TypeOK
  <2> QED BY <2>1, <2>2
<1>9. AcceptedFits'
  <2>1. Fits(message.zkp, message.public_key, digest', Generator("daemon")) =>
          Fits(message.zkp, message.public_key, digest, Generator("daemon"))'
    BY <1>1, <1>3 DEF Fits
  <2> QED BY <1>1, <1>8, <2>1 DEF AcceptedFits
<1> QED BY <1>1, <1>5, <1>7, <1>8, <1>9, ExchangeStep DEF SignInInv, TypeOK, ServerStages, DaemonStages

LEMMA UnchangedStep ==
    ASSUME SignInInv, UNCHANGED vars PROVE SignInInv'
<1>1. TypeOK' /\ FileIsRead'
  BY DEF SignInInv, vars, TypeOK, FileIsRead, ReadBy
<1>2. SettingsIntended' BY DEF SignInInv, vars, SettingsIntended, Intended, Get
<1>3. /\ \A p : HasPassphrase(p)' = HasPassphrase(p)
      /\ \A p : Generator(p)' = Generator(p)
  BY DEF vars, HasPassphrase, Generator, Get
<1>4. ExchangeOrder' /\ AgreementSuffices' /\ AcceptedFits'
  <2>1. /\ stage' = stage /\ UNCHANGED <<message, unsent, digest>>
        /\ \A by : NewMessage(by, Generator("daemon"))' = NewMessage(by, Generator("daemon"))
        /\ \A by : NewMessage(by, Generator("server"))' = NewMessage(by, Generator("server"))
    BY <1>3 DEF vars, NewMessage
  <2>2. ExchangeOrder' BY <1>3, <2>1 DEF SignInInv, ExchangeOrder
  <2>3. AgreementSuffices' BY <1>3, <2>1 DEF SignInInv, AgreementSuffices, SameGenerator
  <2>4. AcceptedFits' BY <1>3, <2>1 DEF SignInInv, AcceptedFits, Fits
  <2> QED BY <2>2, <2>3, <2>4
<1> QED BY <1>1, <1>2, <1>3, <1>4 DEF SignInInv

(***************************************************************************)
(* The inductive invariant: both files are read line by line and nothing   *)
(* writes a setting before the arguments do; the exchange goes in order,   *)
(* each message made with the generator of its sender.                     *)
(***************************************************************************)
THEOREM Invariance == Spec => []SignInInv
<1>1. Init => SignInInv BY InitInv
<1>2. SignInInv /\ [Next]_vars => SignInInv'
  <2>1. SUFFICES ASSUME SignInInv, [Next]_vars PROVE SignInInv' OBVIOUS
  <2>2. ASSUME NEW p \in Processes, Parse(p) PROVE SignInInv'
    BY <2>1, <2>2, ParseStep, Zenon
  <2>3. ASSUME NEW p \in Processes, OpenFile(p) PROVE SignInInv'
    BY <2>1, <2>3, OpenFileStep, Zenon
  <2>4. ASSUME NEW p \in Processes, LoadLine(p) PROVE SignInInv'
    BY <2>1, <2>4, LoadLineStep, Zenon
  <2>5. ASSUME NEW p \in Processes, EndOfFile(p) PROVE SignInInv'
    BY <2>1, <2>5, EndOfFileStep, Zenon
  <2>6. CASE ServerInitializesConfig BY <2>1, <2>6, ServerInitializesConfigStep
  <2>7. CASE LoadCertificate BY <2>1, <2>7, LoadCertificateStep
  <2>8. CASE BuildAndStart BY <2>1, <2>8, BuildAndStartStep
  <2>9. CASE InitializeConfig BY <2>1, <2>9, InitializeConfigStep
  <2>10. CASE InitializeGrpcClient BY <2>1, <2>10, InitializeGrpcClientStep
  <2>11. CASE ClientProves BY <2>1, <2>11, ClientProvesStep
  <2>12. CASE CheckClient BY <2>1, <2>12, CheckClientStep
  <2>13. CASE ServerProves BY <2>1, <2>13, ServerProvesStep
  <2>14. CASE CheckServer BY <2>1, <2>14, CheckServerStep
  <2>15. CASE Finished BY <2>1, <2>15, UnchangedStep DEF Finished
  <2>16. CASE UNCHANGED vars BY <2>1, <2>16, UnchangedStep
  <2> HIDE DEF Processes
  <2> QED BY <2>1, <2>2, <2>3, <2>4, <2>5, <2>6, <2>7, <2>8, <2>9, <2>10, <2>11,
             <2>12, <2>13, <2>14, <2>15, <2>16, Zenon DEF Next
<1> QED BY <1>1, <1>2, PTL DEF Spec

(***************************************************************************)
(* For every file and every arguments: what either program acts on is the  *)
(* argument, or else the last line of the file that sets it                *)
(* (Config::Load and Set, initialize_config of both programs).             *)
(***************************************************************************)
THEOREM SettingsAreIntended == Spec => []SettingsIntended
<1>1. SignInInv => SettingsIntended BY DEF SignInInv
<1> QED BY <1>1, Invariance, PTL

(***************************************************************************)
(* For every prime order, passphrase and digest: two programs with the     *)
(* same generator never fail to authenticate each other, but for a         *)
(* response of 0 that cannot be sent (make_zkp, check_zkp and both         *)
(* Authenticate functions).                                                *)
(***************************************************************************)
THEOREM AgreementIsEnough == Spec => []AgreementSuffices
<1>1. SignInInv => AgreementSuffices BY DEF SignInInv
<1> QED BY <1>1, Invariance, PTL

(***************************************************************************)
(* For every prime order, passphrase and digest: with another generator    *)
(* than the other side's, the server and the daemon accept a proof for one *)
(* digest modulo the order only (make_zkp, check_zkp and both Authenticate *)
(* functions).                                                             *)
(***************************************************************************)
THEOREM WrongPassphraseIsRefused == Spec => []WrongPassphraseRefused
<1>1. SignInInv => WrongPassphraseRefused
  <2>1. SUFFICES ASSUME SignInInv, NEW p \in Processes,
                        stage[p] \in {"ACCEPTED", "AUTHENTICATED"}
                 PROVE  digest % Order = ByChance(message, Generator(p))
    BY Zenon DEF WrongPassphraseRefused
  <2>2. /\ message # NoMessage
        /\ HasPassphrase("server") /\ HasPassphrase("daemon")
        /\ \/ message \in NewMessage("client", Generator("daemon"))
           \/ message \in NewMessage("server", Generator("server"))
    BY <2>1 DEF SignInInv, TypeOK, ExchangeOrder, Early, ServerStages, DaemonStages
  <2>3. \A q \in Processes : Generator(q) \in Points /\ Generator(q) # 0
    BY <2>2, GeneratorType
  <2>4. PICK by \in {"client", "server"}, g \in Points :
          g # 0 /\ message \in NewMessage(by, g)
    <3> HIDE DEF Points
    <3> QED BY <2>2, <2>3
  <2>5. /\ digest \in Challenges
        /\ Fits(message.zkp, message.public_key, digest, Generator(p))
    BY <2>1 DEF SignInInv, AcceptedFits, TypeOK
  <2> HIDE DEF Points
  <2> QED BY <2>3, <2>4, <2>5, AcceptedByChance
<1> QED BY <1>1, Invariance, PTL
=============================================================================
