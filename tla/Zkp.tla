-------------------------------- MODULE Zkp --------------------------------
(***************************************************************************)
(* The proof that a party knows the passphrase without telling it          *)
(* (crypto/CryptoUtil.cpp) and its form on the wire                        *)
(* (crypto/ZkpSerialization.cpp), as operators on small numbers.           *)
(*                                                                         *)
(* The curve is a group of prime order, external (OpenSSL), and every such *)
(* group is the numbers below Order with addition: a point is its multiple *)
(* of the curve's generator, 0 is the point at infinity, and EC_POINT_mul  *)
(* is multiplication.  A digest is a number that may well exceed Order.    *)
(***************************************************************************)
EXTENDS Integers, Sequences

CONSTANTS
    Order,        \* of the curve group
    Challenges,   \* the digests of make_zkp_challenge, as numbers
    Passphrases,
    Digests       \* of a passphrase: its digest, the digest of that, ...

ASSUME ZkpAssumption ==
    /\ Order \in Nat /\ Order > 3
    /\ Challenges \subseteq Nat
    /\ Digests \in [Passphrases -> Seq(Nat)]
    /\ \A p \in Passphrases : \E i \in DOMAIN Digests[p] : Digests[p][i] % Order # 0

\* No product of two points' factors is the point at infinity.
ASSUME OrderIsPrime == \A a, b \in 1 .. (Order - 1) : (a * b) % Order # 0

Points   == 0 .. (Order - 1)
Infinity == 0
Zkps     == [user_id : {"client", "server"}, V : Points, r : Points]

Times(point, n) == (point * n) % Order

\* make_generator: the first digest that does not lead to infinity.
MakeGenerator(passphrase) ==
    LET digests == Digests[passphrase]
        usable  == {i \in DOMAIN digests : digests[i] % Order # 0}
    IN digests[CHOOSE i \in usable : \A j \in usable : i <= j] % Order

\* Mutated: without moving the random number up by one.
DrawnFromZero == 0 .. (Order - 3)

\* generate_private_key: a random number below order - 2, and one.  (The comment
\* says [1, order - 1]; order - 1 is never drawn.)
PrivateKeys == {n + 1 : n \in 0 .. (Order - 3)}

\* make_zkp, for the random v and the digest c of generator, V, public key and id.
\* Mutated: v + x c.
ProofAdded(user_id, x, v, c, generator) ==
    [user_id |-> user_id, V |-> Times(generator, v), r |-> (v + ((x * c) % Order)) % Order]

MakeZkp(user_id, x, v, c, generator) ==
    [user_id |-> user_id, V |-> Times(generator, v), r |-> (v - ((x * c) % Order)) % Order]

\* G r + P c = V
Fits(z, public_key, c, generator) ==
    z.V = ((generator * z.r) + (public_key * c)) % Order

\* Mutated: only an error of EC_POINT_cmp refuses, not points that differ.
CheckZkpForm(z, public_key, c, local_id, generator) ==
    /\ public_key # Infinity /\ Times(public_key, 1) # Infinity
    /\ z.V # Infinity
    /\ z.user_id # local_id /\ z.user_id # ""

\* check_zkp.  The cofactor of the curve is 1.
CheckZkp(z, public_key, c, local_id, generator) ==
    /\ public_key # Infinity /\ Times(public_key, 1) # Infinity
    /\ z.V # Infinity
    /\ z.user_id # local_id /\ z.user_id # ""
    /\ Fits(z, public_key, c, generator)

\* zkp_serialize: a number's bytes have no leading zeros, so 0 has none at all,
\* which is taken for an error.  Points are points again in either form.
CanSerialize(z) == z.r # 0
=============================================================================
