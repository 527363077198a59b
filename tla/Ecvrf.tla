------------------------------- MODULE Ecvrf -------------------------------
(***************************************************************************)
(* verify-network-ecvrf.ts, of which the node and the simulator hold a     *)
(* copy each: the verifiable random function the node proves its words     *)
(* with and the page checks them by.                                       *)
(*                                                                         *)
(* The curve is a group of prime order Q.  Its generator is 1 and a point  *)
(* its own discrete logarithm, so that the product of a point and a scalar *)
(* is the one modulo Q; the hashes are constants.  NoPoint is what is not  *)
(* on the curve, the gamma of the sentinel first of all.                   *)
(***************************************************************************)
EXTENDS Integers

CONSTANTS
  Q,                              \* the order of the group
  C_LIMIT,                        \* the challenges are below it
  HASH_TO_CURVE_MAX_ITERATIONS,
  Alphas,                         \* what may be proved: the ids of requests
  TryHashToPoint(_, _, _),        \* the point of a digest of key, alpha and counter
  Challenge(_, _, _, _),          \* the digest of H, gamma, U and V
  Nonce(_, _)                     \* RFC 6979: of a secret and H

Points == 1..(Q - 1)
NoPoint == 0

\* Every point but the identity generates the group.
ASSUME EcvrfAssumption ==
  /\ Q \in Nat \ {0, 1} /\ C_LIMIT \in Nat /\ HASH_TO_CURVE_MAX_ITERATIONS \in Nat
  /\ \A a, b \in Points : (a * b) % Q # 0
  /\ \A key \in Points, alpha \in Alphas, n \in 0..(HASH_TO_CURVE_MAX_ITERATIONS - 1) :
       TryHashToPoint(key, alpha, n) \in Points \cup {NoPoint}
  /\ \A h, gamma \in Points, u, v \in 0..(Q - 1) : Challenge(h, gamma, u, v) \in 0..(C_LIMIT - 1)
  /\ \A x, h \in Points : Nonce(x, h) \in Points

\* publicKeyPoint, G.multiply(x).
PublicKey(x) == x

\* hashToCurve: try and increment.
HashToCurve(key, alpha) ==
  LET found == {n \in 0..(HASH_TO_CURVE_MAX_ITERATIONS - 1) : TryHashToPoint(key, alpha, n) # NoPoint}
  IN  IF found = {} THEN NoPoint
      ELSE TryHashToPoint(key, alpha, CHOOSE n \in found : \A m \in found : n <= m)

IsFulfillable(key, alpha) == HashToCurve(key, alpha) # NoPoint

\* prove, for an alpha that is fulfillable: it throws for any other.
Prove(x, alpha) ==
  LET h == HashToCurve(PublicKey(x), alpha)
      gamma == (x * h) % Q
      k == Nonce(x, h)
      c == Challenge(h, gamma, k, (k * h) % Q)
  IN  [gamma |-> gamma, c |-> c, s |-> (k + c * x) % Q]

SENTINEL_PROOF == [gamma |-> NoPoint, c |-> 0, s |-> 0]

\* verify: U = s G - c Y and V = s H - c gamma.
Verify(key, proof, alpha) ==
  LET h == HashToCurve(key, alpha)
  IN  /\ proof.c < C_LIMIT /\ proof.s < Q
      /\ proof.gamma # NoPoint
      /\ IsFulfillable(key, alpha)
      /\ proof.c = Challenge(h, proof.gamma, (proof.s - proof.c * key) % Q,
                             (proof.s * h - proof.c * proof.gamma) % Q)

\* deriveRandomness: the digest of gamma, and a zero word for the sentinel.
DeriveRandomness(proof) == proof.gamma

=============================================================================
