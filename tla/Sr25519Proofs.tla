---------------------------- MODULE Sr25519Proofs ----------------------------
(***************************************************************************)
(* The two backends of packages/sr25519 make keys and signatures that      *)
(* belong together, and accept each other's and no others: the remainders  *)
(* the group is made of, the two equations that verify, and the invariant  *)
(* of the processes that use them.                                         *)
(***************************************************************************)
EXTENDS Sr25519, TLAPS

-----------------------------------------------------------------------------
(* Remainders.                                                             *)
LEMMA Order == Q \in Nat /\ Q > 1 /\ G \in 1..(Q - 1)
  BY GroupAssumption

(* A number is a multiple of the order and its remainder,                  *)
LEMMA Remainder ==
    ASSUME NEW a \in Int
    PROVE  /\ a % Q \in 0..(Q - 1)
           /\ a \div Q \in Int /\ a = (a % Q) + Q * (a \div Q)
  BY Order

(* which are the only ones,                                                *)
LEMMA RemainderUnique ==
    ASSUME NEW m \in 0..(Q - 1), NEW n \in Int
    PROVE  (m + Q * n) % Q = m
  <1> DEFINE a == m + Q * n
             d == a \div Q
             r == a % Q
  <1>1. a \in Int  BY Order
  <1>2. r \in 0..(Q - 1) /\ d \in Int /\ a = r + Q * d  BY <1>1, Remainder
  <1>3. m + Q * n = r + Q * d  BY <1>2
  <1> HIDE DEF d, r
  <1>4. Q * (n - d) = r - m  BY <1>2, <1>3, Order
  <1>5. CASE n = d  BY <1>2, <1>3, <1>5, Order DEF r
  <1>6. CASE n > d
    <2>1. Q * (n - d) >= Q  BY <1>6, <1>2, Order
    <2> QED  BY <2>1, <1>4, <1>2, Order
  <1>7. CASE n < d
    <2>1. Q * (d - n) >= Q  BY <1>7, <1>2, Order
    <2>2. Q * (d - n) = m - r  BY <1>4, <1>2, Order
    <2> QED  BY <2>1, <2>2, <1>2, Order
  <1> QED  BY <1>2, <1>5, <1>6, <1>7

LEMMA RemainderOfSmall ==
    ASSUME NEW m \in 0..(Q - 1)
    PROVE  m % Q = m
  <1>1. m + Q * 0 = m  BY Order
  <1> QED  BY <1>1, RemainderUnique

(* and multiples of the order do not change the remainder.                 *)
LEMMA RemainderOfSum ==
    ASSUME NEW a \in Int, NEW n \in Int
    PROVE  (a + Q * n) % Q = a % Q
  <1> DEFINE d == a \div Q
             m == a % Q
  <1>1. m \in 0..(Q - 1) /\ d \in Int /\ a = m + Q * d  BY Remainder
  <1> HIDE DEF d, m
  <1>2. a + Q * n = m + Q * (d + n)  BY <1>1, Order
  <1>3. d + n \in Int  BY <1>1
  <1>4. (m + Q * (d + n)) % Q = m  BY <1>1, <1>3, RemainderUnique
  <1> QED  BY <1>2, <1>4 DEF m

(* A summand, and a factor, may be replaced by its remainder.              *)
LEMMA Summand ==
    ASSUME NEW a \in Int, NEW b \in Int
    PROVE  ((a % Q) + b) % Q = (a + b) % Q
  <1> DEFINE d == a \div Q
             m == a % Q
  <1>1. m \in 0..(Q - 1) /\ d \in Int /\ a = m + Q * d  BY Remainder
  <1> HIDE DEF d, m
  <1>2. a + b = (m + b) + Q * d  BY <1>1, Order
  <1>3. m + b \in Int  BY <1>1
  <1>4. ((m + b) + Q * d) % Q = (m + b) % Q  BY <1>1, <1>3, RemainderOfSum
  <1> QED  BY <1>2, <1>4 DEF m

LEMMA Factor ==
    ASSUME NEW a \in Int, NEW b \in Int
    PROVE  ((a % Q) * b) % Q = (a * b) % Q
  <1> DEFINE d == a \div Q
             m == a % Q
  <1>1. m \in 0..(Q - 1) /\ d \in Int /\ a = m + Q * d  BY Remainder
  <1> HIDE DEF d, m
  <1>2. a * b = m * b + (Q * d) * b  BY <1>1, Order
  <1>3. (Q * d) * b = Q * (d * b)  BY <1>1, Order
  <1>4. m * b \in Int /\ d * b \in Int  BY <1>1
  <1>5. (m * b + Q * (d * b)) % Q = (m * b) % Q  BY <1>4, RemainderOfSum
  <1> QED  BY <1>2, <1>3, <1>5 DEF m

(* A summand may be taken away from both sides,                            *)
LEMMA TakeAway ==
    ASSUME NEW a \in Int, NEW u \in Int, NEW v \in Int, (a + u) % Q = (a + v) % Q
    PROVE  u % Q = v % Q
  <1>1. (((a + u) % Q) + (-a)) % Q = ((a + u) + (-a)) % Q  BY Summand
  <1>2. (((a + v) % Q) + (-a)) % Q = ((a + v) + (-a)) % Q  BY Summand
  <1>3. (a + u) + (-a) = u /\ (a + v) + (-a) = v  OBVIOUS
  <1> QED  BY <1>1, <1>2, <1>3

(* and, as the order is a prime, a factor may be divided by.               *)
LEMMA DivideBy ==
    ASSUME NEW u \in 0..(Q - 1), NEW v \in 0..(Q - 1), NEW p \in 1..(Q - 1),
           (u * p) % Q = (v * p) % Q
    PROVE  u = v
  <1>1. ASSUME NEW x \in 0..(Q - 1), NEW y \in 0..(Q - 1), x > y,
               (x * p) % Q = (y * p) % Q
        PROVE  FALSE
    <2>1. x - y \in 1..(Q - 1)  BY <1>1, Order
    <2>2. ((x - y) * p) % Q # 0  BY <2>1, GroupAssumption
    <2> DEFINE a == y * p
               d == (x - y) * p
    <2>3. a \in Int /\ d \in Int /\ x * p = a + d /\ a = a + 0  BY Order
    <2>4. (x * p) % Q = a % Q /\ d % Q # 0  BY <1>1, <2>2
    <2> HIDE DEF a, d
    <2>5. (a + d) % Q = (a + 0) % Q  BY <2>3, <2>4, Zenon
    <2>6. d % Q = 0 % Q
      <3>1. a \in Int /\ d \in Int /\ 0 \in Int  BY <2>3
      <3> QED  BY <3>1, <2>5, TakeAway, Zenon
    <2>7. 0 % Q = 0  BY RemainderOfSmall, Order
    <2> QED  BY <2>4, <2>6, <2>7
  <1>2. ~(u > v) /\ ~(v > u)  BY <1>1
  <1> QED  BY <1>2, Order

-----------------------------------------------------------------------------
(* Keys, signatures and the two equations.                                 *)
LEMMA ChallengeType ==
    ASSUME NEW public \in Int, NEW r \in Int, NEW message \in Int
    PROVE  Challenge(public, r, message) \in 0..(Q - 1)
  <1>1. 1 + message + public * r \in Int  OBVIOUS
  <1> QED  BY <1>1, Remainder DEF Challenge

(* A public key is never the neutral element.                              *)
LEMMA PublicType ==
    ASSUME NEW secret \in 1..(Q - 1)
    PROVE  PublicOf(secret) \in 1..(Q - 1)
  <1>1. (secret * G) % Q # 0  BY GroupAssumption
  <1>2. secret * G \in Int  BY Order
  <1> QED  BY <1>1, <1>2, Remainder, Order DEF PublicOf

(* What is signed with a secret key verifies with its public key.          *)
LEMMA SignedVerifies ==
    ASSUME NEW secret \in 1..(Q - 1), NEW message \in Int, NEW nonce \in 1..(Q - 1)
    PROVE  VerifySimple(PublicOf(secret), message, SignSimple(secret, message, nonce))
  <1> DEFINE p == PublicOf(secret)
             r == (nonce * G) % Q
             c == Challenge(p, r, message)
             s == (nonce + c * secret) % Q
             n == nonce * G
             k == secret * G
  <1>1. n \in Int /\ k \in Int /\ p = k % Q /\ r = n % Q  BY Order DEF PublicOf
  <1>2. p \in Int /\ r \in Int  BY <1>1, Remainder
  <1>3. c \in Int  BY <1>2, ChallengeType
  <1>4. (s * G) % Q = (n + c * k) % Q
    <2> HIDE DEF c
    <2> DEFINE t == nonce + c * secret
    <2>1. t \in Int /\ s = t % Q  BY <1>3
    <2>2. t * G = n + c * k
      <3>1. t * G = nonce * G + (c * secret) * G  BY <1>3, Order
      <3>2. (c * secret) * G = c * (secret * G)  BY <1>3, Order
      <3> QED  BY <3>1, <3>2
    <2> HIDE DEF t, s
    <2>3. G \in Int  BY Order
    <2>4. ((t % Q) * G) % Q = (t * G) % Q  BY <2>1, <2>3, Factor, Zenon
    <2> QED  BY <2>1, <2>2, <2>4, Zenon
  <1>5. (r + c * p) % Q = (n + c * k) % Q
    <2> HIDE DEF c, p, r, n, k
    <2>1. c * p = p * c /\ c * p \in Int /\ c * k = k * c /\ c * k \in Int
      BY <1>1, <1>2, <1>3
    <2>2. (p * c) % Q = (k * c) % Q  BY <1>1, <1>3, Factor
    <2>3. ((n % Q) + c * p) % Q = (n + c * p) % Q  BY <1>1, <2>1, Summand
    <2>4. n + c * p = c * p + n /\ n + c * k = c * k + n  BY <1>1, <2>1
    <2>5. (((c * p) % Q) + n) % Q = (c * p + n) % Q  BY <1>1, <2>1, Summand
    <2>6. (((c * k) % Q) + n) % Q = (c * k + n) % Q  BY <1>1, <2>1, Summand
    <2> QED  BY <1>1, <2>1, <2>2, <2>3, <2>4, <2>5, <2>6
  <1> QED  BY <1>4, <1>5 DEF SignSimple, VerifySimple

(* It verifies for one message only.                                       *)
LEMMA VerifiesOnce ==
    ASSUME NEW public \in 1..(Q - 1), NEW sig, sig.r \in 0..(Q - 1),
           NEW m1 \in 0..(Q - 1), NEW m2 \in 0..(Q - 1),
           VerifySimple(public, m1, sig), VerifySimple(public, m2, sig)
    PROVE  m1 = m2
  <1> DEFINE x == 1 + public * sig.r
             c1 == Challenge(public, sig.r, m1)
             c2 == Challenge(public, sig.r, m2)
  <1>1. x \in Int /\ 1 + m1 + public * sig.r = x + m1 /\ 1 + m2 + public * sig.r = x + m2
    BY Order
  <1>2. c1 = (x + m1) % Q /\ c2 = (x + m2) % Q  BY <1>1 DEF Challenge
  <1>3. c1 \in 0..(Q - 1) /\ c2 \in 0..(Q - 1)
    <2>1. public \in Int /\ sig.r \in Int /\ m1 \in Int /\ m2 \in Int  BY Order
    <2> QED  BY <2>1, ChallengeType, Zenon
  <1>4. (sig.r + c1 * public) % Q = (sig.r + c2 * public) % Q  BY DEF VerifySimple
  <1> HIDE DEF x, c1, c2
  <1>5. (c1 * public) % Q = (c2 * public) % Q
    <2>1. c1 * public \in Int /\ c2 * public \in Int /\ sig.r \in Int  BY <1>3, Order
    <2> QED  BY <2>1, <1>4, TakeAway
  <1>6. c1 = c2  BY <1>3, <1>5, DivideBy
  <1>7. m1 % Q = m2 % Q  BY <1>1, <1>2, <1>6, TakeAway
  <1> QED  BY <1>7, RemainderOfSmall

(* The equation of the PublicKey object, of which the key is negated, is   *)
(* that of the library.                                                    *)
LEMMA SameEquation ==
    ASSUME NEW k \in Int, NEW p \in Int, NEW s \in Int, NEW r \in 0..(Q - 1)
    PROVE  (s * G - k * p) % Q = r <=> (s * G) % Q = (r + k * p) % Q
  <1> DEFINE a == s * G
             b == k * p
  <1>1. a \in Int /\ b \in Int /\ a - b \in Int /\ r \in Int  BY Order
  <1> HIDE DEF a, b
  <1>2. (a - b) + b = a /\ (r + b) + (-b) = r /\ a + (-b) = a - b  BY <1>1
  <1>3. (((a - b) % Q) + b) % Q = ((a - b) + b) % Q  BY <1>1, Summand
  <1>4. ((a % Q) + (-b)) % Q = (a + (-b)) % Q  BY <1>1, Summand
  <1>5. (((r + b) % Q) + (-b)) % Q = ((r + b) + (-b)) % Q  BY <1>1, Summand
  <1>6. r % Q = r  BY RemainderOfSmall
  <1>7. (a - b) % Q = r <=> a % Q = (r + b) % Q  BY <1>2, <1>3, <1>4, <1>5, <1>6
  <1> QED  BY <1>7 DEF a, b

-----------------------------------------------------------------------------
(* The invariant: only a library of this version is ever called; what was  *)
(* returned is what the group's equations say of it; a PublicKey object    *)
(* that was decoded into no more keeps the encoding of its key; and verify *)
(* answered as one equation does, in either backend.                       *)
ProcessInv ==
    /\ crypto \in {"none", "rust", "dart"} /\ cached \in {"none", "good"}
    /\ cached = "good" => attempted = TRUE
    /\ crypto = "rust" => cached = "good"

KeyOf(secret) == [secret |-> secret, public |-> PublicOf(secret)]

KeysInv == keys \subseteq {KeyOf(secret) : secret \in 1..(Q - 1)}

Signatures == [r : 0..(Q - 1), s : 0..(Q - 1), marked : {TRUE}]

Entries == [public : 1..(Q - 1), message : Messages, sig : Signatures]

SignedInv ==
    /\ signed \subseteq Entries
    /\ \A entry \in signed : VerifySimple(entry.public, entry.message, entry.sig)

HeldInv ==
    /\ reused \in BOOLEAN
    /\ held # Nothing =>
           /\ held \in [point : 1..(Q - 1), compressed : 1..(Q - 1) \cup {Nothing}]
           /\ ~reused => Encoded(held) = held.point

Accepts(public, sig, message) ==
    Decodes(public) /\ SignatureDecodes(sig) /\ VerifySimple(public, message, sig)

AnswerInv ==
    answer # Nothing =>
        /\ answer.message \in Messages
        /\ ~answer.reused => answer.value = Accepts(answer.public, answer.sig, answer.message)

Inv == ProcessInv /\ KeysInv /\ SignedInv /\ HeldInv /\ AnswerInv

-----------------------------------------------------------------------------
(* What the backends return, whichever is called.                          *)
LEMMA MessageRead ==
    ASSUME NEW message \in Messages
    PROVE  /\ message \in 0..(Q - 1)
           /\ ~(CopyMessage(message) = Null /\ Length(message) # 0)
           /\ Message(CopyMessage(message), Length(message)) = message
  <1>1. message \in 0..(Q - 1)  BY GroupAssumption
  <1>2. message # Null  BY <1>1, Order, NothingAssumption
  <1> QED  BY <1>1, <1>2 DEF CopyMessage, Length, Message

LEMMA KeyPairSame ==
    ASSUME ProcessInv, NEW seed \in 1..(Q - 1)
    PROVE  KeyPair(seed) = KeyOf(seed)
  BY DEF ProcessInv, KeyPair, KeyOf, Check, sr25519_keypair_from_seed, Writes, OK, PublicOf

LEMMA PublicSame ==
    ASSUME ProcessInv, NEW secret \in 1..(Q - 1)
    PROVE  PublicFromSecret(secret) = PublicOf(secret)
  <1>1. Decodes(secret)  BY Order DEF Decodes
  <1> QED  BY <1>1 DEF ProcessInv, PublicFromSecret, Check, sr25519_public_from_secret, Writes,
              OK, PublicOf

LEMMA DamagedRefused ==
    ASSUME ProcessInv
    PROVE  PublicFromSecret(ByteMax) = Throws
  <1>1. ~Decodes(ByteMax)  BY Order, GroupAssumption DEF Decodes
  <1>2. cached # "old"  BY DEF ProcessInv
  <1>3. Fails(ERR_PARSE).rc # OK  BY DEF Fails, ERR_PARSE, OK
  <1> QED  BY <1>1, <1>2, <1>3 DEF PublicFromSecret, Check, sr25519_public_from_secret

LEMMA SignSame ==
    ASSUME ProcessInv, NEW secret \in 1..(Q - 1), NEW message \in Messages,
           NEW nonce \in 1..(Q - 1)
    PROVE  Sign(secret, message, nonce) = SignSimple(secret, message, nonce)
  <1>1. Decodes(secret)  BY Order DEF Decodes
  <1>2. RustSign(secret, message, nonce) = SignSimple(secret, message, nonce)
    <2>1. sr25519_sign(secret, CopyMessage(message), Length(message), nonce)
            = Writes(SignSimple(secret, message, nonce))
      BY <1>1, MessageRead DEF sr25519_sign
    <2>2. cached # "old"  BY DEF ProcessInv
    <2> QED  BY <2>1, <2>2 DEF RustSign, Check, Writes, OK
  <1>3. DartSign(secret, message, nonce) = SignSimple(secret, message, nonce)
    <2> DEFINE r == (nonce * G) % Q
               c == Challenge(PublicOf(secret), r, message)
    <2>1. r \in Int /\ PublicOf(secret) \in Int /\ message \in Int /\ secret \in Int /\ nonce \in Int
      <3>1. nonce * G \in Int  BY Order
      <3> QED  BY <3>1, Remainder, PublicType, MessageRead, Order
    <2>2. c \in Int  BY <2>1, ChallengeType
    <2> HIDE DEF r, c
    <2>3. nonce + c * secret = secret * c + nonce  BY <2>1, <2>2
    <2> QED  BY <1>1, <2>3 DEF DartSign, SignSimple, PublicOf, r, c
  <1> QED  BY <1>2, <1>3 DEF Sign

LEMMA SignedType ==
    ASSUME NEW secret \in 1..(Q - 1), NEW message \in Int, NEW nonce \in 1..(Q - 1)
    PROVE  SignSimple(secret, message, nonce) \in Signatures
  <1> DEFINE r == (nonce * G) % Q
             c == Challenge(PublicOf(secret), r, message)
  <1>1. nonce * G \in Int /\ PublicOf(secret) \in Int  BY PublicType, Order
  <1>2. r \in 0..(Q - 1)  BY <1>1, Remainder
  <1>3. c \in Int  BY <1>1, <1>2, ChallengeType
  <1> HIDE DEF r, c
  <1>4. nonce + c * secret \in Int  BY <1>3
  <1>5. (nonce + c * secret) % Q \in 0..(Q - 1)  BY <1>4, Remainder
  <1> QED  BY <1>2, <1>5 DEF SignSimple, Signatures, r, c

Sent == [r : 0..(Q - 1), s : 0..ByteMax, marked : BOOLEAN]

LEMMA DamagedType ==
    ASSUME NEW sig \in Signatures, NEW damaged \in Damaged(sig)
    PROVE  damaged \in Sent
  <1>1. 0..(Q - 1) \subseteq 0..ByteMax /\ ByteMax \in 0..ByteMax  BY Order, GroupAssumption
  <1>2. sig \in Sent  BY <1>1 DEF Signatures, Sent
  <1> HIDE DEF Sent
  <1>3. [sig EXCEPT !.marked = FALSE] \in Sent  BY <1>2 DEF Sent
  <1>4. [sig EXCEPT !.s = ByteMax] \in Sent  BY <1>1, <1>2 DEF Sent
  <1> QED  BY <1>2, <1>3, <1>4, Zenon DEF Damaged

(* A PublicKey object that keeps the encoding of its key answers as the    *)
(* one equation does,                                                      *)
LEMMA ObjectSame ==
    ASSUME NEW pub, pub.point \in 1..(Q - 1), Encoded(pub) = pub.point,
           NEW sig \in Sent, SignatureDecodes(sig), NEW message \in Messages
    PROVE  ObjectVerifies(pub, sig, message) = Accepts(pub.point, sig, message)
  <1> DEFINE k == Challenge(pub.point, sig.r, message)
  <1>1. pub.point \in Int /\ sig.r \in Int /\ sig.r \in 0..(Q - 1) /\ sig.s \in Int
    BY Order, GroupAssumption DEF Sent
  <1>2. k \in Int
    <2>1. message \in Int  BY MessageRead
    <2>2. k \in 0..(Q - 1)  BY <1>1, <2>1, ChallengeType
    <2> QED  BY <2>2, Order
  <1>3. Decodes(pub.point)  BY Order DEF Decodes
  <1> HIDE DEF k
  <1>4. (sig.s * G - k * pub.point) % Q = sig.r <=> (sig.s * G) % Q = (sig.r + k * pub.point) % Q
    BY <1>1, <1>2, SameEquation
  <1>5. ~AtInfinity(pub)  BY SMT DEF AtInfinity
  <1> QED  BY <1>3, <1>4, <1>5 DEF ObjectVerifies, VerifySimple, Accepts, k

(* and so does either backend.                                             *)
LEMMA VerifySame ==
    ASSUME ProcessInv, NEW public \in 1..(Q - 1) \cup {ByteMax}, NEW sig \in Sent,
           NEW message \in Messages
    PROVE  Verify(public, sig, message) = Accepts(public, sig, message)
  <1>1. Decodes(sig.r)  BY Order DEF Sent, Decodes
  <1>2. RustVerify(public, sig, message) = Accepts(public, sig, message)
    <2> DEFINE rc == sr25519_verify(public, sig, CopyMessage(message), Length(message))
    <2>1. rc = IF ~Decodes(public) \/ ~Decodes(sig.s) \/ ~sig.marked THEN ERR_PARSE
               ELSE IF VerifySimple(public, message, sig) THEN 1 ELSE 0
      BY MessageRead DEF sr25519_verify
    <2>2. RustVerify(public, sig, message) = IF rc = ERR_NULL THEN Throws ELSE rc = 1
      BY DEF RustVerify
    <2> HIDE DEF rc
    <2>3. rc # ERR_NULL /\ (rc = 1 <=> Accepts(public, sig, message))
      BY <1>1, <2>1 DEF ERR_PARSE, ERR_NULL, Accepts, SignatureDecodes
    <2> QED  BY <2>2, <2>3 DEF Accepts
  <1>3. DartVerify(public, sig, message) = Accepts(public, sig, message)
    <2>1. CASE ~Decodes(public)  BY <2>1 DEF DartVerify, Accepts
    <2>2. CASE ~SignatureDecodes(sig)  BY <2>2 DEF DartVerify, Accepts
    <2>3. CASE Decodes(public) /\ SignatureDecodes(sig)
      <3> DEFINE pub == NewPublicKey(public)
      <3>1. public \in 1..(Q - 1)  BY <2>3, GroupAssumption DEF Decodes
      <3>2. Encoded(pub) = public /\ pub.point = public  BY DEF Encoded, NewPublicKey
      <3> HIDE DEF pub
      <3>3. ObjectVerifies(pub, sig, message) = Accepts(public, sig, message)
        BY <2>3, <3>1, <3>2, ObjectSame
      <3> QED  BY <2>3, <3>3 DEF DartVerify, Accepts, pub
    <2> QED  BY <2>1, <2>2, <2>3
  <1> QED  BY <1>2, <1>3 DEF Verify

-----------------------------------------------------------------------------
(* What a caller gets belongs together.                                    *)
LEMMA KeysFollow ==
    ASSUME Inv
    PROVE  KeysBelongTogether
  <1>1. ASSUME NEW key \in keys
        PROVE  /\ key \in [secret : 0..(Q - 1), public : 1..(Q - 1)]
               /\ key.public = PublicOf(key.secret)
    <2>1. PICK secret \in 1..(Q - 1) : key = KeyOf(secret)  BY <1>1 DEF Inv, KeysInv
    <2>2. PublicOf(secret) \in 1..(Q - 1) /\ secret \in 0..(Q - 1)  BY PublicType, Order
    <2> QED  BY <2>1, <2>2 DEF KeyOf
  <1>2. \A entry \in signed : VerifySimple(entry.public, entry.message, entry.sig)
    BY DEF Inv, SignedInv
  <1> QED  BY <1>1, <1>2 DEF KeysBelongTogether

(* What was signed is accepted: the other message and the damaged bytes    *)
(* are not, by VerifiesOnce and by what decodes.                           *)
LEMMA AnswersFollow ==
    ASSUME Inv
    PROVE  SignaturesHold
  <1> DEFINE p == answer.public
             sig == answer.sig
             m == answer.message
             Fits(entry) == entry.public = p /\ entry.message = m /\ entry.sig = sig
             Known == \E entry \in signed : entry.public = p /\ sig \in Damaged(entry.sig)
  <1> SUFFICES ASSUME answer # Nothing, ~answer.reused, Decodes(p) => Known
               PROVE  answer.value = \E entry \in signed : Fits(entry)
    BY DEF SignaturesHold
  <1>1. m \in Messages /\ answer.value = Accepts(p, sig, m)  BY DEF Inv, AnswerInv
  <1>2. ASSUME NEW entry \in signed
        PROVE  /\ entry \in Entries /\ Decodes(entry.public) /\ SignatureDecodes(entry.sig)
               /\ VerifySimple(entry.public, entry.message, entry.sig)
    <2>1. entry \in Entries /\ VerifySimple(entry.public, entry.message, entry.sig)
      BY <1>2 DEF Inv, SignedInv
    <2>2. entry.public \in 1..(Q - 1) /\ entry.sig \in Signatures  BY <2>1 DEF Entries
    <2>3. Decodes(entry.public)  BY <2>2, Order DEF Decodes
    <2>4. SignatureDecodes(entry.sig)
      <3>1. entry.sig.marked = TRUE /\ entry.sig.r \in 0..(Q - 1) /\ entry.sig.s \in 0..(Q - 1)
        BY <2>2 DEF Signatures
      <3>2. entry.sig.r < Q /\ entry.sig.s < Q  BY <3>1, Order
      <3> QED  BY <3>1, <3>2 DEF SignatureDecodes, Decodes
    <2> QED  BY <2>1, <2>3, <2>4
  <1>3. ASSUME NEW entry \in signed, Fits(entry)
        PROVE  Accepts(p, sig, m)
    BY <1>2, <1>3 DEF Accepts
  <1>4. ASSUME Accepts(p, sig, m)
        PROVE  \E entry \in signed : Fits(entry)
    <2>1. PICK entry \in signed : entry.public = p /\ sig \in Damaged(entry.sig)
      BY <1>4 DEF Accepts
    <2>2. entry \in Entries /\ VerifySimple(p, entry.message, entry.sig)  BY <1>2, <2>1
    <2>3. sig.marked /\ Decodes(sig.s) /\ VerifySimple(p, m, sig)
      BY <1>4 DEF Accepts, SignatureDecodes
    <2>4. sig = entry.sig
      <3>1. entry.sig \in Signatures  BY <2>2 DEF Entries
      <3>2. [entry.sig EXCEPT !.marked = FALSE].marked = FALSE  BY <3>1 DEF Signatures
      <3>3. [entry.sig EXCEPT !.s = ByteMax].s = ByteMax  BY <3>1 DEF Signatures
      <3>4. ~Decodes(ByteMax)  BY GroupAssumption DEF Decodes
      <3> QED  BY <2>1, <2>3, <3>2, <3>3, <3>4 DEF Damaged
    <2>5. p \in 1..(Q - 1) /\ sig.r \in 0..(Q - 1) /\ entry.message \in Messages
      BY <2>1, <2>2, <2>4 DEF Entries, Signatures
    <2>6. m \in 0..(Q - 1) /\ entry.message \in 0..(Q - 1)
      BY <1>1, <2>5, GroupAssumption
    <2>7. entry.message = m  BY <2>2, <2>3, <2>4, <2>5, <2>6, VerifiesOnce, Zenon
    <2> QED  BY <2>1, <2>4, <2>7
  <1> QED  BY <1>1, <1>3, <1>4 DEF Accepts

-----------------------------------------------------------------------------
LEMMA InitInv == Init => Inv
  BY DEF Init, Inv, ProcessInv, KeysInv, SignedInv, HeldInv, AnswerInv

(* Each action keeps the invariant.  What most leave alone goes first.     *)
LEMMA ProcessKept ==
    ASSUME ProcessInv, UNCHANGED <<attempted, cached, crypto>>
    PROVE  ProcessInv'
  BY DEF ProcessInv

LEMMA KeysKept ==
    ASSUME KeysInv, keys' = keys
    PROVE  KeysInv'
  BY DEF KeysInv

LEMMA SignedKept ==
    ASSUME SignedInv, signed' = signed
    PROVE  SignedInv'
  BY DEF SignedInv

LEMMA HeldKept ==
    ASSUME HeldInv, UNCHANGED <<held, reused>>
    PROVE  HeldInv'
  BY DEF HeldInv

LEMMA AnswerKept ==
    ASSUME AnswerInv, answer' = answer
    PROVE  AnswerInv'
  BY DEF AnswerInv

LEMMA InstallInv ==
    ASSUME Inv, NEW l \in {"none", "good", "old"}, Install(l)
    PROVE  Inv'
  BY ProcessKept, KeysKept, SignedKept, HeldKept, AnswerKept DEF Inv, Install, process

LEMMA RestartInv ==
    ASSUME Inv, Restart
    PROVE  Inv'
  <1>1. ProcessInv'  BY DEF Restart, ProcessInv
  <1>2. HeldInv'  BY DEF Restart, HeldInv
  <1> QED  BY <1>1, <1>2, KeysKept, SignedKept, AnswerKept DEF Inv, Restart

LEMMA CreateInv ==
    ASSUME Inv, NEW which \in {"default", "rust", "dart"}, Create(which)
    PROVE  Inv'
  <1>1. ProcessInv'
    <2>1. CASE which = "dart"  BY <2>1 DEF Inv, Create, ProcessInv
    <2>2. CASE which # "dart"
      <3>1. attempted' = TRUE /\ cached' = tryLoad  BY <2>2 DEF Create
      <3>2. tryLoad \in {"none", "good"}  BY DEF Inv, ProcessInv, tryLoad, Loaded
      <3>3. cached = "good" => tryLoad = "good"  BY DEF Inv, ProcessInv, tryLoad
      <3> QED  BY <3>1, <3>2, <3>3 DEF Inv, Create, ProcessInv
    <2> QED  BY <2>1, <2>2
  <1> QED  BY <1>1, KeysKept, SignedKept, HeldKept, AnswerKept DEF Inv, Create

LEMMA GenerateInv ==
    ASSUME Inv, NEW seed \in Seeds, Generate(seed)
    PROVE  Inv'
  <1>1. seed \in 1..(Q - 1)  BY GroupAssumption
  <1>2. KeyPair(seed) = KeyOf(seed)  BY <1>1, KeyPairSame DEF Inv
  <1>3. KeysInv'
    <2>1. keys' = keys \cup {KeyOf(seed)}  BY <1>2 DEF Generate
    <2> QED  BY <1>1, <2>1 DEF Inv, KeysInv, KeyOf, PublicOf
  <1> QED  BY <1>3, ProcessKept, SignedKept, HeldKept, AnswerKept DEF Inv, Generate, process

LEMMA RecoverInv ==
    ASSUME Inv, NEW secret \in {k.secret : k \in keys} \cup {ByteMax}, Recover(secret)
    PROVE  Inv'
  <1>1. KeysInv'
    <2>1. CASE secret = ByteMax
      <3>1. keys' = keys  BY <2>1, DamagedRefused DEF Inv, Recover
      <3> QED  BY <3>1, KeysKept DEF Inv
    <2>2. CASE secret \in {k.secret : k \in keys}
      <3>1. PICK k \in keys : secret = k.secret  BY <2>2
      <3>2. PICK s \in 1..(Q - 1) : k = KeyOf(s)  BY <3>1 DEF Inv, KeysInv
      <3>3. secret = s  BY <3>1, <3>2 DEF KeyOf
      <3>4. PublicFromSecret(secret) = PublicOf(secret)  BY <3>3, PublicSame DEF Inv
      <3>5. keys' \subseteq keys \cup {KeyOf(secret)}  BY <3>4 DEF Recover, KeyOf
      <3>6. KeyOf(secret) = k  BY <3>2, <3>3
      <3>7. keys' \subseteq keys  BY <3>1, <3>5, <3>6
      <3> QED  BY <3>7 DEF Inv, KeysInv, KeyOf, PublicOf
    <2> QED  BY <2>1, <2>2
  <1> QED  BY <1>1, ProcessKept, SignedKept, HeldKept, AnswerKept DEF Inv, Recover, process

LEMMA SignWithInv ==
    ASSUME Inv, NEW key \in keys, NEW message \in Messages, NEW nonce \in 1..(Q - 1),
           SignWith(key, message, nonce)
    PROVE  Inv'
  <1>1. PICK secret \in 1..(Q - 1) : key = KeyOf(secret)  BY DEF Inv, KeysInv
  <1>2. key.secret = secret /\ key.public = PublicOf(secret)  BY <1>1 DEF KeyOf
  <1> DEFINE sig == SignSimple(secret, message, nonce)
             entry == [public |-> PublicOf(secret), message |-> message, sig |-> sig]
  <1>3. Sign(key.secret, message, nonce) = sig  BY <1>2, SignSame DEF Inv
  <1>4. signed' = signed \cup {entry}  BY <1>2, <1>3 DEF SignWith
  <1>5. message \in Int  BY MessageRead
  <1>6. sig \in Signatures /\ PublicOf(secret) \in 1..(Q - 1)  BY <1>5, SignedType, PublicType
  <1>7. VerifySimple(PublicOf(secret), message, sig)  BY <1>5, SignedVerifies
  <1> HIDE DEF sig
  <1>8. entry \in Entries  BY <1>6 DEF Entries
  <1>9. VerifySimple(entry.public, entry.message, entry.sig)  BY <1>7
  <1> HIDE DEF entry
  <1>10. SignedInv'
    <2>1. signed' \subseteq Entries  BY <1>4, <1>8 DEF Inv, SignedInv
    <2>2. ASSUME NEW e \in signed' PROVE VerifySimple(e.public, e.message, e.sig)
      BY <2>2, <1>4, <1>9 DEF Inv, SignedInv
    <2> QED  BY <2>1, <2>2 DEF SignedInv, Entries, VerifySimple, Challenge, Signatures
  <1> QED  BY <1>10, ProcessKept, KeysKept, HeldKept, AnswerKept DEF Inv, SignWith, process

LEMMA VerifyWithInv ==
    ASSUME Inv, NEW entry \in signed, NEW sig \in Damaged(entry.sig),
           NEW message \in Messages, NEW public \in {entry.public, ByteMax},
           VerifyWith(public, sig, message)
    PROVE  Inv'
  <1>1. entry.public \in 1..(Q - 1) /\ entry.sig \in Signatures
    BY DEF Inv, SignedInv, Entries
  <1>2. sig \in Sent /\ public \in 1..(Q - 1) \cup {ByteMax}  BY <1>1, DamagedType
  <1>3. Verify(public, sig, message) = Accepts(public, sig, message)
    BY <1>2, VerifySame DEF Inv
  <1>4. answer' = [public |-> public, sig |-> sig, message |-> message,
                   value |-> Accepts(public, sig, message), reused |-> FALSE]
    BY <1>3 DEF VerifyWith
  <1>5. AnswerInv'  BY <1>4 DEF AnswerInv, Accepts, Decodes, SignatureDecodes, VerifySimple, Challenge
  <1> QED  BY <1>5, ProcessKept, KeysKept, SignedKept, HeldKept DEF Inv, VerifyWith, process

LEMMA ObjectNewInv ==
    ASSUME Inv, NEW key \in keys, ObjectNew(key.public)
    PROVE  Inv'
  <1>1. PICK secret \in 1..(Q - 1) : key = KeyOf(secret)  BY DEF Inv, KeysInv
  <1>2. key.public \in 1..(Q - 1)  BY <1>1, PublicType DEF KeyOf
  <1>3. HeldInv'  BY <1>2 DEF Inv, ObjectNew, HeldInv, NewPublicKey, Encoded
  <1> QED  BY <1>3, ProcessKept, KeysKept, SignedKept, AnswerKept DEF Inv, ObjectNew

LEMMA ObjectDecodeInv ==
    ASSUME Inv, NEW key \in keys, ObjectDecode(key.public)
    PROVE  Inv'
  <1>1. PICK secret \in 1..(Q - 1) : key = KeyOf(secret)  BY DEF Inv, KeysInv
  <1>2. key.public \in 1..(Q - 1)  BY <1>1, PublicType DEF KeyOf
  <1>3. HeldInv'  BY <1>2 DEF Inv, ObjectDecode, HeldInv, Encoded
  <1> QED  BY <1>3, ProcessKept, KeysKept, SignedKept, AnswerKept DEF Inv, ObjectDecode

(* The encoding that an object keeps is that of its key if the one it had  *)
(* was.                                                                    *)
LEMMA EncodeInv ==
    ASSUME HeldInv, held # Nothing, reused' = reused,
           held' = [held EXCEPT !.compressed = Encoded(held)]
    PROVE  HeldInv'
  <1>1. held \in [point : 1..(Q - 1), compressed : 1..(Q - 1) \cup {Nothing}]  BY DEF HeldInv
  <1>2. Encoded(held) \in 1..(Q - 1)  BY <1>1 DEF Encoded
  <1>3. held'.point = held.point /\ held'.compressed = Encoded(held)  BY <1>1
  <1>4. held' \in [point : 1..(Q - 1), compressed : 1..(Q - 1) \cup {Nothing}]  BY <1>1, <1>2
  <1>5. Encoded(held)' = Encoded(held)
    <2>1. held'.compressed # Nothing  BY <1>2, <1>3, NothingAssumption
    <2> QED  BY <1>3, <2>1 DEF Encoded
  <1> QED  BY <1>3, <1>4, <1>5 DEF HeldInv

LEMMA ObjectEncodeInv ==
    ASSUME Inv, ObjectEncode
    PROVE  Inv'
  <1>1. HeldInv'  BY EncodeInv DEF Inv, ObjectEncode
  <1> QED  BY <1>1, ProcessKept, KeysKept, SignedKept, AnswerKept DEF Inv, ObjectEncode

LEMMA ObjectVerifyInv ==
    ASSUME Inv, NEW entry \in signed, NEW sig \in Damaged(entry.sig),
           NEW message \in Messages, ObjectVerify(sig, message)
    PROVE  Inv'
  <1>1. HeldInv'
    <2>1. held.point \in 1..(Q - 1)  BY DEF Inv, HeldInv, ObjectVerify
    <2>2. ~AtInfinity(held)  BY <2>1, SMT DEF AtInfinity
    <2> QED  BY <2>2, EncodeInv DEF Inv, ObjectVerify
  <1>2. sig \in Sent
    <2>1. entry.sig \in Signatures  BY DEF Inv, SignedInv, Entries
    <2> QED  BY <2>1, DamagedType
  <1>3. AnswerInv'
    <2>1. answer' = [public |-> held.point, sig |-> sig, message |-> message,
                     value |-> ObjectVerifies(held, sig, message), reused |-> reused]
      BY DEF ObjectVerify
    <2>2. held # Nothing /\ SignatureDecodes(sig)  BY DEF ObjectVerify
    <2>3. ~reused => ObjectVerifies(held, sig, message) = Accepts(held.point, sig, message)
      <3>1. held.point \in 1..(Q - 1)  BY <2>2 DEF Inv, HeldInv
      <3>2. ~reused => Encoded(held) = held.point  BY <2>2 DEF Inv, HeldInv
      <3> QED  BY <1>2, <2>2, <3>1, <3>2, ObjectSame, Zenon
    <2>4. answer'.message = message /\ answer'.sig = sig /\ answer'.public = held.point
           /\ answer'.reused = reused /\ answer'.value = ObjectVerifies(held, sig, message)
      BY <2>1
    <2>5. Accepts(answer.public, answer.sig, answer.message)' = Accepts(held.point, sig, message)
      BY <2>4 DEF Accepts, Decodes, SignatureDecodes, VerifySimple, Challenge
    <2> QED  BY <2>3, <2>4, <2>5, Zenon DEF AnswerInv
  <1> QED  BY <1>1, <1>3, ProcessKept, KeysKept, SignedKept DEF Inv, ObjectVerify

LEMMA NextInv ==
    ASSUME Inv, [Next]_vars
    PROVE  Inv'
  <1>1. CASE UNCHANGED vars
    BY <1>1, ProcessKept, KeysKept, SignedKept, HeldKept, AnswerKept DEF Inv, vars
  <1>2. CASE Next
    BY <1>2, InstallInv, RestartInv, CreateInv, GenerateInv, RecoverInv, SignWithInv,
       VerifyWithInv, ObjectVerifyInv, ObjectNewInv, ObjectDecodeInv, ObjectEncodeInv, Zenon
       DEF Next
  <1> QED  BY <1>1, <1>2

-----------------------------------------------------------------------------
(* What either backend returns is what the group's equations say of it.    *)
THEOREM InvAlways == Spec => []Inv
  BY InitInv, NextInv, PTL DEF Spec

(* The public keys and the signatures that callers get are those of their  *)
(* secret keys, whichever backend made them and whatever failed before.    *)
THEOREM KeysBelongTogetherAlways == Spec => []KeysBelongTogether
  BY InvAlways, KeysFollow, PTL

(* Verify, of either backend or of a PublicKey object, accepts what was    *)
(* signed, and no other message and no damaged bytes.                      *)
THEOREM SignaturesHoldAlways == Spec => []SignaturesHold
  BY InvAlways, AnswersFollow, PTL
=============================================================================
