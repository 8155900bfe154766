------------------------------- MODULE Sr25519 -------------------------------
(***************************************************************************)
(* The two backends of packages/sr25519: the C interface of rust/ with the *)
(* Dart bindings that call it, and the Dart implementation that stands in  *)
(* where no library is installed.  Keys and signatures outlive a process,  *)
(* and the next one may use the other backend.                             *)
(*                                                                         *)
(* The group is Z_Q, where the element of a scalar is a multiple of the    *)
(* base G; an encoding is a number, and one from Q on decodes to nothing.  *)
(* Messages are numbers, 0 the empty one.  schnorrkel, the hash of the     *)
(* transcript and the expansion of a seed are external.                    *)
(***************************************************************************)
EXTENDS Integers, FiniteSets

CONSTANTS
    Q, G,         \* the order of the group and its base
    ByteMax,      \* encodings are 0..ByteMax
    Messages,     \* a subset of 0..(Q - 1): the challenge tells them apart
    Seeds,        \* seeds, each expanded to the scalar of its own number
    MaxSigned,    \* bound on the signatures that are kept
    Null, Junk, Throws, Nothing

(* The order is a prime: it divides no product of smaller numbers.         *)
ASSUME GroupAssumption ==
    /\ Q \in Nat /\ G \in 1..(Q - 1) /\ ByteMax \in Nat /\ ByteMax >= Q
    /\ \A a, b \in 1..(Q - 1) : (a * b) % Q # 0
    /\ Messages \subseteq 0..(Q - 1) /\ Seeds \subseteq 1..(Q - 1)

ASSUME NothingAssumption == {Null, Nothing} \cap Int = {}

VARIABLES
    library,   \* what is installed: "none", "good" or another ABI version, "old"
    attempted, \* RustSr25519Backend._attempted
    cached,    \* _cached: the version that was loaded, or "none"
    crypto,    \* the backend of the process's Sr25519Crypto
    keys,      \* key pairs that were returned
    signed,    \* signatures that were returned
    held,      \* a PublicKey object of the Dart API
    reused,    \* whether it was decoded into after it was encoded
    answer     \* the last answer of verify

vars == <<library, attempted, cached, crypto, keys, signed, held, reused, answer>>

-----------------------------------------------------------------------------
(* schnorrkel and the transcript.                                          *)
Decodes(b) == b < Q

PublicOf(secret) == (secret * G) % Q

Challenge(public, r, message) == (1 + message + public * r) % Q

SignSimple(secret, message, nonce) ==
    LET r == (nonce * G) % Q
    IN  [r |-> r, marked |-> TRUE,
         s |-> (nonce + Challenge(PublicOf(secret), r, message) * secret) % Q]

VerifySimple(public, message, sig) ==
    (sig.s * G) % Q = (sig.r + Challenge(public, sig.r, message) * public) % Q

-----------------------------------------------------------------------------
(* rust/src/lib.rs.  An output buffer holds junk until it is written.      *)
OK == 0
ERR_NULL == -1
ERR_PARSE == -2

Fails(code) == [rc |-> code, out |-> Junk]

Writes(bytes) == [rc |-> OK, out |-> bytes]

sr25519_keypair_from_seed(seed) == Writes([secret |-> seed, public |-> PublicOf(seed)])

sr25519_public_from_secret(secret) ==
    IF Decodes(secret) THEN Writes(PublicOf(secret)) ELSE Fails(ERR_PARSE)

Message(msg, msg_len) == IF msg_len = 0 THEN 0 ELSE msg

sr25519_sign(secret, msg, msg_len, nonce) ==
    IF msg = Null /\ msg_len # 0 THEN Fails(ERR_NULL)
    ELSE IF ~Decodes(secret) THEN Fails(ERR_PARSE)
    ELSE Writes(SignSimple(secret, Message(msg, msg_len), nonce))

sr25519_verify(public, sig, msg, msg_len) ==
    IF msg = Null /\ msg_len # 0 THEN ERR_NULL
    ELSE IF ~Decodes(public) \/ ~Decodes(sig.s) \/ ~sig.marked THEN ERR_PARSE
    ELSE IF VerifySimple(public, Message(msg, msg_len), sig) THEN 1 ELSE 0

(* bindings.dart.  A library of another ABI version writes anything.       *)
Check(result) ==
    IF cached = "old" THEN Junk ELSE IF result.rc # OK THEN Throws ELSE result.out

Length(message) == IF message = 0 THEN 0 ELSE 1

CopyMessage(message) == IF message = 0 THEN Null ELSE message

RustSign(secret, message, nonce) ==
    Check(sr25519_sign(secret, CopyMessage(message), Length(message), nonce))

RustVerify(public, sig, message) ==
    LET rc == sr25519_verify(public, sig, CopyMessage(message), Length(message))
    IN  IF rc = ERR_NULL THEN Throws ELSE rc = 1

-----------------------------------------------------------------------------
(* The Dart implementation.  A PublicKey object keeps its encoding once it *)
(* has computed it.                                                        *)
NewPublicKey(bytes) == [point |-> bytes, compressed |-> Nothing]

AtInfinity(pub) == pub.point = 0

Encoded(pub) == IF pub.compressed = Nothing THEN pub.point ELSE pub.compressed

DartSign(secret, message, nonce) ==
    IF ~Decodes(secret) THEN Throws
    ELSE LET r == (nonce * G) % Q
             k == Challenge((secret * G) % Q, r, message)
         IN  [r |-> r, s |-> (secret * k + nonce) % Q, marked |-> TRUE]

(* Variant: the key is not negated.                                        *)
ObjectVerifiesUnnegated(pub, sig, message) ==
    LET k == Challenge(Encoded(pub), sig.r, message)
    IN  ~AtInfinity(pub) /\ (k * pub.point + sig.s * G) % Q = sig.r

ObjectVerifies(pub, sig, message) ==
    LET k == Challenge(Encoded(pub), sig.r, message)
    IN  ~AtInfinity(pub) /\ (sig.s * G - k * pub.point) % Q = sig.r

SignatureDecodes(sig) == sig.marked /\ Decodes(sig.r) /\ Decodes(sig.s)

DartVerify(public, sig, message) ==
    /\ Decodes(public) /\ SignatureDecodes(sig)
    /\ ObjectVerifies(NewPublicKey(public), sig, message)

-----------------------------------------------------------------------------
(* The backend of the process.                                             *)

(* Variant: the library's ABI version is not compared.                     *)
LoadedAnyVersion == library

Loaded == IF library = "good" THEN "good" ELSE "none"

tryLoad == IF attempted THEN cached ELSE Loaded

KeyPair(seed) ==
    IF crypto = "rust" THEN Check(sr25519_keypair_from_seed(seed))
    ELSE [secret |-> seed, public |-> (seed * G) % Q]

PublicFromSecret(secret) ==
    IF crypto = "rust" THEN Check(sr25519_public_from_secret(secret))
    ELSE IF Decodes(secret) THEN (secret * G) % Q ELSE Throws

Sign(secret, message, nonce) ==
    IF crypto = "rust" THEN RustSign(secret, message, nonce) ELSE DartSign(secret, message, nonce)

Verify(public, sig, message) ==
    IF crypto = "rust" THEN RustVerify(public, sig, message) ELSE DartVerify(public, sig, message)

-----------------------------------------------------------------------------
Init ==
    /\ library \in {"none", "good", "old"}
    /\ attempted = FALSE /\ cached = "none" /\ crypto = "none"
    /\ keys = {} /\ signed = {}
    /\ held = Nothing /\ reused = FALSE
    /\ answer = Nothing

process == <<attempted, cached, crypto, held, reused>>

(* A library is installed, and the process is started again.               *)
Install(l) == library' = l /\ UNCHANGED <<process, keys, signed, answer>>

Restart ==
    /\ crypto # "none"
    /\ attempted' = FALSE /\ cached' = "none" /\ crypto' = "none"
    /\ held' = Nothing /\ reused' = FALSE
    /\ UNCHANGED <<library, keys, signed, answer>>

(* Sr25519Crypto(), Sr25519Crypto.rust(), which may throw, and .dart().    *)
Create(which) ==
    /\ IF which = "dart" THEN UNCHANGED <<attempted, cached>>
       ELSE attempted' = TRUE /\ cached' = tryLoad
    /\ crypto' = IF which # "dart" /\ cached' # "none" THEN "rust"
                 ELSE IF which = "rust" THEN crypto ELSE "dart"
    /\ UNCHANGED <<library, held, reused, keys, signed, answer>>

Generate(seed) ==
    /\ crypto # "none"
    /\ keys' = keys \cup {KeyPair(seed)}
    /\ UNCHANGED <<library, process, signed, answer>>

(* A stored secret key, intact or not, of which the public key is lost.    *)
Recover(secret) ==
    /\ crypto # "none"
    /\ keys' = IF PublicFromSecret(secret) = Throws THEN keys
               ELSE keys \cup {[secret |-> secret, public |-> PublicFromSecret(secret)]}
    /\ UNCHANGED <<library, process, signed, answer>>

SignWith(key, message, nonce) ==
    /\ crypto # "none" /\ Cardinality(signed) < MaxSigned
    /\ signed' = signed \cup {[public |-> key.public, message |-> message,
                               sig |-> Sign(key.secret, message, nonce)]}
    /\ UNCHANGED <<library, process, keys, answer>>

(* A signature is verified for a message, as it is or damaged on its way.  *)
Damaged(sig) == {sig, [sig EXCEPT !.marked = FALSE], [sig EXCEPT !.s = ByteMax]}

VerifyWith(public, sig, message) ==
    /\ crypto # "none"
    /\ answer' = [public |-> public, sig |-> sig, message |-> message,
                  value |-> Verify(public, sig, message), reused |-> FALSE]
    /\ UNCHANGED <<library, process, keys, signed>>

(* The Dart API: an object is created from bytes, encoded, decoded into    *)
(* and asked to verify, which encodes it.                                  *)
ObjectNew(public) ==
    /\ held = Nothing
    /\ held' = NewPublicKey(public)
    /\ UNCHANGED <<library, attempted, cached, crypto, reused, keys, signed, answer>>

ObjectDecode(public) ==
    /\ held # Nothing
    /\ held' = [held EXCEPT !.point = public]
    /\ reused' = (reused \/ held.compressed # Nothing)
    /\ UNCHANGED <<library, attempted, cached, crypto, keys, signed, answer>>

ObjectEncode ==
    /\ held # Nothing
    /\ held' = [held EXCEPT !.compressed = Encoded(held)]
    /\ UNCHANGED <<library, attempted, cached, crypto, reused, keys, signed, answer>>

ObjectVerify(sig, message) ==
    /\ held # Nothing /\ SignatureDecodes(sig)
    /\ held' = IF AtInfinity(held) THEN held ELSE [held EXCEPT !.compressed = Encoded(held)]
    /\ answer' = [public |-> held.point, sig |-> sig, message |-> message,
                  value |-> ObjectVerifies(held, sig, message), reused |-> reused]
    /\ UNCHANGED <<library, attempted, cached, crypto, reused, keys, signed>>

Next ==
    \/ \E l \in {"none", "good", "old"} : Install(l)
    \/ Restart
    \/ \E which \in {"default", "rust", "dart"} : Create(which)
    \/ \E seed \in Seeds : Generate(seed)
    \/ \E secret \in {k.secret : k \in keys} \cup {ByteMax} : Recover(secret)
    \/ \E key \in keys, message \in Messages, nonce \in 1..(Q - 1) : SignWith(key, message, nonce)
    \/ \E entry \in signed : \E sig \in Damaged(entry.sig), message \in Messages :
           \/ \E public \in {entry.public, ByteMax} : VerifyWith(public, sig, message)
           \/ ObjectVerify(sig, message)
    \/ \E key \in keys : ObjectNew(key.public) \/ ObjectDecode(key.public)
    \/ ObjectEncode

Spec == Init /\ [][Next]_vars

-----------------------------------------------------------------------------
(* "All operations work in canonical byte encodings so the two backends    *)
(* are fully interchangeable": a public key and a signature that a caller  *)
(* got are those of the secret key, whichever backend made them, after a   *)
(* failed call or with another library too.                                *)
KeysBelongTogether ==
    /\ \A key \in keys : key \in [secret : 0..(Q - 1), public : 1..(Q - 1)]
    /\ \A key \in keys : key.public = PublicOf(key.secret)
    /\ \A entry \in signed : VerifySimple(entry.public, entry.message, entry.sig)

(* "A signature produced by one verifies under the other": verify is true  *)
(* for what was signed, and false, no exception, for another message and   *)
(* for damaged bytes, in either backend; so is a PublicKey object's, until *)
(* it is decoded into after it was encoded.  (That another key's signature *)
(* is refused is a matter of chance in so small a group.)                  *)
SignaturesHold ==
    /\ answer # Nothing /\ ~answer.reused
    /\ Decodes(answer.public) => \E entry \in signed :
           entry.public = answer.public /\ answer.sig \in Damaged(entry.sig)
    => (answer.value = (\E entry \in signed :
            /\ entry.public = answer.public /\ entry.message = answer.message
            /\ entry.sig = answer.sig))
=============================================================================
