---------------------------- MODULE PrivateKeys ----------------------------
(***************************************************************************)
(* Package x509, keys at rest: private keys as PKCS#1, PKCS#8 and SEC 1,   *)
(* and PEM blocks under a password.                                        *)
(*                                                                         *)
(* The structures differ in the type of their second element, so that a    *)
(* blob is read as one of them only (its shape).  A byte has Radix values. *)
(***************************************************************************)
EXTENDS X509

CONSTANTS
    Radix,
    GroupOrder,         \* of each curve
    SeedSize            \* of Ed25519

Number(bytes) == FoldLeft(LAMBDA n, b : (n * Radix) + b, 0, bytes)
ByteLen(n) == CHOOSE l \in 0..n : n < Radix^l /\ (l = 0 \/ n >= Radix^(l - 1))
BytesOf(n) == [i \in 1..ByteLen(n) |-> (n \div Radix^(ByteLen(n) - i)) % Radix]
Zeros(n) == [i \in 1..n |-> 0]
Padded(bytes, len) == Zeros(len - Len(bytes)) \o bytes

Shaped(b, shape) == Reads(b) /\ b.v.shape = shape
Read(key) == [ok |-> TRUE, key |-> key]
Refused(use) == [ok |-> FALSE, use |-> use]

\* A blob of another shape is refused with the name of the function to use.
OtherShape(b) == Refused(IF Reads(b) THEN b.v.shape ELSE Absent)
----------------------------------------------------------------------------
(* RSA keys: [type, n, e, d, primes].  The values that rsa computes from   *)
(* them are written and not read.                                          *)

MarshalPKCS1PrivateKey(key) ==
    Der([shape |-> "pkcs1", version |-> IF Len(key.primes) > 2 THEN 1 ELSE 0, n |-> key.n, e |-> key.e, d |-> key.d,
         p |-> key.primes[1], q |-> key.primes[2], additional |-> SubSeq(key.primes, 3, Len(key.primes))])

\* rsa.PrivateKey.Validate.
Validates(key) ==
    /\ key.e > 1 /\ \A p \in Range(key.primes) : p > 1 /\ ((key.e * key.d) - 1) % (p - 1) = 0
    /\ FoldLeft(LAMBDA x, p : x * p, 1, key.primes) = key.n

ParsePKCS1PrivateKey(b) ==
    LET v == b.v
        key == [type |-> "RSA", n |-> v.n, e |-> v.e, d |-> v.d, primes |-> <<v.p, v.q>> \o v.additional]
    IN IF ~Shaped(b, "pkcs1") THEN OtherShape(b)
       ELSE IF \/ b.trailing \/ v.version > 1
               \/ \E x \in {v.n, v.d, v.p, v.q} \cup Range(v.additional) : x <= 0
               \/ ~Validates(key)
         THEN Refused(Absent)
       ELSE Read(key)
----------------------------------------------------------------------------
(* Elliptic keys: [type, curve, d, point].                                 *)

ScalarBaseMult(curve, bytes) == [curve |-> curve, times |-> Number(bytes)]

marshalECPrivateKeyWithOID(key, oid) ==
    Der([shape |-> "ec", version |-> 1, d |-> Padded(BytesOf(key.d), ByteLen(GroupOrder[key.curve])),
         oid |-> oid, point |-> key.point])

MarshalECPrivateKey(key) == marshalECPrivateKeyWithOID(key, key.curve)

\* The curve of the container counts more than that of the key.  Scalars are
\* read with too many leading zeros and with too few.
parseECPrivateKey(oid, b) ==
    LET v == b.v
        curve == IF oid # Absent THEN oid ELSE v.oid
        len == ByteLen(GroupOrder[curve])
        surplus == IF Len(v.d) > len THEN Len(v.d) - len ELSE 0
        scalar == Padded(SubSeq(v.d, surplus + 1, Len(v.d)), len)
    IN IF ~Shaped(b, "ec") THEN OtherShape(b)
       ELSE IF \/ v.version # 1 \/ curve \notin Curves
               \/ Number(v.d) >= GroupOrder[curve]
               \/ \E i \in 1..surplus : v.d[i] # 0
         THEN Refused(Absent)
       ELSE Read([type |-> "ECDSA", curve |-> curve, d |-> Number(v.d), point |-> ScalarBaseMult(curve, scalar)])

ParseECPrivateKey(b) == parseECPrivateKey(Absent, b)
----------------------------------------------------------------------------
(* PKCS#8 holds a key of any type; an Ed25519 key is [type, seed].         *)

MarshalPKCS8PrivateKey(key) ==
    LET Wrapped(params, inner) == Read(Der([shape |-> "pkcs8", algo |-> key.type, params |-> params, key |-> inner]))
    IN CASE key.type = "RSA" -> Wrapped(NullBytes, MarshalPKCS1PrivateKey(key))
         [] key.type = "ECDSA" /\ OIDFromNamedCurve(key.curve) -> Wrapped(Der(key.curve), marshalECPrivateKeyWithOID(key, Absent))
         [] key.type = "Ed25519" -> Wrapped(NoBytes, Der([seed |-> key.seed]))
         [] OTHER -> Refused(Absent)

\* Errors of the key inside do not say what to use.  Bytes after any of the
\* structures are not looked at, but for an RSA key's.
ParsePKCS8PrivateKey(b) ==
    LET v == b.v
        Inner(r) == IF r.ok THEN r ELSE Refused(Absent)
    IN IF ~Shaped(b, "pkcs8") THEN OtherShape(b)
       ELSE CASE v.algo = "RSA" -> Inner(ParsePKCS1PrivateKey(v.key))
              [] v.algo = "ECDSA" -> Inner(parseECPrivateKey(IF Reads(v.params) THEN v.params.v ELSE Absent, v.key))
              [] v.algo = "Ed25519" /\ v.params = NoBytes /\ Reads(v.key) /\ Len(v.key.v.seed) = SeedSize ->
                   Read([type |-> "Ed25519", seed |-> v.key.v.seed])
              [] OTHER -> Refused(Absent)
----------------------------------------------------------------------------
(* PEM blocks under a password.  A block is [dek, bytes]: the header       *)
(* DEK-Info and the text sealed under a key and an initialization vector.  *)

Algo(cipher, name, keySize, blockSize) == [cipher |-> cipher, name |-> name, keySize |-> keySize, blockSize |-> blockSize]
rfc1423Algos ==
    {Algo("DES", "DES-CBC", 8, 8), Algo("3DES", "DES-EDE3-CBC", 24, 8), Algo("AES128", "AES-128-CBC", 16, 16),
     Algo("AES192", "AES-192-CBC", 24, 16), Algo("AES256", "AES-256-CBC", 32, 16)}
cipherByName(name) == {c \in rfc1423Algos : c.name = name}
cipherByKey(alg) == {c \in rfc1423Algos : c.cipher = alg}

\* Digests of 16 bytes, each of the one before, are strung together.
deriveKey(c, password, salt) ==
    LET digest[i \in 0..2] == IF i = 0 THEN <<>> ELSE <<digest[i - 1], password, salt>>
    IN [size |-> c.keySize, digests |-> [i \in 1..((c.keySize + 15) \div 16) |-> digest[i]]]

Padding(n) == [i \in 1..n |-> n]

EncryptPEMBlock(iv, data, password, alg) ==
    LET c == CHOOSE c \in cipherByKey(alg) : TRUE
        key == deriveKey(c, password, SubSeq(iv, 1, 8))
    IN IF cipherByKey(alg) = {} \/ Len(iv) # c.blockSize THEN Refused(Absent)   \* no such cipher, or rand failed
       ELSE Read([dek |-> [comma |-> TRUE, mode |-> c.name, hex |-> TRUE, iv |-> iv],
                  bytes |-> [key |-> key, iv |-> iv, plain |-> data \o Padding(c.blockSize - (Len(data) % c.blockSize))]])

IsEncryptedPEMBlock(b) == b.dek # Absent

\* Under any other key the bytes are noise.
CryptBlocks(bytes, key, iv, noise) == IF bytes.key = key /\ bytes.iv = iv THEN bytes.plain ELSE noise

DecryptPEMBlock(b, password, noise) ==
    LET c == CHOOSE c \in cipherByName(b.dek.mode) : TRUE
        key == deriveKey(c, password, SubSeq(b.dek.iv, 1, 8))
        data == CryptBlocks(b.bytes, key, b.dek.iv, noise)
        last == data[Len(data)]
    IN IF ~IsEncryptedPEMBlock(b) THEN Refused(Absent)
       ELSE IF \/ ~b.dek.comma \/ cipherByName(b.dek.mode) = {} \/ ~b.dek.hex \/ Len(b.dek.iv) # c.blockSize
               \/ Len(b.bytes.plain) % c.blockSize # 0 \/ data = <<>>
         THEN Refused(Absent)
       ELSE IF \/ Len(data) < last \/ last = 0 \/ last > c.blockSize
               \/ \E i \in (Len(data) - last + 1)..Len(data) : data[i] # last
         THEN Refused("password")
       ELSE Read(SubSeq(data, 1, Len(data) - last))
----------------------------------------------------------------------------
(* What the writers and the readers promise each other.                    *)

Formats(key) ==
    CASE key.type = "RSA" -> [pkcs1 |-> MarshalPKCS1PrivateKey(key), pkcs8 |-> MarshalPKCS8PrivateKey(key).key]
      [] key.type = "ECDSA" -> [ec |-> MarshalECPrivateKey(key), pkcs8 |-> MarshalPKCS8PrivateKey(key).key]
      [] OTHER -> [pkcs8 |-> MarshalPKCS8PrivateKey(key).key]

Readers(b) == [pkcs1 |-> ParsePKCS1PrivateKey(b), ec |-> ParseECPrivateKey(b), pkcs8 |-> ParsePKCS8PrivateKey(b)]

\* Each format is read back as the key by its own function, and the others
\* refuse it with the name of that function.
KeyIsRead(key) ==
    LET written == Formats(key)
    IN \A f \in DOMAIN written : LET read == Readers(written[f])
         IN \A r \in DOMAIN read : read[r] = IF r = f THEN Read(key) ELSE Refused(f)

\* Whatever bytes a key was read from, it is a key that can be written, its
\* numbers belong together, and its curve is the one its container names.
ReadKeyIsSound(b) ==
    \A r \in DOMAIN Readers(b) : LET read == Readers(b)[r]
      IN read.ok => /\ KeyIsRead(read.key)
                    /\ read.key.type = "RSA" => Validates(read.key)
                    /\ read.key.type = "ECDSA" =>
                         /\ read.key.point = [curve |-> read.key.curve, times |-> read.key.d]
                         /\ r = "pkcs8" /\ Reads(b.v.params) /\ b.v.params # NullBytes => read.key.curve = b.v.params.v

\* A block is decrypted to what was encrypted; another password is noticed or
\* gives noise that was padded by chance.
BlockIsRead(iv, data, password, alg, other, noise) ==
    LET b == EncryptPEMBlock(iv, data, password, alg)
        r == DecryptPEMBlock(b.key, other, noise)
    IN b.ok => /\ IsEncryptedPEMBlock(b.key)
               /\ DecryptPEMBlock(b.key, password, noise) = Read(data)
               /\ other # password => r = Refused("password") \/ \E n \in 1..Len(iv) : noise = r.key \o Padding(n)

\* A block that was cut, or whose header is not one EncryptPEMBlock writes, is
\* refused.
DamageIsNoticed(b, password, noise) == DecryptPEMBlock(b, password, noise) = Refused(Absent)
=============================================================================
