------------------------------- MODULE Secrets -------------------------------
(***************************************************************************)
(* Secret values (internal/secrets and internal/api/crypto.go): a value is *)
(* sealed for a stack, with a key derived from the stack's scope and with  *)
(* the scope as additional data, and can be opened for that stack.         *)
(*                                                                         *)
(* AES-GCM and HKDF are ideal: a payload opens exactly under the scope it  *)
(* was sealed under.  Payloads are told apart by their nonce and otherwise *)
(* matter by their size; names are sequences of bytes.                     *)
(***************************************************************************)
EXTENDS Naturals, Sequences, FiniteSets

CONSTANTS
  Owners,          \* stacks: organization, project and name
  Sizes,           \* sizes of plaintexts that clients send
  MaxPlaintext,    \* maxCryptoPlaintextBytes
  MaxCiphertext,   \* maxCryptoCiphertextBytes
  MaxItems,        \* maxCryptoBatchItems
  MaxBatch,        \* bound on the batches that clients send
  MaxMade          \* bound on the ciphertexts made

ASSUME SizesAssumption ==
  /\ Sizes \subseteq Nat
  /\ MaxPlaintext \in Nat /\ MaxCiphertext \in Nat /\ MaxItems \in Nat /\ MaxBatch \in Nat

VARIABLES
  made,     \* ciphertexts that clients got
  opened    \* answers to decryption requests

secretVars == <<made, opened>>

\* Bytes: the digits 0..9, a colon, and others.
Colon == 10
Decimal[n \in Nat] == IF n < 10 THEN <<n>> ELSE Append(Decimal[n \div 10], n % 10)
Prefixed(name) == Decimal[Len(name)] \o <<Colon>> \o name

\* stackScope without the lengths.
stackScopePlain(s) == s.org \o <<Colon>> \o s.project \o <<Colon>> \o s.name

\* What follows the constant stackKeyPrefix.
stackScope(s) == Prefixed(s.org) \o Prefixed(s.project) \o Prefixed(s.name)

\* Sizes: 12 bytes of nonce and 16 of tag, base64, and "v2:".
Base64(n) == 4 * ((n + 2) \div 3)
CiphertextSize(n) == 3 + Base64(12 + n + 16)

\* encryptOne and Crypter.Encrypt
encryptOne(s, size, nonce) ==
  [scope |-> stackScope(s), size |-> size, nonce |-> nonce, stack |-> s]
Sealable(size) == size <= MaxPlaintext

\* decryptOne and Crypter.Decrypt
DecryptsOne(s, ct) ==
  CiphertextSize(ct.size) <= MaxCiphertext /\ ct.scope = stackScope(s)

\* encryptValue is a batch of one.  A batch is sealed as a whole or not at all.
batchEncrypt(s, batch) ==
  /\ Len(batch) <= MaxItems
  /\ \A i \in DOMAIN batch : Sealable(batch[i])
  /\ Cardinality(made) + Len(batch) <= MaxMade
  /\ made' = made \cup {encryptOne(s, batch[i], Cardinality(made) + i) : i \in DOMAIN batch}
  /\ UNCHANGED opened

\* decryptValue is a batch of one.  The answer maps ciphertexts to plaintexts;
\* one that does not open fails the batch.
batchDecrypt(s, batch) ==
  /\ Cardinality(batch) <= MaxItems
  /\ opened' = IF \A ct \in batch : DecryptsOne(s, ct)
               THEN [stack |-> s, asked |-> batch, ok |-> TRUE]
               ELSE [stack |-> s, asked |-> batch, ok |-> FALSE]
  /\ UNCHANGED made

SecretsInit ==
  /\ made = {}
  /\ opened = [stack |-> CHOOSE s \in Owners : TRUE, asked |-> {}, ok |-> TRUE]

SecretsNext ==
  \E s \in Owners :
    \/ \E n \in 0..MaxBatch : \E batch \in [1..n -> Sizes] : batchEncrypt(s, batch)
    \/ \E batch \in SUBSET made : batchDecrypt(s, batch)

SecretsSpec == SecretsInit /\ [][SecretsNext]_secretVars

------------------------------------------------------------------------------
(* Properties *)

\* A batch opens exactly for the stack that all of it was sealed for, whatever
\* bytes the names of stacks are made of and however large the values are that
\* encryptOne let pass (stackScope, decryptOne).
OpensWhereSealed == opened.ok <=> \A ct \in opened.asked : ct.stack = opened.stack
==============================================================================
