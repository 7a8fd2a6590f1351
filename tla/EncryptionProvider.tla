------------------------- MODULE EncryptionProvider -------------------------
(***************************************************************************)
(* Encryption at rest: EncryptionFeature, which loads the key when the     *)
(* server starts, and the EncryptionProvider's cipher streams, which       *)
(* read and write an encrypted file in pieces at any offset.               *)
(*                                                                         *)
(* The counter of a block is CounterDigits bytes of Base values.  AES is   *)
(* external: the keystream of a block is named by the key, the counter and *)
(* the position in the block, and XOR with it is a symmetric difference.   *)
(***************************************************************************)
EXTENDS Integers, Sequences

CONSTANTS
  Base, CounterDigits,  \* 256 and 16 in the code
  BlockSize,            \* bytes of a block (16 in the code)
  IntLimit,             \* 2^31 in the code: the first number that is no int
  FileSize,             \* bound: bytes of the file
  MaxStarts             \* bound: starts of the server

VARIABLES
  provider,    \* the key of the provider, "none" or "failed"
  starts,      \* how often the server has been started
  iv,          \* the prefix of the file, <<>> until it is created
  stored,      \* stored[o]: the byte at o on disk, as the set XORed together
  writtenWith  \* writtenWith[o]: the key the byte at o is enciphered with, or "clear" (ghost)

encryptionVars == <<provider, starts, iv, stored, writtenWith>>

Offsets == 0..(FileSize - 1)
Digits == 0..(Base - 1)

(* What is at the path of --rocksdb.encryption-keyfile: two keys, a file that has not 32    *)
(* bytes, or nothing; "" is no option.                                     *)
Keyfiles == {"", "k1", "k2", "short", "missing"}

Init ==
  /\ provider = "none" /\ starts = 0
  /\ iv = <<>>
  /\ stored = [o \in Offsets |-> {}]
  /\ writtenWith = [o \in Offsets |-> "nothing"]

(***************************************************************************)
(* EncryptionFeature.                                                      *)
(***************************************************************************)

(* validateOptions, prepare and start; a start that throws ends the server. *)
Start(keyfile, keyfolder) ==
  /\ starts < MaxStarts
  /\ starts' = starts + 1
  /\ provider' = CASE keyfile \in {"short", "missing"} \/ keyfolder = "missing" -> "failed"
                   [] keyfile \in {"k1", "k2"} /\ keyfolder # "missing" -> keyfile
                   [] OTHER -> "none"
  /\ UNCHANGED <<iv, stored, writtenWith>>

Encrypting == provider \in {"k1", "k2"}

(***************************************************************************)
(* ctrTransform.                                                           *)
(***************************************************************************)

(* Mutated: a byte that overflows does not carry. *)
CounterWithoutCarry(first, blockIndex) ==
  LET rest[i \in 0..CounterDigits] ==
        IF i = CounterDigits THEN blockIndex ELSE rest[i + 1] \div Base
  IN  [i \in 1..CounterDigits |-> (first[i] + (rest[i] % Base)) % Base]

(* Adds carry to the counter from its last byte on; what the first byte    *)
(* carries is dropped.                                                     *)
Counter(first, blockIndex) ==
  LET carry[i \in 0..CounterDigits] ==
        IF i = CounterDigits THEN blockIndex
        ELSE carry[i + 1] \div Base + (first[i + 1] + (carry[i + 1] % Base)) \div Base
  IN  [i \in 1..CounterDigits |-> (first[i] + (carry[i] % Base)) % Base]

(* What the cipher does after each block (external).                       *)
Increment(counter) ==
  LET stop == CHOOSE i \in 0..CounterDigits :
                /\ i > 0 => counter[i] < Base - 1
                /\ \A j \in (i + 1)..CounterDigits : counter[j] = Base - 1
  IN  [i \in 1..CounterDigits |->
         CASE i < stop -> counter[i] [] i = stop -> counter[i] + 1 [] OTHER -> 0]

(* The keystream of a call for size bytes from offset on: it starts with   *)
(* the block of the offset, whose first bytes are skipped.                 *)
Keystream(first, key, offset, size) ==
  LET from == Counter(first, offset \div BlockSize)
      block[b \in 0..(FileSize \div BlockSize)] ==
        IF b = 0 THEN from ELSE Increment(block[b - 1])
      skip == offset % BlockSize
  IN  [n \in 0..(size - 1) |->
         <<key, block[(skip + n) \div BlockSize], (skip + n) % BlockSize>>]

Xor(byte, k) == IF k \in byte THEN byte \ {k} ELSE byte \cup {k}

(* static_cast<int>(size): the length that EVP_EncryptUpdate is given.     *)
AsInt(size) ==
  LET word == size % (2 * IntLimit)
  IN  IF word < IntLimit THEN word ELSE word - 2 * IntLimit

(* The cipher sees as many bytes as the int says; the call reports success *)
(* and the rest of the piece stays as it was.                              *)
CtrTransform(first, key, offset, bytes, size) ==
  LET k == Keystream(first, key, offset, AsInt(size))
  IN  [o \in DOMAIN bytes |->
         IF o - offset < AsInt(size) THEN Xor(bytes[o], k[o - offset]) ELSE bytes[o]]

(***************************************************************************)
(* The file, written by the storage engine (external).                     *)
(***************************************************************************)

(* CreateNewPrefix. *)
Create(prefix) ==
  /\ Encrypting
  /\ iv = <<>>
  /\ iv' = prefix
  /\ UNCHANGED <<provider, starts, stored, writtenWith>>

Plain(o) == {<<"byte", o>>}

(* A piece whose length is negative as an int is not written: the cipher   *)
(* (external) refuses it, as after any other failure of a cipher call the  *)
(* engine gets an IOError.                                                 *)
Write(offset, size) ==
  LET piece == offset..(offset + size - 1)
      cipher == CtrTransform(iv, provider, offset, [o \in piece |-> Plain(o)], size)
  IN  /\ Encrypting
      /\ iv # <<>> /\ piece \subseteq Offsets /\ AsInt(size) >= 0
      /\ stored' = [o \in Offsets |-> IF o \in piece THEN cipher[o] ELSE stored[o]]
      /\ writtenWith' = [o \in Offsets |->
                           IF o \notin piece THEN writtenWith[o]
                           ELSE IF o - offset < AsInt(size) THEN provider ELSE "clear"]
      /\ UNCHANGED <<provider, starts, iv>>

Next ==
  \/ \E keyfile \in Keyfiles, keyfolder \in {"", "present", "missing"} : Start(keyfile, keyfolder)
  \/ \E prefix \in [1..CounterDigits -> Digits] : Create(prefix)
  \/ \E offset \in Offsets, size \in 1..FileSize : Write(offset, size)

Spec == Init /\ [][Next]_encryptionVars

-----------------------------------------------------------------------------
(* A piece of less than IntLimit bytes read at any offset, across the      *)
(* pieces it was written in and after restarts, is what was written if and *)
(* only if the key is the one it was written with.  On disk a byte is      *)
(* readable without a key only if ctrTransform left it in clear, in a      *)
(* piece of IntLimit bytes or more.                                        *)
ReadsBack ==
  /\ \A o \in Offsets : writtenWith[o] # "nothing" =>
       (stored[o] = Plain(o) <=> writtenWith[o] = "clear")
  /\ \A offset \in Offsets, size \in 1..FileSize :
       LET piece == offset..(offset + size - 1)
           plain == CtrTransform(iv, provider, offset, [o \in piece |-> stored[o]], size)
       IN  Encrypting /\ iv # <<>> /\ piece \subseteq Offsets /\ size < IntLimit =>
             \A o \in piece : writtenWith[o] # "nothing" =>
               (plain[o] = Plain(o) <=> writtenWith[o] = provider)
=============================================================================
