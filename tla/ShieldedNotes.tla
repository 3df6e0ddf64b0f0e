--------------------------- MODULE ShieldedNotes ---------------------------
(***************************************************************************)
(* Keys, addresses, notes and their encryption, and the wallet's scan.     *)
(* A hash, a key or a point is the term that names its derivation, so two  *)
(* are equal when they are derived alike; an Option is a set of at most    *)
(* one element.  The AEAD opens nothing but what its key and nonce sealed, *)
(* whole.                                                                  *)
(***************************************************************************)
EXTENDS Integers, Sequences, FiniteSets

CONSTANT MaxMemo   \* 512 bytes in the code

ASSUME MemoAssumption == MaxMemo \in Nat

---------------------------------------------------------------------------
\* Keys and addresses.
SpendingKey(seed) == <<"sk", seed>>
Prf(sk, tag) == <<"prf", sk, tag>>
FullViewingKey(sk) == [ak |-> Prf(sk, "ak"), nk |-> Prf(sk, "nk"), ovk |-> Prf(sk, "ovk")]
IncomingViewKey(fvk) == <<"ivk", fvk.ak, fvk.nk>>

\* pk_d is a hash here, and the X25519 public key in stealth.rs.
PaymentAddress(ivk, index) ==
  [diversifier |-> <<"div", index>>, pk_d |-> <<"pkd", ivk, <<"div", index>>>>]
PublicKey(secret) == <<"pub", secret>>
DeriveFromIvk(ivk) == PublicKey(ivk)

\* The shared secret is common to both ends only when the point is a public key.
DiffieHellman(secret, point) ==
  <<"dh", IF Head(point) = "pub" THEN {secret, point[2]} ELSE {secret, point}>>

---------------------------------------------------------------------------
\* Notes.  The two commitments hash the same fields in different orders.
Note(value, rcm, rho, address) ==
  [value |-> value, rcm |-> rcm, rho |-> rho, pk_d |-> address.pk_d,
   diversifier |-> address.diversifier]
Commitment(n) == <<"note_cm", n.value, n.rcm, n.rho, n.pk_d, n.diversifier>>
NoteCommitment(n) == <<"note_cm", n.value, n.pk_d, n.rho, n.rcm, n.diversifier>>

\* The receiver's key is no part of what is encrypted; the reader supplies it.
ToPlaintext(n) == <<n.diversifier, n.value, n.rcm, n.rho>>
FromPlaintext(p, pk_d) ==
  [value |-> p[2], rcm |-> p[3], rho |-> p[4], pk_d |-> pk_d, diversifier |-> p[1]]

Nullifier(nk, n) == <<"nf", nk, n.rho, Commitment(n)>>
VerifyNullifier(nk, n, claimed) == Nullifier(nk, n) = claimed
ValueCommitment(value, rcv) == <<"cv", value, rcv>>

---------------------------------------------------------------------------
\* Encryption.
Seal(key, nonce, plain) == [key |-> key, nonce |-> nonce, plain |-> plain, rest |-> "kept"]
Open(key, nonce, c) ==
  IF c.rest = "kept" /\ c.key = key /\ c.nonce = nonce THEN {c.plain} ELSE {}

KdfNote(shared, epk) == <<"kdf_note", shared, epk>>
KdfOutgoing(ovk, epk) == <<"kdf_out", ovk, epk>>

EncryptNote(n, recipient, ovk, esk) ==
  LET epk == PublicKey(esk)
  IN [ephemeral_key |-> epk,
      enc_ciphertext |-> Seal(KdfNote(DiffieHellman(esk, recipient), epk), 1, ToPlaintext(n)),
      out_ciphertext |-> Seal(KdfOutgoing(ovk, epk), 2, <<recipient, n.rcm>>)]

\* Mutant: the commitment is not compared.
TryDecryptUnchecked(ciphertext, epk, cm, ivk) ==
  {FromPlaintext(p, DeriveFromIvk(ivk)) :
     p \in Open(KdfNote(DiffieHellman(ivk, epk), epk), 1, ciphertext)}

TryDecrypt(ciphertext, epk, cm, ivk) ==
  {n \in {FromPlaintext(p, DeriveFromIvk(ivk)) :
            p \in Open(KdfNote(DiffieHellman(ivk, epk), epk), 1, ciphertext)} :
     Commitment(n) = cm}

\* A memo is its length; the random nonce travels in front of it.
EncryptMemo(key, memo, nonce) ==
  IF memo > MaxMemo THEN {} ELSE {[nonce |-> nonce, body |-> Seal(key, nonce, memo)]}
DecryptMemo(key, c) == Open(key, c.nonce, c.body)

---------------------------------------------------------------------------
\* The wallet.  A compact output keeps 52 bytes of the ciphertext.
Ending(c, rest) == [key |-> c.key, nonce |-> c.nonce, plain |-> c.plain, rest |-> rest]

Compact(output, cm) ==
  [note_commitment |-> cm, ephemeral_key |-> output.ephemeral_key,
   enc_ciphertext_prefix |-> Ending(output.enc_ciphertext, "cut")]

\* Mutant: the scan gets the whole ciphertext.
RebuiltWhole(prefix) == Ending(prefix, "kept")

\* The scan pads the prefix with zeros to 580 bytes.
Rebuilt(prefix) == Ending(prefix, "zeros")

Found(output, ivk) ==
  {[note |-> n, nullifier |-> <<"blake3", output.note_commitment>>, is_spent |-> FALSE] :
     n \in TryDecrypt(Rebuilt(output.enc_ciphertext_prefix), output.ephemeral_key,
                      output.note_commitment, ivk)}

NewWallet(ivk) == [ivk |-> ivk, notes |-> <<>>, last_scanned_height |-> 0]

AddFound(notes, found) ==
  IF found = {} THEN notes ELSE Append(notes, CHOOSE n \in found : TRUE)

\* The notes, and those found in the first k outputs, for each k.
Noticed(notes, outputs, ivk) ==
  LET noticed[k \in 0 .. Len(outputs)] ==
        IF k = 0 THEN notes ELSE AddFound(noticed[k - 1], Found(outputs[k], ivk))
  IN noticed

ScanBlock(wallet, block) ==
  LET seen == Noticed(wallet.notes, block.outputs, wallet.ivk)[Len(block.outputs)]
  IN [wallet EXCEPT
        !.notes = [k \in DOMAIN seen |->
                     [seen[k] EXCEPT !.is_spent = @ \/ seen[k].nullifier \in block.nullifiers]],
        !.last_scanned_height = block.height]

\* After the first k blocks of order, for each k.
Scanned(wallet, chain, order) ==
  LET scanned[k \in 0 .. Len(order)] ==
        IF k = 0 THEN wallet ELSE ScanBlock(scanned[k - 1], chain[order[k]])
  IN scanned

Balance(wallet) ==
  LET sum[k \in 0 .. Len(wallet.notes)] ==
        IF k = 0 THEN 0
        ELSE sum[k - 1] + IF wallet.notes[k].is_spent THEN 0 ELSE wallet.notes[k].note.value
  IN sum[Len(wallet.notes)]

---------------------------------------------------------------------------
Alice == FullViewingKey(SpendingKey("alice"))
Bob == FullViewingKey(SpendingKey("bob"))
Random(k) == <<"random", k>>

\* What reaches a reader: sent to `to` under note key `named`, committed with
\* either function.
ReadBack(sent) ==
  LET reader == IncomingViewKey(sent.reader)
      n == Note(sent.value, Random(1), Random(2), sent.named)
      output == EncryptNote(n, sent.to.pk_d, Bob.ovk, Random(3))
      cm == IF sent.wallet_order THEN NoteCommitment(n) ELSE Commitment(n)
  IN [note |-> n, reader |-> reader,
      read |-> TryDecrypt(output.enc_ciphertext, output.ephemeral_key, cm, reader),
      recovered |-> Open(KdfOutgoing(sent.reader.ovk, output.ephemeral_key), 2, output.out_ciphertext)]

\* An output is read by the holder of the X25519 key it was sent to and named
\* for, as the note it is, and by nobody else; one sent to what
\* payment_address hands out, or committed with the order of commitment.rs,
\* is read by nobody; the sender gets back the key and the randomness, and a
\* memo comes back whole under its own key (stealth.rs 22-94, address.rs 81-92,
\* note.rs 39-76, commitment.rs 31-46, encryption.rs 10-31).
NotesReadable(sent) ==
  LET back == ReadBack(sent)
      own == sent.to.pk_d = DeriveFromIvk(back.reader) /\ sent.named.pk_d = sent.to.pk_d
  IN /\ back.read = IF own /\ ~sent.wallet_order THEN {back.note} ELSE {}
     /\ back.recovered = IF sent.reader = Bob THEN {<<sent.to.pk_d, Random(1)>>} ELSE {}
     /\ \A reader \in {Alice, Bob} :
          VerifyNullifier(reader.nk, back.note, Nullifier(sent.reader.nk, back.note)) <=> reader = sent.reader
     /\ \A memo \in 0 .. MaxMemo + 1 : \A key \in {Alice.ovk, Bob.ovk} :
          UNION {DecryptMemo(key, c) : c \in EncryptMemo(sent.reader.ovk, memo, Random(6))}
            = IF key = sent.reader.ovk /\ memo <= MaxMemo THEN {memo} ELSE {}

\* Whatever blocks are scanned, in any order and again, a wallet that scans
\* compact blocks finds none of the notes sent to it, not even those their
\* whole ciphertext would show: the padded prefix never authenticates, and the
\* scan is silent about it (sync.rs 31-75).
ScansFindNothing(chain, order) ==
  LET ivk == IncomingViewKey(Alice)
      wallet == Scanned(NewWallet(ivk), chain, order)[Len(order)]
  IN /\ Balance(wallet) = 0
     /\ order # <<>> => wallet.last_scanned_height = chain[order[Len(order)]].height
     /\ \A h \in DOMAIN chain : \A k \in DOMAIN chain[h].outputs :
          LET o == chain[h].outputs[k]
          IN chain[h].paid[k] = "alice" =>
               TryDecrypt(RebuiltWhole(o.enc_ciphertext_prefix), o.ephemeral_key, o.note_commitment, ivk) # {}
=============================================================================
