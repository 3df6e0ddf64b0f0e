------------------------------ MODULE WalletTx ------------------------------
(***************************************************************************)
(* What the wallet and the command line client build, the rules a pool     *)
(* admits it by, and the proof and the signature that go with it.          *)
(* Byte strings whose bytes no rule reads are their lengths; those that    *)
(* are signed are sequences of symbols.                                    *)
(***************************************************************************)
EXTENDS ShieldedNotes, ProtocolConstants, SequencesExt

CONSTANT Word   \* 2^64: a u64 counts modulo Word

\* A u64 holds every fee.
ASSUME WordAssumption == Word \in Nat /\ Word > 1000000

\* The build decides what an overflow does: a panic with overflow checks, the
\* value modulo Word without.
Sum64(a, b, checked) ==
  IF a + b < Word THEN {a + b} ELSE IF checked THEN {} ELSE {(a + b) % Word}
Difference64(a, b, checked) ==
  IF a >= b THEN {a - b} ELSE IF checked THEN {} ELSE {(a - b) % Word}

---------------------------------------------------------------------------
\* Signatures.  A key is named by its seed.
Sign(seed, message) == [signer |-> seed, message |-> message]
Verify(verifier, message, sig) == sig = Sign(verifier, message)

Cvs(descriptions) == [k \in DOMAIN descriptions |-> descriptions[k].cv]
BindingMessage(tx, bytes) == Cvs(tx.spends) \o Cvs(tx.outputs) \o bytes
BindingSig(tx, bytes, sk) == Sign(sk, BindingMessage(tx, bytes))
VerifyBindingSig(tx, bytes, sk) == Verify(sk, BindingMessage(tx, bytes), tx.binding_sig)

\* What is signed of the parts, one after the other: neither gas limit, memo,
\* proof nor caller is signed, and nothing marks where a part ends.
SpendBytes(spends) == FlattenSeq([k \in DOMAIN spends |-> <<spends[k].nullifier, spends[k].cv>>])
OutputBytes(outputs) == FlattenSeq([k \in DOMAIN outputs |-> <<outputs[k].note_commitment, outputs[k].cv>>])
CallBytes(calls) ==
  FlattenSeq([k \in DOMAIN calls |-> <<calls[k].contract_id>> \o calls[k].method \o calls[k].args])
SignedParts(tx) ==
  SpendBytes(tx.spends) \o OutputBytes(tx.outputs) \o CallBytes(tx.contract_call)
    \o FlattenSeq(tx.deploy_contract)

\* Mutant: the fee is not signed.
SigningBytesNoFee(tx) == <<tx.version, tx.chain_id, tx.timestamp>> \o SignedParts(tx)

SigningBytes(tx) == <<tx.version, tx.chain_id, tx.fee, tx.timestamp>> \o SignedParts(tx)

---------------------------------------------------------------------------
\* The spend circuit and its folding: one step per spend, sound when each is.
Satisfied(value, sk, nf) == sk * value = nf

ProveSpends(values, sks, nullifiers) ==
  IF values = <<>> \/ Len(values) # Len(sks) \/ Len(values) # Len(nullifiers) THEN {}
  ELSE {[k \in DOMAIN values |-> Satisfied(values[k], sks[k], nullifiers[k])]}

VerifySpendProof(proof, steps) == Len(proof) = steps /\ \A k \in DOMAIN proof : proof[k]

---------------------------------------------------------------------------
\* Transactions.  Options and calls are sequences of at most one element.
NowObfuscated(now) == (now \div 900) * 900

\* More than a folded proof and the other fields take.
ENVELOPE == 4000000
LengthOf(option) == IF option = <<>> THEN 0 ELSE Len(option[1])
CallData(calls) == FlattenSeq([k \in DOMAIN calls |-> calls[k].method \o calls[k].args])
SerializedSize(tx) == ENVELOPE + LengthOf(tx.deploy_contract) + Len(CallData(tx.contract_call))

\* Mutant: the tiers are a minimum.
ValidFormatMinimum(tx) ==
  /\ tx.version = 1
  /\ tx.contract_call = <<>> /\ tx.deploy_contract = <<>> => tx.spends # <<>> /\ tx.outputs # <<>>
  /\ Len(tx.spends) <= MAX_SPENDS_PER_TX
  /\ Len(tx.outputs) <= MAX_OUTPUTS_PER_TX
  /\ tx.fee >= 1000
  /\ tx.gas_limit <= MAX_TX_GAS
  /\ tx.timestamp % 900 = 0
  /\ LengthOf(tx.deploy_contract) <= MAX_CONTRACT_SIZE
  /\ SerializedSize(tx) <= MAX_P2P_MESSAGE_SIZE

ValidFormat(tx) ==
  /\ tx.version = 1
  /\ tx.contract_call = <<>> /\ tx.deploy_contract = <<>> => tx.spends # <<>> /\ tx.outputs # <<>>
  /\ Len(tx.spends) <= MAX_SPENDS_PER_TX
  /\ Len(tx.outputs) <= MAX_OUTPUTS_PER_TX
  /\ tx.fee \in FEE_TIERS
  /\ tx.gas_limit <= MAX_TX_GAS
  /\ tx.timestamp % 900 = 0
  /\ LengthOf(tx.deploy_contract) <= MAX_CONTRACT_SIZE
  /\ SerializedSize(tx) <= MAX_P2P_MESSAGE_SIZE

---------------------------------------------------------------------------
\* The builder.  The nullifier is a constant, the secret key of the proof 1
\* and its nullifier 2.
MockSpend(nullifier, input) ==
  [anchor |-> 0, nullifier |-> nullifier, cv |-> ValueCommitment(input, Random(4))]

MockProof(input) == ProveSpends(<<input>>, <<1>>, <<2>>)

Assembled(sk, spend, outputs, fee, gas, call, code, proof, now) ==
  LET unsigned == [version |-> 1, chain_id |-> 1, spends |-> <<spend>>, outputs |-> outputs,
                   fee |-> fee, gas_limit |-> gas, contract_call |-> call, deploy_contract |-> code,
                   binding_sig |-> <<>>, timestamp |-> NowObfuscated(now), proof |-> proof]
  IN [unsigned EXCEPT !.binding_sig = BindingSig(unsigned, SigningBytes(unsigned), sk)]

Output(n, pk_d, ovk) ==
  LET sealed == EncryptNote(n, pk_d, ovk, Random(3))
  IN [note_commitment |-> Commitment(n), cv |-> ValueCommitment(n.value, Random(5)),
      ephemeral_key |-> sealed.ephemeral_key, enc_ciphertext |-> sealed.enc_ciphertext,
      out_ciphertext |-> sealed.out_ciphertext]

BuildTransfer(sk, recipient, amount, fee, input, now, checked) ==
  LET output == Output(Note(amount, Random(1), Random(2), recipient), recipient.pk_d,
                       FullViewingKey(sk).ovk)
  IN {Assembled(sk, MockSpend("dummy_nf", input), <<output>>, fee, 21000, <<>>, <<>>, proof, now) :
        proof \in IF \E rest \in Difference64(input, amount, checked) : Difference64(rest, fee, checked) # {}
                  THEN MockProof(input) ELSE {}}

BuildContractDeploy(sk, bytecode, fee, gas, input, now) ==
  {Assembled(sk, MockSpend("deploy_nf", input), <<>>, fee, gas, <<>>, <<bytecode>>, proof, now) :
     proof \in MockProof(input)}

BuildContractCall(sk, contract, method, args, fee, gas, input, now) ==
  LET call == [contract_id |-> contract, method |-> method, args |-> args, gas_limit |-> gas,
               caller_commitment |-> <<"blake3", sk>>]
  IN {Assembled(sk, MockSpend("call_nf", input), <<>>, fee, gas, <<call>>, <<>>, proof, now) :
        proof \in MockProof(input)}

---------------------------------------------------------------------------
\* The client.  An argument is a text: hex of so many bytes, or base58.
Hex(bytes, length) == [form |-> "hex", bytes |-> bytes, length |-> length]
ToBase58(address) ==
  [form |-> "base58", bytes |-> <<"base58", address.diversifier, address.pk_d>>, length |-> 49]
IsHex32(text) == text.form = "hex" /\ text.length = 32

CmdGenerateKeys(seed) ==
  IF ~IsHex32(seed) THEN {}
  ELSE LET sk == SpendingKey(seed.bytes)
       IN {[spending_key |-> Hex(sk, 32), fvk |-> FullViewingKey(sk),
            payment_address |-> ToBase58(PaymentAddress(IncomingViewKey(FullViewingKey(sk)), 0))]}

\* The mock input is exactly what is spent.
CmdSend(to, amount, fee, key, now, checked) ==
  IF ~IsHex32(key) \/ ~IsHex32(to) THEN {}
  ELSE UNION {BuildTransfer(key.bytes, [diversifier |-> <<"div", 0>>, pk_d |-> to.bytes],
                            amount, fee, input, now, checked) : input \in Sum64(amount, fee, checked)}

---------------------------------------------------------------------------
\* A transfer the client sends and the pool admits carries a proof the engine
\* refuses, unless amount and fee sum to 2 modulo 2^64.  The pool's format check
\* turns on the fee alone, the client does not take the address it printed, and
\* all transfers share their nullifier (main.rs 145-182, builder.rs 21-118,
\* transaction.rs 55-101, engine.rs 119-135).
SentNeverProven(to, amount, fee, now, checked) ==
  \A keys \in CmdGenerateKeys(Hex("alice", 32)) :
    LET sent == CmdSend(to, amount, fee, keys.spending_key, now, checked)
    IN /\ CmdSend(keys.payment_address, amount, fee, keys.spending_key, now, checked) = {}
       /\ sent # {} <=> IsHex32(to) /\ (checked => amount + fee < Word)
       /\ \A tx \in sent :
            /\ ValidFormat(tx) <=> fee \in FEE_TIERS
            /\ ValidFormat(tx) => (VerifySpendProof(tx.proof, 1) <=> amount + fee = Word + 2)
            /\ tx.spends[1].nullifier = "dummy_nf"

Verified(tx, sk) == VerifyBindingSig(tx, SigningBytes(tx), sk)

FieldsCovered(tx, sk) ==
  /\ Verified(tx, sk)
  /\ Verified([tx EXCEPT !.gas_limit = 0, !.proof = <<>>], sk)
  /\ ~Verified([tx EXCEPT !.fee = 100000], sk)
  /\ ~Verified([tx EXCEPT !.timestamp = 0], sk)

\* The output exchanged for another note's; the call with its text divided
\* otherwise, by another caller, or of another contract; and other code.
Exchanged(tx, note) == [tx EXCEPT !.outputs[1].note_commitment = Commitment(note)]
Divided(tx, args) == [tx EXCEPT !.contract_call[1].method = <<>>, !.contract_call[1].args = args]
Posed(tx) == [tx EXCEPT !.contract_call[1].caller_commitment = <<"other">>]
Diverted(tx) == [tx EXCEPT !.contract_call[1].contract_id = "c2"]
Emptied(tx) == [tx EXCEPT !.deploy_contract = <<<<>>>>]

TransferCovered(tx, sk, to) ==
  FieldsCovered(tx, sk) /\ ~Verified(Exchanged(tx, Note(2, Random(1), Random(2), to)), sk)

CallCovered(tx, sk, text) ==
  /\ FieldsCovered(tx, sk)
  /\ Verified(Posed(tx), sk)
  /\ Verified(Divided(tx, text), sk)
  /\ text # <<>> => ~Verified(Divided(tx, <<>>), sk)
  /\ ~Verified(Diverted(tx), sk)

DeployCovered(tx, sk, code) ==
  FieldsCovered(tx, sk) /\ (code # <<>> => ~Verified(Emptied(tx), sk))

\* The binding signature of what the builder makes verifies, and survives a
\* change of what it does not cover - gas limit, proof, caller, the border
\* between method and arguments - but not one of fee, time, output, contract,
\* call or code (transaction.rs 104-127, keys.rs 62-108, builder.rs 21-237).
\* Nothing but the tests of keys.rs verifies it.
SignatureCovers(method, args, gas) ==
  LET sk == SpendingKey("alice")
      to == PaymentAddress(IncomingViewKey(FullViewingKey(sk)), 0)
      code == method \o args
  IN /\ \A checked \in BOOLEAN : \A tx \in BuildTransfer(sk, to, 1, 10000, 10001, 1800, checked) :
          TransferCovered(tx, sk, to)
     /\ \A tx \in BuildContractCall(sk, "c1", method, args, 10000, gas, 2, 1800) :
          CallCovered(tx, sk, code)
     /\ \A tx \in BuildContractDeploy(sk, code, 10000, gas, 2, 1800) : DeployCovered(tx, sk, code)
=============================================================================
