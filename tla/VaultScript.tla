---------------------------- MODULE VaultScript ----------------------------
(***************************************************************************)
(* The scripts the device rebuilds from an approved intent                 *)
(* (src/src/vault_script.c).  A script is a sequence of bytes, and opcodes *)
(* have their values; a key and a hash are KeyLen bytes long, 32 in the    *)
(* code, and every offset and length is written in terms of that.  Hashes  *)
(* are free constructors.  Offsets count from zero, as in the code.        *)
(***************************************************************************)
EXTENDS Integers, SequencesExt

CONSTANT KeyLen  \* VAULT_XONLY_PUBKEY_LEN = VAULT_HASH256_LEN

(* With shorter keys a refund leaf would outgrow a NoPayout leaf. *)
ASSUME KeyLenAssumption == KeyLen \in Nat /\ KeyLen >= 2

OP_PUSHBYTES_1 == 1
OP_PUSHBYTES_2 == 2
OP_PUSHBYTES_32 == 32
OP_PUSHBYTES_75 == 75
OP_PUSHDATA1 == 76
OP_RESERVED == 80
OP_1 == 81
OP_16 == 96
OP_SIZE == 130
OP_EQUAL == 135
OP_EQUALVERIFY == 136
OP_NUMEQUAL == 156
OP_NUMEQUALVERIFY == 157
OP_SHA256 == 168
OP_CHECKSIG == 172
OP_CHECKSIGVERIFY == 173
OP_CSV == 178
OP_CHECKSIGADD == 186
OP_TRUE == OP_1

-----------------------------------------------------------------------------
(* Numbers and keys. *)

(* The number whose little-endian bytes are s. *)
Number(s) == FoldRight(LAMBDA byte, rest: byte + 256 * rest, s, 0)

(* Faulty variant: no sign byte behind a top bit.                          *)
PushNumberUnsigned(value) ==
  CASE value = 0 -> <<0>>
    [] value \in 1..16 -> <<OP_1 - 1 + value>>
    [] value \in 17..255 -> <<1, value>>
    [] value > 255 -> <<2, value % 256, value \div 256>>

(* _push_number, for the 16-bit values it is called with: timelocks, key   *)
(* counts and the length of a hash.  A top bit costs a sign byte.          *)
PushNumber(value) ==
  CASE value = 0 -> <<0>>
    [] value \in 1..16 -> <<OP_1 - 1 + value>>
    [] value \in 17..127 -> <<1, value>>
    [] value \in 128..32767 -> <<2, value % 256, value \div 256>>
    [] value > 32767 -> <<3, value % 256, value \div 256, 0>>

EntryLen == 1 + KeyLen + 1

(* OP_PUSHBYTES_32 <key> <opcode>                                          *)
Entry(key, opcode) == <<OP_PUSHBYTES_32>> \o key \o <<opcode>>

(* encode_multisig_group *)
MultisigGroup(keys, is_final) ==
  FlattenSeq([i \in DOMAIN keys |->
                Entry(keys[i], IF i = 1 THEN OP_CHECKSIG ELSE OP_CHECKSIGADD)])
    \o PushNumber(Len(keys))
    \o <<IF is_final THEN OP_NUMEQUAL ELSE OP_NUMEQUALVERIFY>>

-----------------------------------------------------------------------------
(* The prefix of an Assert leaf, described byte by byte. *)

MultisigGroupLen(count) == EntryLen * count + Len(PushNumber(count)) + 1

(* vault_assert_prefix_len *)
AssertPrefixLen(intent) ==
  EntryLen + MultisigGroupLen(Len(intent.keeper_pks))
           + MultisigGroupLen(Len(intent.challenger_pks))

(* The byte at off of a group's description. *)
GroupByte(keys, off) ==
  LET entries == EntryLen * Len(keys)
      i == off \div EntryLen
      k == off % EntryLen
      count == PushNumber(Len(keys))
  IN  CASE off < entries /\ k = 0 -> OP_PUSHBYTES_32
        [] off < entries /\ k \in 1..KeyLen -> keys[i + 1][k]
        [] off < entries /\ k = KeyLen + 1 ->
             IF i = 0 THEN OP_CHECKSIG ELSE OP_CHECKSIGADD
        [] off \in entries..(entries + Len(count) - 1) -> count[off - entries + 1]
        [] off = entries + Len(count) -> OP_NUMEQUALVERIFY

(* Faulty variant: the second group starts where a one-byte count ends.    *)
AssertPrefixByteShortCount(intent, off) ==
  LET keepers == EntryLen
      challengers == keepers + EntryLen * Len(intent.keeper_pks) + 2
  IN  CASE off < keepers -> Entry(intent.depositor_pk, OP_CHECKSIGVERIFY)[off + 1]
        [] off \in keepers..(challengers - 1) ->
             GroupByte(intent.keeper_pks, off - keepers)
        [] off \in challengers..(AssertPrefixLen(intent) - 1) ->
             GroupByte(intent.challenger_pks,
                       (off - challengers)
                         % MultisigGroupLen(Len(intent.challenger_pks)))

(* vault_assert_prefix_byte *)
AssertPrefixByte(intent, off) ==
  LET keepers == EntryLen
      challengers == keepers + MultisigGroupLen(Len(intent.keeper_pks))
  IN  CASE off < keepers -> Entry(intent.depositor_pk, OP_CHECKSIGVERIFY)[off + 1]
        [] off \in keepers..(challengers - 1) ->
             GroupByte(intent.keeper_pks, off - keepers)
        [] off \in challengers..(AssertPrefixLen(intent) - 1) ->
             GroupByte(intent.challenger_pks, off - challengers)

(* What the stream is compared with. *)
AssertPrefix(intent) ==
  [n \in 1..AssertPrefixLen(intent) |-> AssertPrefixByte(intent, n - 1)]

-----------------------------------------------------------------------------
(* Leaves.  A builder is given the room in its buffer, and leaves it       *)
(* unbuilt when one piece, at its largest, would not fit.                  *)

Unbuilt == <<>>

Fixed(bytes) == [bytes |-> bytes, at_most |-> Len(bytes)]
Group(keys, is_final) ==
  [bytes |-> MultisigGroup(keys, is_final), at_most |-> EntryLen * Len(keys) + 6]
Csv(timelock, at_most) ==
  [bytes |-> PushNumber(timelock) \o <<OP_CSV>>, at_most |-> at_most]

Bytes(pieces) == FlattenSeq([i \in DOMAIN pieces |-> pieces[i].bytes])

Built(pieces, buf_max) ==
  IF \A i \in DOMAIN pieces :
       Len(Bytes(SubSeq(pieces, 1, i - 1))) + pieces[i].at_most <= buf_max
  THEN Bytes(pieces)
  ELSE Unbuilt

Required(key) == Fixed(Entry(key, OP_CHECKSIGVERIFY))

(* vault_build_depositor_claim_leaf *)
DepositorClaimLeaf(intent, buf_max) ==
  Built(<<Fixed(Entry(intent.depositor_pk, OP_CHECKSIG))>>, buf_max)

(* vault_build_htlc_leaf1: the refund leaf *)
HtlcLeaf1(intent, buf_max) ==
  Built(<<Required(intent.depositor_pk), Csv(intent.htlc_refund_timelock, 4)>>,
        buf_max)

(* vault_build_vault_utxo_leaf *)
VaultUtxoLeaf(intent, g, buf_max) ==
  Built(<<Required(intent.depositor_pk),
          Required(intent.groups[g].vault_provider_pk),
          Group(intent.keeper_pks, FALSE),
          Group(intent.challenger_pks, FALSE),
          Csv(intent.pegin_csv_timelock, 6)>>,
        buf_max)

(* vault_build_htlc_leaf0 *)
HtlcLeaf0(intent, g, hashlock, buf_max) ==
  Built(<<Fixed(<<OP_SIZE>> \o PushNumber(32) \o <<OP_EQUALVERIFY>>),
          Fixed(<<OP_SHA256>> \o Entry(hashlock, OP_EQUALVERIFY)),
          Required(intent.depositor_pk),
          Required(intent.groups[g].vault_provider_pk),
          Group(intent.keeper_pks, FALSE),
          Group(intent.challenger_pks, TRUE)>>,
        buf_max)

(* memcmp(a, b) < 0 *)
Precedes(a, b) ==
  \E i \in 1..KeyLen : a[i] < b[i] /\ \A j \in 1..(i - 1) : a[j] = b[j]

(* Faulty variant: the provider goes last.                                 *)
AppChallengersUnsorted(intent, g, claimer) ==
  IF claimer \in {0, Len(intent.keeper_pks) + 1}
  THEN intent.keeper_pks
  ELSE Append(RemoveAt(intent.keeper_pks, claimer),
              intent.groups[g].vault_provider_pk)

(* build_app_challengers: all who may challenge the claimer, in order *)
AppChallengers(intent, g, claimer) ==
  IF claimer \in {0, Len(intent.keeper_pks) + 1}
  THEN intent.keeper_pks
  ELSE LET provider == intent.groups[g].vault_provider_pk
           others == RemoveAt(intent.keeper_pks, claimer)
           later == {i \in DOMAIN others : Precedes(provider, others[i])}
       IN  InsertAt(others, IF later = {} THEN Len(others) + 1 ELSE Min(later),
                    provider)

ClaimerPk(intent, g, claimer) ==
  CASE claimer = 0 -> intent.groups[g].vault_provider_pk
    [] claimer \in DOMAIN intent.keeper_pks -> intent.keeper_pks[claimer]
    [] claimer = Len(intent.keeper_pks) + 1 -> intent.depositor_pk

(* vault_build_assert0_payout_leaf *)
Assert0PayoutLeaf(intent, g, claimer, buf_max) ==
  Built(<<Required(ClaimerPk(intent, g, claimer)),
          Group(AppChallengers(intent, g, claimer), FALSE),
          Group(intent.challenger_pks, FALSE),
          Csv(intent.payout_timelock, 6)>>,
        buf_max)

(* vault_build_nopayout_leaf *)
NoPayoutLeaf(intent, challenger, buf_max) ==
  LET pks == intent.keeper_pks \o intent.challenger_pks
  IN  Built(<<Required(intent.depositor_pk),
              Fixed(Entry(pks[challenger + 1], OP_CHECKSIG))>>,
            buf_max)

-----------------------------------------------------------------------------
(* What is derived from leaves.  These are hashes: equal only when all     *)
(* that goes into them is.                                                 *)

(* vault_taproot_leaf_hash: the length is hashed in front of the script. *)
TaprootLeafHash(script) == [len |-> Len(script), data |-> script]

(* vault_taproot_tweak_scriptpubkey, over a set of leaf hashes: siblings   *)
(* are sorted before they are hashed together.                             *)
TaprootOutput(leaves) == [nums_tweaked_with |-> leaves]

(* vault_build_htlc_merkle_root, vault_build_htlc_scriptpubkey *)
HtlcScriptPubKey(intent, g, hashlock, buf_max) ==
  TaprootOutput({TaprootLeafHash(HtlcLeaf0(intent, g, hashlock, buf_max)),
                 TaprootLeafHash(HtlcLeaf1(intent, buf_max))})

VaultUtxoScriptPubKey(intent, g, buf_max) ==
  TaprootOutput({TaprootLeafHash(VaultUtxoLeaf(intent, g, buf_max))})

DepositorClaimScriptPubKey(intent, buf_max) ==
  TaprootOutput({TaprootLeafHash(DepositorClaimLeaf(intent, buf_max))})

(* Faulty variant: every group spends output 0 of the Pre-PegIn.           *)
PegInTxidFirstOutput(intent, g, buf_max) ==
  [prevout |-> <<intent.prepegin_txid, 0>>,
   vault   |-> <<intent.groups[g].vault_amount,
                 VaultUtxoScriptPubKey(intent, g, buf_max)>>,
   claim   |-> <<intent.groups[g].depositor_claim_value,
                 DepositorClaimScriptPubKey(intent, buf_max)>>]

(* vault_compute_pegin_txid; version, sequence, anchor, locktime are fixed *)
PegInTxid(intent, g, buf_max) ==
  [prevout |-> <<intent.prepegin_txid, intent.groups[g].htlc_vout>>,
   vault   |-> <<intent.groups[g].vault_amount,
                 VaultUtxoScriptPubKey(intent, g, buf_max)>>,
   claim   |-> <<intent.groups[g].depositor_claim_value,
                 DepositorClaimScriptPubKey(intent, buf_max)>>]
=============================================================================
