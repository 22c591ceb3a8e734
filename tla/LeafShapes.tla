----------------------------- MODULE LeafShapes -----------------------------
(***************************************************************************)
(* How a leaf script is recognised and read without an intent              *)
(* (src/src/sign_psbt_validate_helpers.c, and the checks on tls.leaf_script*)
(* written out in the validators).  A parser yields what it reads: the set *)
(* is empty when it refuses, and otherwise has one element.                *)
(***************************************************************************)
EXTENDS VaultScript

VAULT_DEPOSITOR_CLAIM_LEAF_LEN == EntryLen
VAULT_NOPAYOUT_LEAF_LEN == 2 * EntryLen
VAULT_LEAF_GROUP0_PUSH_OFF == EntryLen
VAULT_LEAF_GROUP0_OP_OFF == VAULT_LEAF_GROUP0_PUSH_OFF + 1 + KeyLen
REFUND_SCRIPT_MIN_LEN == EntryLen + 2
WC_LEAF_LEN == EntryLen + 6 + KeyLen + 1

SCRIPT_NUM_MAX_LEN == 4
SCRIPT_NUM_SIGN_BIT == 128
BIP68_SEQUENCE_MASK == 65535

VAULT_TIMELOCK_MIN == 72
VAULT_PAYOUT_TIMELOCK_MIN == 90
VAULT_PAYOUT_TIMELOCK_MAX == 4032

(* script[off] *)
At(script, off) == script[off + 1]

(* The n bytes of script from off on. *)
Slice(script, off, n) == SubSeq(script, off + 1, off + n)

LeadingKey(script) == Slice(script, 1, KeyLen)

OpensWith(script, opcode) ==
  /\ At(script, 0) = OP_PUSHBYTES_32
  /\ At(script, 1 + KeyLen) = opcode

(* parse_claim_leaf_script *)
ClaimLeafKeys(script) ==
  IF Len(script) = VAULT_DEPOSITOR_CLAIM_LEAF_LEN /\ OpensWith(script, OP_CHECKSIG)
  THEN {LeadingKey(script)}
  ELSE {}

-----------------------------------------------------------------------------
(* The refund leaf. *)

(* A number and the offset behind it. *)
NumberPushed(script, off, n) ==
  IF /\ n <= SCRIPT_NUM_MAX_LEN
     /\ off + n <= Len(script)
     /\ At(script, off + n - 1) < SCRIPT_NUM_SIGN_BIT
  THEN {[csv |-> Number(Slice(script, off, n)), next |-> off + n]}
  ELSE {}

(* What stands behind <D> OP_CHECKSIGVERIFY. *)
OperandPushed(script) ==
  LET op == At(script, EntryLen)
  IN  CASE op \in OP_PUSHBYTES_1..OP_PUSHBYTES_75 ->
             NumberPushed(script, EntryLen + 1, op)
        [] op = OP_PUSHDATA1 ->
             NumberPushed(script, EntryLen + 2, At(script, EntryLen + 1))
        [] op \in OP_1..OP_16 ->
             {[csv |-> op - OP_RESERVED, next |-> EntryLen + 1]}
        [] OTHER -> {}

(* Faulty variant: the operand is not held to the bits consensus looks at. *)
OperandAcceptableUnbounded(csv) == csv # 0

OperandAcceptable(csv) == csv # 0 /\ csv <= BIP68_SEQUENCE_MASK

(* parse_refund_leaf_script *)
RefundLeaves(script) ==
  IF Len(script) >= REFUND_SCRIPT_MIN_LEN /\ OpensWith(script, OP_CHECKSIGVERIFY)
  THEN {[key |-> LeadingKey(script), csv |-> p.csv] :
          p \in {q \in OperandPushed(script) :
                   /\ OperandAcceptable(q.csv)
                   /\ q.next = Len(script) - 1
                   /\ At(script, q.next) = OP_CSV}}
  ELSE {}

-----------------------------------------------------------------------------
(* Leaves that continue into a signer group. *)

(* Faulty variant: the opcode behind the second key is not looked at.      *)
OpensIntoSignerGroupAnyOpcode(script, script_len) ==
  /\ script_len > VAULT_NOPAYOUT_LEAF_LEN
  /\ OpensWith(script, OP_CHECKSIGVERIFY)
  /\ At(script, VAULT_LEAF_GROUP0_PUSH_OFF) = OP_PUSHBYTES_32

(* <key> OP_CHECKSIGVERIFY <key> OP_CHECKSIG, and more behind it; of a     *)
(* script, or of as many of its bytes as were kept.                        *)
OpensIntoSignerGroup(script, script_len) ==
  /\ script_len > VAULT_NOPAYOUT_LEAF_LEN
  /\ OpensWith(script, OP_CHECKSIGVERIFY)
  /\ At(script, VAULT_LEAF_GROUP0_PUSH_OFF) = OP_PUSHBYTES_32
  /\ At(script, VAULT_LEAF_GROUP0_OP_OFF) = OP_CHECKSIG

(* leaf_has_assert_shape *)
HasAssertShape(prefix, script_len, last_byte) ==
  /\ OpensIntoSignerGroup(prefix, script_len)
  /\ last_byte = OP_TRUE

PayoutTimelockAcceptable(t2) ==
  t2 \in VAULT_PAYOUT_TIMELOCK_MIN..VAULT_PAYOUT_TIMELOCK_MAX

(* The timelock at the end, tried with two bytes and then with one. *)
TwoByteTail(script) ==
  LET n == Len(script)
  IN  IF At(script, n - 4) = OP_PUSHBYTES_2 /\ At(script, n - 2) < SCRIPT_NUM_SIGN_BIT
      THEN {Number(Slice(script, n - 3, 2))} ELSE {}

OneByteTail(script) ==
  LET n == Len(script)
  IN  IF At(script, n - 3) = OP_PUSHBYTES_1 /\ At(script, n - 2) < SCRIPT_NUM_SIGN_BIT
      THEN {At(script, n - 2)} ELSE {}

PayoutTimelocks(script) ==
  LET two == {t2 \in TwoByteTail(script) : PayoutTimelockAcceptable(t2)}
      one == {t2 \in OneByteTail(script) : PayoutTimelockAcceptable(t2)}
  IN  IF two # {} THEN two ELSE one

(* parse_payout_leaf_script *)
PayoutLeaves(script) ==
  IF /\ OpensIntoSignerGroup(script, Len(script))
     /\ At(script, Len(script) - 1) = OP_CSV
  THEN {[key |-> LeadingKey(script), csv |-> t2] : t2 \in PayoutTimelocks(script)}
  ELSE {}

-----------------------------------------------------------------------------
(* Leaves whose shape the validators spell out. *)

(* _validate_nopayout: the two keys *)
NoPayoutLeaves(script) ==
  IF /\ Len(script) = VAULT_NOPAYOUT_LEAF_LEN
     /\ OpensWith(script, OP_CHECKSIGVERIFY)
     /\ At(script, EntryLen) = OP_PUSHBYTES_32
     /\ At(script, VAULT_NOPAYOUT_LEAF_LEN - 1) = OP_CHECKSIG
  THEN {[key |-> LeadingKey(script), challenger |-> Slice(script, EntryLen + 1, KeyLen)]}
  ELSE {}

(* _validate_display_wc *)
IsWCLeaf(script) ==
  /\ Len(script) = WC_LEAF_LEN
  /\ OpensWith(script, OP_CHECKSIGVERIFY)
  /\ Slice(script, EntryLen, 6)
       = <<OP_SIZE, OP_PUSHBYTES_1, 32, OP_EQUALVERIFY, OP_SHA256, OP_PUSHBYTES_32>>
  /\ At(script, WC_LEAF_LEN - 1) = OP_EQUAL
=============================================================================
