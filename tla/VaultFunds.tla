----------------------------- MODULE VaultFunds -----------------------------
(***************************************************************************)
(* The money of a vault (src/src/sign_psbt_validate.c): which outputs and  *)
(* which amounts the validators accept from the Pre-PegIn to the payout,   *)
(* given the intent VaultTlv parsed.  An output is who it pays and how     *)
(* much; that it pays the right script is compared with what VaultScript   *)
(* builds.  Who may sign what, and how often, is in SignPsbt.              *)
(*                                                                         *)
(* The totals of inputs and of outputs are the base app's, and external.   *)
(***************************************************************************)
EXTENDS VaultTlv

CONSTANTS
  MaxMoney,        \* what there is: no output on the chain exceeds it
  PrePegIns(_, _), \* the Pre-PegIns a host submits, for scalars and groups
  HtlcValues(_),   \* what it says an HTLC output holds, for a group
  Payouts(_, _),   \* the Payouts it submits, for scalars and a group
  NoPayouts(_)     \* the NoPayouts it submits, for scalars

P2A_ANCHOR_VALUE == 240
MAX_PAYOUT_VSIZE_BASE == 500
MAX_PAYOUT_VSIZE_PER_PARTICIPANT == 55
MAX_COUNCIL_NOPAYOUT_VSIZE == 500
MAX_NOPAYOUT_VSIZE == 450
MAX_PAYOUTFINALIZE_VSIZE == 500

(* All there is, and the highest bound computed from a legal rate on top   *)
(* of it, do not wrap.                                                     *)
ASSUME MoneyAssumption ==
  /\ {MaxMoney, MaxRate, MaxKeepers, MaxChallengers} \subseteq Nat
  /\ MaxMoney + 2 * VAULT_DUST_LIMIT
       + MaxRate * (MAX_PAYOUT_VSIZE_BASE
                      + MAX_PAYOUT_VSIZE_PER_PARTICIPANT * (MaxKeepers + MaxChallengers))
       < Word

VARIABLE accepted  \* the transaction last accepted

vars == <<phase, scalars, groups, record, error, sent, arrived, accepted>>

Nothing == [flow |-> "none"]

Init == TlvInit /\ accepted = Nothing

Sum(values) == FoldLeft(LAMBDA total, v: total + v, 0, values)

Values(outputs) == [i \in DOMAIN outputs |-> outputs[i].value]

(* uint64_t: what a transaction can say an output holds. *)
Amount == 0..(Word - 1)

Wrap(n) == n % Word

(* The scripts an output is compared with, or any other. *)
Payees ==
  {<<"depositor">>, <<"auth_anchor">>, <<"stranger">>} \cup ({"htlc"} \X (1..MaxVaults))

Output == [pays: Payees, value: Amount, internal: BOOLEAN]

-----------------------------------------------------------------------------
(* Pre-PegIn *)

(* Faulty variant: the anchor of the PegIn is forgotten.                   *)
HtlcMinimumBare(g) == Wrap(g.vault_amount + g.depositor_claim_value)

(* What the PegIn will need, its fee aside. *)
HtlcMinimum(g) ==
  Wrap(Wrap(g.vault_amount + g.depositor_claim_value) + P2A_ANCHOR_VALUE)

(* No sum wrapped on the way. *)
HtlcSumsFit(g) ==
  /\ Wrap(g.vault_amount + g.depositor_claim_value) >= g.vault_amount
  /\ HtlcMinimum(g) >= P2A_ANCHOR_VALUE
  /\ Wrap(HtlcMinimum(g) + g.pegin_max_fee) >= HtlcMinimum(g)

(* Faulty variant: an HTLC may hold more than its PegIn may spend.         *)
HtlcValueAcceptableUncapped(g, value) == value >= HtlcMinimum(g)

HtlcValueAcceptable(g, value) ==
  value \in HtlcMinimum(g)..Wrap(HtlcMinimum(g) + g.pegin_max_fee)

(* _validate_prepegin_htlc_outputs; outputs count from zero.               *)
HtlcOutputsAcceptable(outputs) ==
  \A i \in DOMAIN groups :
    LET g == groups[i]
        out == outputs[g.htlc_vout + 1]
    IN  /\ g.htlc_vout < Len(outputs)
        /\ out.pays = <<"htlc", i>>
        /\ HtlcSumsFit(g)
        /\ HtlcValueAcceptable(g, out.value)

(* Faulty variant: change and anchor in whichever order.                   *)
DepositorOutputAcceptableAnyOrder(before, value, change_allowed) ==
  \/ /\ value = VAULT_DUST_LIMIT
     /\ VAULT_DUST_LIMIT \notin Range(before)
  \/ /\ value > VAULT_DUST_LIMIT
     /\ change_allowed
     /\ Range(before) \subseteq {VAULT_DUST_LIMIT}

(* prepegin_depositor_output_accept: one anchor, and then one change, if   *)
(* change is allowed; before holds the depositor's outputs accepted so far.*)
DepositorOutputAcceptable(before, value, change_allowed) ==
  \/ /\ value = VAULT_DUST_LIMIT
     /\ before = <<>>
  \/ /\ value > VAULT_DUST_LIMIT
     /\ change_allowed
     /\ before = <<VAULT_DUST_LIMIT>>

IsHtlcOutput(n) == \E i \in DOMAIN groups : groups[i].htlc_vout = n

(* The last group has the highest htlc_vout. *)
BehindHtlcs(n) == n > groups[Len(groups)].htlc_vout

Others(outputs) == {n \in 0..(Len(outputs) - 1) : ~IsHtlcOutput(n)}

(* The values of the outputs that pay the depositor, in order. *)
DepositorValues(outputs) ==
  FoldLeft(LAMBDA values, out:
             IF out.pays = <<"depositor">> THEN Append(values, out.value) ELSE values,
           <<>>, outputs)

(* Those in front of output n. *)
DepositorValuesBefore(outputs, n) == DepositorValues(SubSeq(outputs, 1, n))

(* _validate_prepegin_outputs *)
OtherOutputsAcceptable(outputs, change_allowed) ==
  \A n \in Others(outputs) :
    LET out == outputs[n + 1]
    IN  /\ ~out.internal
        /\ BehindHtlcs(n)
        /\ \/ /\ out.pays = <<"auth_anchor">>
              /\ out.value = 0
              /\ \A k \in Others(outputs) : k < n => outputs[k + 1].pays # <<"auth_anchor">>
           \/ /\ out.pays = <<"depositor">>
              /\ DepositorOutputAcceptable(DepositorValuesBefore(outputs, n), out.value,
                                           change_allowed)

(* _validate_prepegin, as far as money goes. *)
PrePegInAcceptable(tx) ==
  /\ HtlcOutputsAcceptable(tx.outputs)
  /\ OtherOutputsAcceptable(tx.outputs, tx.change_allowed)
  /\ Sum(Values(tx.outputs)) <= tx.inputs_total
  /\ tx.inputs_total - Sum(Values(tx.outputs)) <= scalars["prepegin_max_fee"]

SignPrePegIn(tx) ==
  /\ phase = "loaded"
  /\ tx.outputs \in Seq(Output) /\ tx.inputs_total \in Amount
  /\ PrePegInAcceptable(tx)
  /\ accepted' = [flow |-> "prepegin", outputs |-> tx.outputs,
                  change_allowed |-> tx.change_allowed, inputs_total |-> tx.inputs_total]
  /\ UNCHANGED tlvVars

-----------------------------------------------------------------------------
(* PegIn: its outputs are fixed by the group. *)

(* _pegin_validate_outputs *)
PegInAcceptable(g, htlc_value) ==
  /\ Wrap(g.vault_amount + g.depositor_claim_value) >= g.vault_amount
  /\ HtlcMinimum(g) >= P2A_ANCHOR_VALUE
  /\ htlc_value >= HtlcMinimum(g)
  /\ htlc_value - HtlcMinimum(g) <= g.pegin_max_fee

SignPegIn(i, htlc_value) ==
  /\ phase = "loaded"
  /\ htlc_value \in Amount
  /\ PegInAcceptable(groups[i], htlc_value)
  /\ accepted' = [flow |-> "pegin", group |-> i, htlc_value |-> htlc_value]
  /\ UNCHANGED tlvVars

-----------------------------------------------------------------------------
(* Payout *)

Rate == scalars["base_fee_rate"]

(* vsize > UINT64_MAX / rate *)
ProductWraps(vsize) == vsize > (Word - 1) \div Rate

(* The bound on Assert:0, where its product does not wrap. *)
Assert0Acceptable(value) ==
  /\ value >= VAULT_DUST_LIMIT
  /\ ~ProductWraps(MAX_COUNCIL_NOPAYOUT_VSIZE) =>
       value <= Wrap(VAULT_DUST_LIMIT + Rate * MAX_COUNCIL_NOPAYOUT_VSIZE)

FeeAtMost(fee, vsize) ==
  /\ ~ProductWraps(vsize)
  /\ fee <= Rate * vsize

PayoutVsize ==
  MAX_PAYOUT_VSIZE_BASE
    + MAX_PAYOUT_VSIZE_PER_PARTICIPANT
        * (scalars["keeper_count"] + scalars["challenger_count"])

(* Values of the outputs a claimer may have: the provider, claimer 0, is   *)
(* paid its commission or less, dust excepted; all others have an anchor.  *)
PayoutOutputsAcceptable(g, claimer, outputs) ==
  /\ Len(outputs) = IF claimer = 0 THEN 3 ELSE 2
  /\ outputs[1] >= VAULT_DUST_LIMIT
  /\ IF claimer = 0
     THEN /\ outputs[2] <= g.commission_fee
          /\ outputs[2] > 0 => outputs[2] >= VAULT_DUST_LIMIT
          /\ outputs[3] = VAULT_DUST_LIMIT
     ELSE outputs[2] = VAULT_DUST_LIMIT

(* total_out + out_value < total_out, output by output *)
TotalFits(outputs) ==
  \A i \in 1..(Len(outputs) - 1) :
    LET total == Wrap(Sum(SubSeq(outputs, 1, i)))
    IN  Wrap(total + outputs[i + 1]) >= total

(* _validate_payout, as far as money goes. *)
PayoutAcceptable(g, claimer, assert0, outputs) ==
  LET total_in == Wrap(g.vault_amount + assert0)
      total_out == Wrap(Sum(outputs))
  IN  /\ Assert0Acceptable(assert0)
      /\ PayoutOutputsAcceptable(g, claimer, outputs)
      /\ TotalFits(outputs)
      /\ total_out < total_in
      /\ FeeAtMost(total_in - total_out, PayoutVsize)

SignPayout(i, tx) ==
  /\ phase = "loaded"
  /\ tx.outputs \in Seq(Amount) /\ tx.assert0 \in Amount
  /\ tx.input0 = groups[i].vault_amount
  /\ PayoutAcceptable(groups[i], tx.claimer, tx.assert0, tx.outputs)
  /\ accepted' = [flow |-> "payout", group |-> i, claimer |-> tx.claimer,
                  assert0 |-> tx.assert0, outputs |-> tx.outputs]
  /\ UNCHANGED tlvVars

(* _validate_nopayout, as far as money goes: inputs and outputs by value.  *)
SignNoPayout(tx) ==
  /\ phase = "loaded"
  /\ tx.inputs \in Seq(Amount) /\ tx.outputs \in Seq(Amount)
  /\ Assert0Acceptable(tx.inputs[1])
  /\ Sum(tx.outputs) <= Sum(tx.inputs)
  /\ tx.outputs[1] >= VAULT_DUST_LIMIT
  /\ FeeAtMost(Sum(tx.inputs) - Sum(tx.outputs), MAX_NOPAYOUT_VSIZE)
  /\ accepted' = [flow |-> "nopayout", inputs |-> tx.inputs, outputs |-> tx.outputs]
  /\ UNCHANGED tlvVars

(* _validate_display_payout_finalize while an intent is loaded: only a     *)
(* single vault tells which amount is being spent.                         *)
PayoutFinalizeAcceptable(assert0, outputs) ==
  LET va == groups[1].vault_amount
  IN  /\ Assert0Acceptable(assert0)
      /\ outputs[1] # 0
      /\ outputs[2] = VAULT_DUST_LIMIT
      /\ Len(groups) = 1 =>
           /\ outputs[1] < Wrap(va - VAULT_DUST_LIMIT)
           /\ FeeAtMost(Wrap(va - VAULT_DUST_LIMIT - outputs[1]), MAX_PAYOUTFINALIZE_VSIZE)

SignPayoutFinalize(tx) ==
  /\ phase = "loaded"
  /\ tx.outputs \in Seq(Amount) /\ tx.assert0 \in Amount /\ Len(tx.outputs) = 2
  /\ PayoutFinalizeAcceptable(tx.assert0, tx.outputs)
  /\ Sum(tx.outputs) <= tx.input0 + tx.assert0
  /\ accepted' = [flow |-> "payout_finalize", assert0 |-> tx.assert0,
                  outputs |-> tx.outputs]
  /\ UNCHANGED tlvVars

Sign ==
  \/ \E tx \in PrePegIns(scalars, groups) : SignPrePegIn(tx)
  \/ \E i \in DOMAIN groups :
       \/ \E htlc_value \in HtlcValues(groups[i]) : SignPegIn(i, htlc_value)
       \/ \E tx \in Payouts(scalars, groups[i]) : SignPayout(i, tx) \/ SignPayoutFinalize(tx)
  \/ \E tx \in NoPayouts(scalars) : SignNoPayout(tx)

Load == TlvNext /\ accepted' = Nothing

(* No verdict depends on an earlier one: one is enough for each load.      *)
Next == Load \/ (accepted = Nothing /\ phase = "loaded" /\ Sign)

Spec == Init /\ [][Next]_vars

-----------------------------------------------------------------------------
(* Every number has the width it is stored in, and nothing of a rejected   *)
(* load is left (vault_group_t, vault_intent_t).                           *)
FundsTypeOK ==
  /\ phase \in {"scalars", "groups", "loaded", "rejected"}
  /\ DOMAIN scalars \subseteq ScalarTags
  /\ \A tag \in DOMAIN scalars \cap {"pegin_csv_timelock", "payout_timelock",
                                    "htlc_refund_timelock"} :
       scalars[tag] \in 0..(HalfWord - 1)
  /\ \A i \in DOMAIN groups :
       /\ Complete(groups[i])
       /\ groups[i].vault_provider_pk \in ValidKeys
       /\ {groups[i].vault_amount, groups[i].commission_fee,
           groups[i].depositor_claim_value, groups[i].pegin_max_fee} \subseteq 0..(Word - 1)
  /\ phase = "loaded" => Len(groups) = scalars["vault_count"]
  /\ phase = "rejected" => Fresh

(* A Pre-PegIn holds the HTLCs first, one for each vault and in order;     *)
(* behind them at most one empty anchor, and to the depositor nothing, or  *)
(* the dust anchor, or the anchor and then one change (the rules spread    *)
(* over _validate_prepegin_htlc_outputs, _validate_prepegin_outputs and    *)
(* prepegin_depositor_output_accept).                                      *)
PrePegInLayout ==
  accepted.flow = "prepegin" =>
    LET outs == accepted.outputs
        rest == SubSeq(outs, Len(groups) + 1, Len(outs))
        to_depositor == DepositorValues(rest)
    IN  /\ \A i \in DOMAIN groups : groups[i].htlc_vout = i - 1 /\ outs[i].pays = <<"htlc", i>>
        /\ Len(rest) - Len(to_depositor)
             = Cardinality({i \in DOMAIN rest : rest[i].pays = <<"auth_anchor">>})
        /\ Len(rest) - Len(to_depositor) \in {0, 1}
        /\ \/ to_depositor \in {<<>>, <<VAULT_DUST_LIMIT>>}
           \/ /\ accepted.change_allowed
              /\ Len(to_depositor) = 2
              /\ to_depositor[1] = VAULT_DUST_LIMIT
              /\ to_depositor[2] > VAULT_DUST_LIMIT
        /\ \A i \in DOMAIN rest : ~rest[i].internal

(* What the device locks up it can release: every HTLC of an accepted      *)
(* Pre-PegIn holds an amount the PegIn validator will accept, although the *)
(* two compute its bounds apart (_validate_prepegin_htlc_outputs,          *)
(* _pegin_validate_outputs).                                               *)
HtlcsSpendable ==
  accepted.flow = "prepegin" =>
    \A i \in DOMAIN groups :
      PegInAcceptable(groups[i], accepted.outputs[groups[i].htlc_vout + 1].value)

(* Nor is a vault stuck: any vault there can be money for, whoever claims  *)
(* it and whichever way Assert:0 is funded, has a payout the validator     *)
(* accepts that pays the commission in full, and every output above dust   *)
(* (the bounds of vault_tlv.c against those of _validate_payout).          *)
PayoutPossible ==
  phase = "loaded" =>
    \A i \in DOMAIN groups, claimer \in 0..(scalars["keeper_count"] + 1),
       assert0 \in {VAULT_DUST_LIMIT, VAULT_DUST_LIMIT + Rate * MAX_COUNCIL_NOPAYOUT_VSIZE} :
      LET g == groups[i]
          others == IF claimer = 0 THEN <<g.commission_fee, VAULT_DUST_LIMIT>>
                                   ELSE <<VAULT_DUST_LIMIT>>
      IN  g.vault_amount + assert0 <= MaxMoney =>
            PayoutAcceptable(g, claimer, assert0,
                             <<g.vault_amount + assert0 - 1 - Sum(others)>> \o others)

(* What an accepted transaction leaves to the miners, counted without      *)
(* wrapping, is within the bound of its flow, whatever a host says its     *)
(* inputs and outputs hold (the fee checks of the validators).             *)
FeesWithinBounds ==
  CASE accepted.flow = "prepegin" ->
         accepted.inputs_total - Sum(Values(accepted.outputs))
           \in 0..scalars["prepegin_max_fee"]
    [] accepted.flow = "pegin" ->
         LET g == groups[accepted.group]
         IN  accepted.htlc_value
               - (g.vault_amount + g.depositor_claim_value + P2A_ANCHOR_VALUE)
                 \in 0..g.pegin_max_fee
    [] accepted.flow = "payout" ->
         LET va == groups[accepted.group].vault_amount
         IN  va <= MaxMoney =>
               /\ va + accepted.assert0 - Sum(accepted.outputs) \in 1..(Rate * PayoutVsize)
               /\ accepted.assert0 - VAULT_DUST_LIMIT \in 0..(Rate * MAX_COUNCIL_NOPAYOUT_VSIZE)
    [] accepted.flow = "nopayout" ->
         Sum(accepted.inputs) - Sum(accepted.outputs) \in 0..(Rate * MAX_NOPAYOUT_VSIZE)
    [] accepted.flow = "payout_finalize" ->
         Len(groups) = 1 =>
           groups[1].vault_amount - VAULT_DUST_LIMIT - accepted.outputs[1]
             \in 1..(Rate * MAX_PAYOUTFINALIZE_VSIZE)
    [] accepted.flow = "none" -> TRUE
=============================================================================
