------------------------------- MODULE MCFunds ------------------------------
(* Model checking of VaultFunds: the values a host sends lie at, and just  *)
(* beyond, every bound; a 64-bit number has 20 bits.                       *)
EXTENDS VaultFunds

MCTags == ScalarTags \cup Range(GroupTags) \cup {"unknown"}

Level(hardened, n) == [hardened |-> hardened, n |-> n]
PathOf(coin, account, change, hardened) ==
  <<Level(TRUE, 86), Level(TRUE, coin), Level(TRUE, account),
    Level(FALSE, change), Level(hardened, 10000)>>

(* Under each tag: two that are accepted where the rest depends on it.     *)
MCHostValues(tag) ==
  CASE tag \in {"structure_type", "version"} -> {1, 2}
    [] tag = "coin_type" -> {0, 1}
    [] tag = "base_fee_rate" -> {0, 1, MaxRate, MaxRate + 1, Word - 1}
    [] tag = "pegin_csv_timelock" -> {71, 1008, 1009, HalfWord + 72}
    [] tag = "payout_timelock" -> {90, 4031, 4032, HalfWord + 91}
    [] tag = "htlc_refund_timelock" -> {71, 4320, 4321, HalfWord + 72}
    [] tag = "prepegin_txid" -> {7}
    [] tag = "depositor_path" ->
         {PathOf(0, 100, 1, FALSE), PathOf(1, 0, 0, FALSE),
          PathOf(0, 101, 0, FALSE), PathOf(0, 0, 2, FALSE), PathOf(0, 0, 0, TRUE)}
    [] tag \in {"keeper_count", "challenger_count"} -> {0, 1, MaxKeepers + 1}
    [] tag = "vault_count" -> {0, 1, 2, 3}
    [] tag = "prepegin_max_fee" -> {0, 500, MaxPrepeginFee + 1}
    [] tag = "htlc_vout" -> {0, 1, 2}
    [] tag = "vault_provider_pk" -> {5, 6}
    [] tag = "vault_amount" -> {1638, 1639, Word - 1}
    [] tag = "commission_fee" -> {545, 546, Word - 1092}
    [] tag = "depositor_claim_value" -> {545, 546, Word - 600}
    [] tag = "pegin_max_fee" -> {300, Word - 1}
    [] tag = "unknown" -> {0}

Out(pays, value) == [pays |-> pays, value |-> value, internal |-> FALSE]
ToDepositor(value) == Out(<<"depositor">>, value)
Anchor == Out(<<"auth_anchor">>, 0)
Tails ==
  {<<>>, <<Anchor>>, <<Anchor, Anchor>>, <<Out(<<"auth_anchor">>, 1)>>,
   <<ToDepositor(545)>>, <<ToDepositor(546)>>, <<ToDepositor(547)>>,
   <<ToDepositor(546), ToDepositor(546)>>, <<ToDepositor(546), ToDepositor(547)>>,
   <<ToDepositor(547), ToDepositor(546)>>, <<Anchor, ToDepositor(546), ToDepositor(900)>>,
   <<ToDepositor(546), ToDepositor(547), ToDepositor(548)>>,
   <<Out(<<"stranger">>, 546)>>, <<[ToDepositor(546) EXCEPT !.internal = TRUE]>>}

TrueMinimum(g) == g.vault_amount + g.depositor_claim_value + P2A_ANCHOR_VALUE

(* HTLCs at their places, the first one holding delta more than it needs.  *)
Htlcs(gs, delta) ==
  [n \in 1..(gs[Len(gs)].htlc_vout + 1) |->
     LET at == {i \in DOMAIN gs : gs[i].htlc_vout = n - 1}
     IN  IF at = {} THEN ToDepositor(546)
         ELSE LET i == CHOOSE j \in at : TRUE
              IN  Out(<<"htlc", i>>, Wrap(TrueMinimum(gs[i]) + IF i = 1 THEN delta ELSE 0))]

PrePegInWith(outputs, change_allowed, fee) ==
  [outputs |-> outputs, change_allowed |-> change_allowed,
   inputs_total |-> Sum(Values(outputs)) + fee]

MCPrePegIns(s, gs) ==
  {PrePegInWith(Htlcs(gs, 0) \o tail, allowed, 0) : tail \in Tails, allowed \in BOOLEAN}
    \cup {PrePegInWith(Htlcs(gs, delta), TRUE, 500) :
            delta \in {-1, gs[1].pegin_max_fee, gs[1].pegin_max_fee + 1}}
    \cup {PrePegInWith(Htlcs(gs, 1), TRUE, fee) : fee \in {-1, 501}}
    \cup {PrePegInWith(<<Anchor>> \o Htlcs(gs, 1), TRUE, 0),
          PrePegInWith(Tail(Htlcs(gs, 1)), TRUE, 0)}

MCHtlcValues(g) ==
  {Wrap(TrueMinimum(g) + delta) :
     delta \in {-241, -1, 0, g.pegin_max_fee, g.pegin_max_fee + 1}}

MaxAssert0(s) == 546 + s["base_fee_rate"] * MAX_COUNCIL_NOPAYOUT_VSIZE
PayoutFees(s) ==
  {0, 1, s["base_fee_rate"] * 610, s["base_fee_rate"] * 610 + 1,
   s["base_fee_rate"] * 500, s["base_fee_rate"] * 500 + 1}

PayoutWith(claimer, va, assert0, fee, others) ==
  [claimer |-> claimer, input0 |-> va, assert0 |-> assert0,
   outputs |-> <<Wrap(va + assert0 - fee - Sum(others))>> \o others]

MCPayouts(s, g) ==
  {PayoutWith(claimer, g.vault_amount, assert0, fee, <<546>>) :
     claimer \in {1, 2}, fee \in PayoutFees(s),
     assert0 \in {546, MaxAssert0(s), MaxAssert0(s) + 1}}
    \cup {PayoutWith(0, g.vault_amount, MaxAssert0(s), 1, <<commission, 546>>) :
            commission \in {0, 545, 546, g.commission_fee, g.commission_fee + 1}}
    \cup {PayoutWith(2, g.vault_amount, assert0, assert0 + fee, <<546>>) :
            fee \in PayoutFees(s), assert0 \in {545, MaxAssert0(s)}}
    \cup {PayoutWith(1, g.vault_amount, 546, 1, <<545>>),
          PayoutWith(1, g.vault_amount, 546, 1, <<546, 546>>),
          PayoutWith(1, g.vault_amount + 1, 546, 1, <<546>>)}

MCNoPayouts(s) ==
  {[inputs |-> <<assert0, 509, 688>>, outputs |-> <<assert0 + 1197 - fee>>] :
     assert0 \in {545, 546, MaxAssert0(s), MaxAssert0(s) + 1},
     fee \in {-1, 0, s["base_fee_rate"] * 450, s["base_fee_rate"] * 450 + 1}}
=============================================================================
