------------------------------ MODULE SignPsbt ------------------------------
(***************************************************************************)
(* INS 0x04 SIGN_PSBT as the app's three hooks into the base app see it:   *)
(* validate_and_display_transaction (src/src/sign_psbt_validate.c), the    *)
(* base app's sign_internal_inputs (external), and sign_custom_inputs      *)
(* (src/src/sign_custom_inputs.c).  The signer derives its branch from the *)
(* transaction and the session again; nothing but the session carries the  *)
(* validator's verdict over.                                               *)
(*                                                                         *)
(* A PSBT is a record of what the routing and the bookkeeping read:        *)
(*   v0      tx_version = 0                                                *)
(*   nwp     has_no_wallet_policy                                          *)
(*   int0    Input 0 belongs to the wallet policy                          *)
(*   nin, nout   number of inputs and of outputs                           *)
(*   vout    Input 0's PSBT_IN_OUTPUT_INDEX                                *)
(*   spends  the vault group whose PegIn txid (as recomputed from the      *)
(*           intent in memory) is Input 0's PREVIOUS_TXID; no group's if   *)
(*           it is vault_count or more; NoTxid if the field cannot be read *)
(*   leaf    the shape of the leaf script the flow reads                   *)
(*   key     the counterparty key in that leaf                             *)
(*   signers the depositor and multisig keys an Assert leaf begins with    *)
(*   fault   what else is wrong with it: nothing, something the validator  *)
(*           finds before it records which group the PSBT is for, or       *)
(*           something it finds afterwards (amounts, fees, outputs)        *)
(***************************************************************************)
EXTENDS VaultContext, FiniteSets

CONSTANT NoTxid

Leaves == {"payout", "nopayout", "claim", "wc", "assert", "refund", "other"}

Faults == {"none", "early", "late"}

Flows == {"PoP", "PegIn", "NoPayout", "Payout", "PrePegIn", "WC",
          "PayoutFinalize", "Claim", "Reclaim", "Assert", "Refund"}

Loaded == ctx.state = "INTENT_LOADED"

V == intent.scalars.vault_count
N == intent.scalars.keeper_count
M == intent.scalars.challenger_count

KeeperPk(i) == intent.keys[i + 1].key
ChallengerPk(i) == intent.keys[N + i + 1].key
GroupAt(g) == intent.groups[g + 1]

Shape(tx, nin, nout) == tx.nin = nin /\ tx.nout = nout

-----------------------------------------------------------------------------
(* What the intent in memory says a PSBT is about.  Indices count from 0.  *)

(* _validate_pegin: the group whose htlc_vout Input 0 spends. *)
PegInGroups(tx) == {g \in 0..(V - 1) : GroupAt(g).htlc_vout = tx.vout}

PayoutGroups(tx) == {g \in 0..(V - 1) : g = tx.spends}

(* _detect_payout_claimer: 0 the vault provider of group g, 1..N the       *)
(* keepers, N+1 the depositor; the leaf as a whole is that claimer's.      *)
Claimers(tx, g) ==
  IF tx.leaf # "payout" THEN {}
  ELSE {c \in 0..(N + 1) :
          tx.key = CASE c = 0     -> GroupAt(g).vault_provider_pk
                     [] c = N + 1 -> intent.depositor_pk
                     [] OTHER     -> KeeperPk(c - 1)}

(* _validate_nopayout: keepers first, then the challengers. *)
ChallengerAt(i) == IF i < N THEN KeeperPk(i) ELSE ChallengerPk(i - N)

Challengers(tx) ==
  IF tx.leaf # "nopayout" THEN {}
  ELSE {i \in 0..(N + M - 1) : ChallengerAt(i) = tx.key}

(* Faulty variant: one claimer too few per group.                          *)
PayoutSlotOverlapping(g, c) == g * (N + 1) + c

PayoutSlot(g, c) == g * (N + 2) + c

(* Faulty variant: the leaf's shape is enough.                             *)
AssertPrefixUnchecked(tx) == Loaded

(* assert_prefix_ok: the leaf begins with the signers of the loaded intent *)
AssertPrefixOk(tx) ==
  /\ Loaded
  /\ tx.signers = [depositor_pk |-> intent.depositor_pk, keys |-> intent.keys]

-----------------------------------------------------------------------------
(* validate_and_display_transaction: which validator gets the PSBT.        *)

(* No wallet policy and none of the fixed shapes: by Input 0's leaf.  A    *)
(* payout leaf ends in OP_CSV as a refund leaf does.                       *)
LeafRoute(tx) ==
  CASE tx.leaf = "claim" /\ tx.nout = 2          -> "Claim"
    [] tx.leaf = "claim" /\ tx.nout = 1          -> "Reclaim"
    [] tx.leaf = "wc"                            -> "WC"
    [] tx.leaf = "assert" /\ AssertPrefixOk(tx)  -> "Assert"
    [] tx.leaf \in {"refund", "payout"}          -> "Refund"
    [] OTHER                                     -> "rejected"

(* Two inputs and no wallet policy, with an intent loaded: a Payout unless *)
(* there are two outputs; then Input 0's previous txid decides.            *)
TwoInputRoute(tx) ==
  CASE tx.nout # 2 \/ PayoutGroups(tx) # {}  -> "Payout"
    [] tx.nout = 2 /\ tx.spends = NoTxid     -> "rejected"
    [] OTHER                                 -> "PayoutFinalize"

PolicyFreeRoute(tx) ==
  CASE Shape(tx, 1, 3)             -> "PegIn"
    [] Shape(tx, 3, 1)             -> "NoPayout"
    [] tx.nin = 2 /\ Loaded        -> TwoInputRoute(tx)
    [] Shape(tx, 2, 2) /\ ~Loaded  -> "PayoutFinalize"
    [] OTHER                       -> LeafRoute(tx)

Route(tx) ==
  CASE tx.v0                          -> "PoP"
    [] ~tx.v0 /\ tx.nwp               -> PolicyFreeRoute(tx)
    [] ~tx.v0 /\ ~tx.nwp /\ tx.int0   -> "PrePegIn"
    [] ~tx.v0 /\ ~tx.nwp /\ ~tx.int0  -> "WC"

-----------------------------------------------------------------------------
(* How a validator ends.  Whatever it did, it used the scratch union: what *)
(* a derivation had left there counts as gone.                             *)

EndSigning(sw) ==
  /\ psbt' = NoPsbt
  /\ Respond("sign", sw)
  /\ UNCHANGED <<stream, sent, approved>>

RejectPsbt(sw) ==
  /\ EndSigning(sw)
  /\ scratch' = ZeroScratch
  /\ UNCHANGED <<session, released>>

(* Rejected after the session has recorded what the PSBT is for. *)
RejectPsbtRecorded(codes, c, s) ==
  /\ \E sw \in codes : EndSigning(sw)
  /\ ctx' = c
  /\ sigs' = s
  /\ scratch' = ZeroScratch
  /\ UNCHANGED <<intent, approve, released>>

CapExceeded ==
  /\ EndSigning("CAP_EXCEEDED")
  /\ Invalidate
  /\ UNCHANGED released

Accept(tx, flow, c, s) ==
  /\ psbt' = [phase |-> "validated", tx |-> tx, flow |-> flow]
  /\ ctx' = c
  /\ sigs' = s
  /\ scratch' = ZeroScratch
  /\ UNCHANGED <<intent, approve, stream, resp, history>>

(* SIGN_PSBT while a derivation is streaming into the scratch union. *)
AbortStream ==
  /\ Dispatching
  /\ stream.streaming_in_progress
  /\ stream' = ZeroStream
  /\ Respond("sign", "BAD_STATE")
  /\ UNCHANGED <<session, scratch, psbt, history>>

(* Faulty variant: a stream in progress does not matter.                   *)
ValidatingAnyway(tx, flow) == Dispatching /\ Route(tx) = flow

Validating(tx, flow) ==
  /\ Dispatching
  /\ ~stream.streaming_in_progress
  /\ Route(tx) = flow

-----------------------------------------------------------------------------
(* Intent-bound flows: silent, capped, BAD_STATE without an intent.        *)

NeedsIntent(tx) ==
  /\ \E flow \in {"PrePegIn", "PegIn", "NoPayout"} : Validating(tx, flow)
  /\ ~Loaded
  /\ RejectPsbt("BAD_STATE")

(* Faulty variant: the slot is not taken.                                  *)
PrePegInUnreserved == sigs

HashlocksDerived == \A g \in 1..V : g \in DOMAIN ctx.htlc_hashlock

PrePegInReserved == [sigs EXCEPT !.pre_pegin_signed = @ + 1]

(* _validate_prepegin: the one slot is taken before the base app signs.    *)
ValidatePrePegIn(tx) ==
  /\ Validating(tx, "PrePegIn")
  /\ Loaded
  /\ IF ~HashlocksDerived THEN RejectPsbt("BAD_STATE")
     ELSE IF tx.fault # "none" THEN RejectPsbt("INCORRECT_DATA")
     ELSE IF sigs.pre_pegin_signed >= 1 THEN CapExceeded
     ELSE Accept(tx, "PrePegIn", ctx, PrePegInReserved)

(* _validate_pegin *)
PegInUnmatched(tx) ==
  /\ Validating(tx, "PegIn")
  /\ Loaded
  /\ tx.fault = "early" \/ PegInGroups(tx) = {}
  /\ RejectPsbt("INCORRECT_DATA")

(* Faulty variant: only the flat cap.                                      *)
PegInCapReached(g) == sigs.pegin_signed >= V

PegInSpent(g) == g \in sigs.pegin_group_mask \/ sigs.pegin_signed >= V

ValidatePegIn(tx) ==
  /\ Validating(tx, "PegIn")
  /\ Loaded
  /\ tx.fault # "early"
  /\ \E g \in PegInGroups(tx) :
       LET detected == [ctx EXCEPT !.vault_group_index = g]
       IN  IF tx.fault = "late" THEN RejectPsbtRecorded({"INCORRECT_DATA"}, detected, sigs)
           ELSE IF PegInSpent(g) THEN CapExceeded
           ELSE Accept(tx, "PegIn", detected, sigs)

(* _validate_payout *)
PayoutUnmatched(tx) ==
  /\ Validating(tx, "Payout")
  /\ \/ tx.fault = "early"
     \/ \A g \in PayoutGroups(tx) : Claimers(tx, g) = {}
  /\ RejectPsbt("INCORRECT_DATA")

PayoutOutputs(c) == IF c = 0 THEN 3 ELSE 2

(* The script of the depositor's anchor has a status word of its own. *)
PayoutRefusals(tx, c) ==
  {"INCORRECT_DATA"}
  \cup {sw \in {"BAD_CPFP_ANCHOR"} : c = N + 1 /\ tx.nout = PayoutOutputs(c)}

ValidatePayout(tx) ==
  /\ Validating(tx, "Payout")
  /\ tx.fault # "early"
  /\ \E g \in PayoutGroups(tx) : \E c \in Claimers(tx, g) :
       LET detected == [ctx EXCEPT !.vault_group_index = g]
           slotted  == [sigs EXCEPT !.payout_index = c]
       IN  IF PayoutSlot(g, c) \in sigs.payout_claimer_mask THEN CapExceeded
           ELSE IF tx.nout # PayoutOutputs(c) \/ tx.fault = "late"
           THEN RejectPsbtRecorded(PayoutRefusals(tx, c), detected, slotted)
           ELSE IF sigs.payout_signed >= V * (N + 2) THEN CapExceeded
           ELSE Accept(tx, "Payout", detected,
                       [slotted EXCEPT !.is_payout_signing = TRUE])

(* Faulty variant: the index is not recorded.                              *)
ChallengerForgotten(i) == sigs

ChallengerRecorded(i) == [sigs EXCEPT !.nopayout_challenger_index = i]

(* _validate_nopayout: no slot tells one vault's NoPayout from another's;  *)
(* the flat cap is all there is, and it is checked first.                  *)
ValidateNoPayout(tx) ==
  /\ Validating(tx, "NoPayout")
  /\ Loaded
  /\ IF tx.fault = "early" \/ Challengers(tx) = {}
     THEN RejectPsbt("INCORRECT_DATA")
     ELSE IF sigs.nopayout_signed >= V * (N + M) THEN CapExceeded
     ELSE IF tx.fault = "late" THEN RejectPsbt("INCORRECT_DATA")
     ELSE \E i \in Challengers(tx) :
            Accept(tx, "NoPayout", ctx, ChallengerRecorded(i))

-----------------------------------------------------------------------------
(* Standalone flows: the user reviews each one; none needs or changes the  *)
(* session, except that PayoutFinalize clears the payout flag on entry.    *)

(* One operator per validator; sighash, sequence, amounts, keys, script    *)
(* and commitment checks, whose failure changes nothing, are the fault.    *)
PoPValid(tx)            == Shape(tx, 1, 1) /\ tx.fault = "none"
ClaimValid(tx)          == Shape(tx, 1, 2) /\ tx.fault = "none"
ReclaimValid(tx)        == Shape(tx, 1, 1) /\ tx.fault = "none"
AssertValid(tx)         == tx.nin = 1 /\ tx.fault = "none"
RefundValid(tx)         == /\ Shape(tx, 1, 1)
                           /\ tx.leaf = "refund" /\ tx.fault = "none"
WCValid(tx)             == /\ tx.nin >= 1 /\ tx.nout = 1
                           /\ tx.leaf = "wc" /\ tx.fault = "none"
PayoutFinalizeValid(tx) == /\ Shape(tx, 2, 2)
                           /\ tx.leaf = "payout" /\ tx.fault = "none"

StandaloneValid(tx, flow) ==
  CASE flow = "PoP"            -> PoPValid(tx)
    [] flow = "Claim"          -> ClaimValid(tx)
    [] flow = "Reclaim"        -> ReclaimValid(tx)
    [] flow = "Assert"         -> AssertValid(tx)
    [] flow = "Refund"         -> RefundValid(tx)
    [] flow = "WC"             -> WCValid(tx)
    [] flow = "PayoutFinalize" -> PayoutFinalizeValid(tx)

(* Faulty variant: the payout flag stays.                                  *)
StandaloneFlagKept(flow) == sigs

StandaloneSigs(flow) ==
  IF flow = "PayoutFinalize" THEN [sigs EXCEPT !.is_payout_signing = FALSE]
                             ELSE sigs

ValidateStandalone(tx, flow) ==
  /\ Validating(tx, flow)
  /\ IF StandaloneValid(tx, flow)
     THEN Accept(tx, flow, ctx, StandaloneSigs(flow))
     ELSE RejectPsbtRecorded({"INCORRECT_DATA"}, ctx, StandaloneSigs(flow))

(* The user declines the review. *)
DenyStandalone(tx, flow) ==
  /\ Validating(tx, flow)
  /\ StandaloneValid(tx, flow)
  /\ EndSigning("DENY")
  /\ scratch' = ZeroScratch
  /\ sigs' = StandaloneSigs(flow)
  /\ UNCHANGED <<ctx, intent, approve, released>>

(* No pattern matches, or Input 0's PREVIOUS_TXID cannot be read. *)
MatchesNoFlow(tx) ==
  /\ Validating(tx, "rejected")
  /\ RejectPsbt("INCORRECT_DATA")

-----------------------------------------------------------------------------
(* sign_internal_inputs, the base app's signer: it signs the wallet's own  *)
(* inputs, yields as it goes, and may fail or be abandoned at any point.   *)

PrePegInReleased ==
  IF psbt.flow = "PrePegIn" THEN [released EXCEPT ![PrePegInSlot] = @ + 1]
                            ELSE released

BaseSigns ==
  /\ psbt.phase = "validated"
  /\ psbt' = [psbt EXCEPT !.phase = "internal"]
  /\ released' = PrePegInReleased
  /\ UNCHANGED <<session, stream, scratch, resp, sent, approved>>

BaseSigningFails ==
  /\ psbt.phase = "validated"
  /\ EndSigning("INCORRECT_DATA")
  /\ released' \in {released, PrePegInReleased}
  /\ UNCHANGED <<session, scratch>>

-----------------------------------------------------------------------------
(* sign_custom_inputs: which branch signs.                                 *)

PayoutFamily(tx) ==
  \/ tx.nin = 3
  \/ tx.nin = 2 /\ (tx.nout # 2 \/ sigs.is_payout_signing)

PayoutBranch(tx) ==
  CASE Shape(tx, 3, 1)            -> "NoPayout"
    [] tx.nin = 3 /\ tx.nout # 1  -> "rejected"
    [] tx.nin = 2                 -> "Payout"

PolicyFreeBranch(tx) ==
  CASE Loaded /\ Shape(tx, 1, 3)  -> "PegIn"
    [] Loaded /\ PayoutFamily(tx) -> PayoutBranch(tx)
    [] Shape(tx, 2, 2) /\ ~(Loaded /\ PayoutFamily(tx)) -> "PayoutFinalize"
    [] OTHER                      -> "Standalone"

SignerBranch(tx) ==
  CASE tx.v0                          -> "Nothing"
    [] ~tx.v0 /\ tx.nwp               -> PolicyFreeBranch(tx)
    [] ~tx.v0 /\ ~tx.nwp /\ tx.int0   -> "Nothing"
    [] ~tx.v0 /\ ~tx.nwp /\ ~tx.int0  -> "Standalone"

Signing(branch) == psbt.phase = "internal" /\ SignerBranch(psbt.tx) = branch

(* The witness UTXO names a script the signer rebuilds from the intent for *)
(* the group the session has recorded.                                     *)
(* An index out of range is a failed assertion: see PowerCycle.            *)
SignsForPegIn ==
  /\ ctx.vault_group_index < V
  /\ psbt.tx.vout = GroupAt(ctx.vault_group_index).htlc_vout

(* The script of a Vault UTXO tells groups apart by their provider alone. *)
SignsForPayout ==
  \E g \in PayoutGroups(psbt.tx) :
    /\ ctx.vault_group_index < V
    /\ GroupAt(g).vault_provider_pk
         = GroupAt(ctx.vault_group_index).vault_provider_pk

SigningFails ==
  /\ EndSigning("INCORRECT_DATA")
  /\ scratch' = ZeroScratch

(* A failure of an intent-bound branch, before or after the signature went *)
(* out, costs the session.                                                 *)
InvalidateSigning(r) ==
  /\ EndSigning("INCORRECT_DATA")
  /\ Invalidate
  /\ released' = r

SignNothing ==
  /\ Signing("Nothing")
  /\ EndSigning("OK")
  /\ UNCHANGED <<session, scratch, released>>

(* Faulty variant: the byte is assigned, not or-ed.                        *)
MaskAssigned(mask, slot) == {slot}

MaskWith(mask, slot) == mask \cup {slot}

PegInReleased == [released EXCEPT ![PegInSlot(ctx.vault_group_index)] = @ + 1]

(* The mask bit and the counter are set before the signature is yielded. *)
SignPegIn ==
  /\ Signing("PegIn")
  /\ SignsForPegIn
  /\ sigs' = [sigs EXCEPT !.pegin_group_mask =
                            MaskWith(@, ctx.vault_group_index),
                          !.pegin_signed = @ + 1]
  /\ released' = PegInReleased
  /\ EndSigning("OK")
  /\ scratch' = ZeroScratch
  /\ UNCHANGED <<ctx, intent, approve>>

PegInSigningFails ==
  /\ Signing("PegIn")
  /\ InvalidateSigning(released)

PegInYieldFails ==
  /\ Signing("PegIn")
  /\ SignsForPegIn
  /\ InvalidateSigning(PegInReleased)

(* What a Payout signature is worth: the group Input 0 spends and the      *)
(* claimer whose leaf Input 1 reveals, whatever the session recorded.      *)
PayoutReleased ==
  LET g == psbt.tx.spends
  IN  [slot \in SignatureSlots |->
         IF \E c \in Claimers(psbt.tx, g) : slot = PayoutClaimSlot(g, c)
         THEN released[slot] + 1
         ELSE released[slot]]

SignPayout ==
  /\ Signing("Payout")
  /\ SignsForPayout
  /\ sigs' = [sigs EXCEPT
                !.payout_claimer_mask =
                  MaskWith(@, PayoutSlot(ctx.vault_group_index,
                                         sigs.payout_index)),
                !.payout_signed = @ + 1]
  /\ released' = PayoutReleased
  /\ EndSigning("OK")
  /\ scratch' = ZeroScratch
  /\ UNCHANGED <<ctx, intent, approve>>

(* Also three inputs that are no NoPayout, which no validator accepts.     *)
PayoutSigningFails ==
  /\ \E branch \in {"Payout", "rejected"} : Signing(branch)
  /\ InvalidateSigning(released)

PayoutYieldFails ==
  /\ Signing("Payout")
  /\ SignsForPayout
  /\ InvalidateSigning(PayoutReleased)

(* The leaf must be the Assert:0 leaf of the challenger recorded. *)
SignsForNoPayout ==
  /\ psbt.tx.leaf = "nopayout"
  /\ sigs.nopayout_challenger_index < N + M
  /\ psbt.tx.key = ChallengerAt(sigs.nopayout_challenger_index)

NoPayoutReleased == [released EXCEPT ![NoPayoutSlot] = @ + 1]

SignNoPayout ==
  /\ Signing("NoPayout")
  /\ SignsForNoPayout
  /\ sigs' = [sigs EXCEPT !.nopayout_signed = @ + 1]
  /\ released' = NoPayoutReleased
  /\ EndSigning("OK")
  /\ scratch' = ZeroScratch
  /\ UNCHANGED <<ctx, intent, approve>>

NoPayoutSigningFails ==
  /\ Signing("NoPayout")
  /\ InvalidateSigning(released)

NoPayoutYieldFails ==
  /\ Signing("NoPayout")
  /\ SignsForNoPayout
  /\ InvalidateSigning(NoPayoutReleased)

(* Standalone branches read the leaf again and sign with the key in it; an *)
(* Assert leaf must still begin with the signers of the intent.            *)
SignStandalone ==
  /\ \E branch \in {"Standalone", "PayoutFinalize"} : Signing(branch)
  /\ psbt.tx.leaf = "assert" => AssertPrefixOk(psbt.tx)
  /\ EndSigning("OK")
  /\ scratch' = ZeroScratch
  /\ UNCHANGED <<session, released>>

StandaloneSigningFails ==
  /\ \E branch \in {"Standalone", "PayoutFinalize"} : Signing(branch)
  /\ SigningFails
  /\ UNCHANGED <<session, released>>

-----------------------------------------------------------------------------
(* A PSBT the base app refuses before the app's hook is called. *)
PsbtUnreadable == Dispatching /\ Refuse("sign", "INCORRECT_DATA")

StandaloneFlows ==
  {"PoP", "WC", "PayoutFinalize", "Claim", "Reclaim", "Assert", "Refund"}

ValidateNext(tx) ==
  \/ NeedsIntent(tx)
  \/ ValidatePrePegIn(tx)
  \/ PegInUnmatched(tx)
  \/ ValidatePegIn(tx)
  \/ PayoutUnmatched(tx)
  \/ ValidatePayout(tx)
  \/ ValidateNoPayout(tx)
  \/ \E flow \in StandaloneFlows :
       \/ ValidateStandalone(tx, flow)
       \/ DenyStandalone(tx, flow)
  \/ MatchesNoFlow(tx)

SignNext ==
  \/ PsbtUnreadable
  \/ AbortStream
  \/ \E tx \in Psbts : ValidateNext(tx)
  \/ BaseSigns
  \/ BaseSigningFails
  \/ SignNothing
  \/ SignPegIn
  \/ PegInSigningFails
  \/ PegInYieldFails
  \/ SignPayout
  \/ PayoutSigningFails
  \/ PayoutYieldFails
  \/ SignNoPayout
  \/ NoPayoutSigningFails
  \/ NoPayoutYieldFails
  \/ SignStandalone
  \/ StandaloneSigningFails
=============================================================================
