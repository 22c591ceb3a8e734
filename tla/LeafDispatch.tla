---------------------------- MODULE LeafDispatch ----------------------------
(***************************************************************************)
(* What becomes of a leaf once it is read (src/src/sign_psbt_validate.c):  *)
(* the flow it is dispatched to by its shape, the keys and timelocks the   *)
(* validators take from it, and the claimer of a Payout, found by          *)
(* rebuilding the leaf in a union member that overlaps the one read into.  *)
(* A validator that reads the leaf a second time finds the same bytes, for *)
(* the map is committed to: one reading stands for both.                   *)
(***************************************************************************)
EXTENDS LeafReader, LeafShapes

CONSTANTS
  NoIntent,     \* the session is not INTENT_LOADED
  Intents,      \* the approved intents
  ActualBufAt   \* from tls.leaf_script to leaf_check.actual_buf

VARIABLES
  loaded,   \* G_vault_intent, while INTENT_LOADED
  honest,   \* what came in is what was committed to, and nothing failed
  verdict   \* what the validator makes of the leaf

vars == <<request, cursor, phase, stream, rd, tls, meta, loaded, honest, verdict>>

NoVerdict == [flow |-> "none"]

(* The compile-time assertions of globals.c: a rebuilt leaf, at its        *)
(* largest, stays off the one that was read, and the prefix that is kept   *)
(* covers the bytes a shape is told by; the leaf that was read starts      *)
(* inside what a leaf may be rebuilt in (globals.h).                       *)
ASSUME LayoutAssumption ==
  /\ ActualBufAt \in Nat /\ ActualBufAt <= MaxScript
  /\ \A intent \in Intents :
       EntryLen * (1 + Len(intent.keeper_pks) + Len(intent.challenger_pks)) + 18
         <= ActualBufAt
  /\ PrefixLen > VAULT_LEAF_GROUP0_OP_OFF

(* What an intent is held to before it is approved: keys in strictly       *)
(* ascending order, nobody in two roles, HTLC outputs in ascending order,  *)
(* timelocks within bounds (vault_validate_and_store_key,                  *)
(* vault_check_depositor_uniqueness, the checks on groups and scalars).    *)
VAULT_TIMELOCK_MAX == 1008
VAULT_HTLC_REFUND_TIMELOCK_MAX == 4320

PublicKeys == [1..KeyLen -> 0..255]
KeyLists == Seq(PublicKeys) \ {<<>>}

VaultGroups ==
  [htlc_vout: Nat, vault_provider_pk: PublicKeys, vault_amount: Nat,
   depositor_claim_value: Nat]

VaultIntents ==
  [depositor_pk: PublicKeys, keeper_pks: KeyLists, challenger_pks: KeyLists,
   groups: Seq(VaultGroups) \ {<<>>},
   prepegin_txid: Nat,
   pegin_csv_timelock: VAULT_TIMELOCK_MIN..VAULT_TIMELOCK_MAX,
   payout_timelock: (VAULT_PAYOUT_TIMELOCK_MIN + 1)..(VAULT_PAYOUT_TIMELOCK_MAX - 1),
   htlc_refund_timelock: VAULT_TIMELOCK_MIN..VAULT_HTLC_REFUND_TIMELOCK_MAX]

Ascending(keys) == \A i, j \in DOMAIN keys : i < j => Precedes(keys[i], keys[j])

Approvable(intent) ==
  /\ intent \in VaultIntents
  /\ Ascending(intent.keeper_pks) /\ Ascending(intent.challenger_pks)
  /\ Range(intent.keeper_pks) \cap Range(intent.challenger_pks) = {}
  /\ intent.depositor_pk \notin Range(intent.keeper_pks) \cup Range(intent.challenger_pks)
  /\ \A g \in DOMAIN intent.groups :
       intent.groups[g].vault_provider_pk
         \notin Range(intent.keeper_pks) \cup Range(intent.challenger_pks)
                  \cup {intent.depositor_pk}
  /\ \A g, h \in DOMAIN intent.groups :
       g < h => intent.groups[g].htlc_vout < intent.groups[h].htlc_vout

ASSUME IntentsAssumption == NoIntent \notin Intents /\ \A intent \in Intents : Approvable(intent)

ASSUME HostAssumption == 1 \in ChunkSizes

(* The prefix to expect comes from the intent in force. *)
ASSUME ExpectedAssumption ==
  {<<>>} \cup {AssertPrefix(intent) : intent \in Intents} \subseteq Expected

Init ==
  /\ ReaderInit
  /\ loaded \in Intents \cup {NoIntent}
  /\ honest = TRUE
  /\ verdict = NoVerdict

(* vault_read_*_leaf_script, on behalf of a validator *)
StartRead ==
  /\ \E keys \in Maps :
       Begin(keys, IF loaded = NoIntent THEN <<>> ELSE AssertPrefix(loaded))
  /\ honest' = TRUE
  /\ verdict' = NoVerdict
  /\ UNCHANGED loaded

ReadsOn ==
  /\ \/ PassKey \/ SecondLeaf \/ OversizedControlBlock
     \/ StreamEnds \/ StreamRefused \/ WalkEnds
  /\ UNCHANGED <<loaded, honest, verdict>>

Opens ==
  /\ AtKey
  /\ \E value \in {Key.value} \cup Lies :
       OpenStream(value) /\ honest' = (honest /\ value = Key.value)
  /\ UNCHANGED <<loaded, verdict>>

HostDelivers ==
  /\ \E k \in ChunkSizes : Deliver(k)
  /\ UNCHANGED <<loaded, honest, verdict>>

HostStalls ==
  /\ DeliverNothing
  /\ UNCHANGED <<loaded, honest, verdict>>

ReadBreaks ==
  /\ StreamFails \/ WalkFails
  /\ honest' = FALSE
  /\ UNCHANGED <<loaded, verdict>>

Read == ReadsOn \/ Opens \/ HostDelivers \/ HostStalls \/ ReadBreaks

-----------------------------------------------------------------------------
(* The leaf as the validators see it. *)

leaf_len == tls.leaf_script_len
Script == SubSeq(tls.leaf_script, 1, leaf_len)

(* The flow the shape stands for, from the length, the first bytes and the *)
(* last one.                                                               *)
ShapeFlow ==
  LET signer_first == /\ leaf_len > VAULT_DEPOSITOR_CLAIM_LEAF_LEN
                      /\ OpensWith(meta.prefix, OP_CHECKSIGVERIFY)
      wc_next == At(meta.prefix, EntryLen) = OP_SIZE
      assert_shaped == HasAssertShape(meta.prefix, leaf_len, meta.last_byte)
  IN  CASE /\ leaf_len = VAULT_DEPOSITOR_CLAIM_LEAF_LEN
           /\ OpensWith(meta.prefix, OP_CHECKSIG) -> "claim"
        [] signer_first /\ wc_next -> "wc"
        [] signer_first /\ ~wc_next /\ assert_shaped /\ meta.assert_prefix_ok -> "assert"
        [] signer_first /\ ~wc_next /\ ~assert_shaped /\ meta.last_byte = OP_CSV -> "refund"
        [] OTHER -> "refused"

(* The refund timelock: the approved one, or none that is too short. *)
RefundTimelockOk(csv) ==
  IF loaded = NoIntent THEN csv >= VAULT_TIMELOCK_MIN
                       ELSE csv = loaded.htlc_refund_timelock

(* The verdicts on a leaf: none when it is refused. *)

LeafVerdicts ==
  CASE ShapeFlow = "assert" ->
         {[flow |-> "assert", key |-> LeadingKey(meta.prefix)]}
    [] ShapeFlow = "claim" /\ meta.buffered ->
         {[flow |-> "claim", key |-> key] : key \in ClaimLeafKeys(Script)}
    [] ShapeFlow = "wc" /\ meta.buffered /\ IsWCLeaf(Script) ->
         {[flow |-> "wc", key |-> LeadingKey(Script)]}
    [] ShapeFlow = "refund" /\ meta.buffered ->
         {[flow |-> "refund", key |-> leaf.key, csv |-> leaf.csv] :
            leaf \in {l \in RefundLeaves(Script) : RefundTimelockOk(l.csv)}}
    [] OTHER -> {}

(* With an intent in force, the leaf carries its payout timelock. *)
PayoutFinalizeVerdicts ==
  IF meta.buffered
  THEN {[flow |-> "payout_finalize", key |-> leaf.key, csv |-> leaf.csv] :
          leaf \in {l \in PayoutLeaves(Script) :
                     loaded # NoIntent => l.csv = loaded.payout_timelock}}
  ELSE {}

(* The first challenger with that key: keepers, then challengers. *)
ChallengersWithKey(pk) ==
  LET pks == loaded.keeper_pks \o loaded.challenger_pks
  IN  {i \in 0..(Len(pks) - 1) : pks[i + 1] = pk}

NoPayoutVerdicts ==
  IF loaded # NoIntent /\ meta.buffered
  THEN {[flow |-> "nopayout", challenger |-> Min(ChallengersWithKey(leaf.challenger))] :
          leaf \in {l \in NoPayoutLeaves(Script) :
                      /\ l.key = loaded.depositor_pk
                      /\ ChallengersWithKey(l.challenger) # {}}}
  ELSE {}

-----------------------------------------------------------------------------
(* _detect_payout_claimer *)

(* Who the leading key belongs to: provider, keepers, depositor.           *)
ClaimersWithKey(g) ==
  {c \in 0..(Len(loaded.keeper_pks) + 1) :
     ClaimerPk(loaded, g, c) = LeadingKey(tls.leaf_script)}

LeadingKeyReadable ==
  /\ meta.buffered
  /\ leaf_len >= EntryLen
  /\ At(tls.leaf_script, 0) = OP_PUSHBYTES_32

Rebuilt(g) == Assert0PayoutLeaf(loaded, g, Min(ClaimersWithKey(g)), MaxScript)

(* Faulty variant: actual_buf has moved onto tls.leaf_script.              *)
OverlaidEntirely(script, leaf) ==
  [i \in DOMAIN script |-> IF i <= Len(leaf) THEN leaf[i] ELSE script[i]]

(* tls.leaf_script once a leaf has been built in leaf_check.actual_buf.    *)
Overlaid(script, leaf) ==
  [i \in DOMAIN script |-> IF i > ActualBufAt /\ i <= ActualBufAt + Len(leaf)
                           THEN leaf[i - ActualBufAt] ELSE script[i]]

SameLeaf(script, leaf) ==
  leaf # Unbuilt /\ Len(leaf) = leaf_len /\ leaf = SubSeq(script, 1, Len(leaf))

-----------------------------------------------------------------------------
(* The validator's judgement, once the read is done. *)

Judging ==
  /\ verdict = NoVerdict
  /\ Done
  /\ UNCHANGED <<meta, loaded, honest>>

Refused(of) == [flow |-> "refused", of |-> of]

PayoutRefused(g) == [flow |-> "refused", of |-> "payout", group |-> g]

Judged(refusal, verdicts) ==
  verdict' \in IF verdicts = {} THEN {refusal} ELSE verdicts

JudgeUnread ==
  /\ ~Accepted
  /\ Judging
  /\ verdict' = Refused("read")
  /\ UNCHANGED tls

(* validate_and_display_transaction: one input, dispatched by its leaf *)
JudgeLeaf ==
  /\ Accepted
  /\ Judging
  /\ Judged(Refused("leaf"), LeafVerdicts)
  /\ UNCHANGED tls

(* _validate_display_payout_finalize *)
JudgePayoutFinalize ==
  /\ Accepted
  /\ Judging
  /\ Judged(Refused("payout_finalize"), PayoutFinalizeVerdicts)
  /\ UNCHANGED tls

(* _validate_nopayout *)
JudgeNoPayout ==
  /\ Accepted
  /\ Judging
  /\ Judged(Refused("nopayout"), NoPayoutVerdicts)
  /\ UNCHANGED tls

(* _validate_payout, of a PegIn of group g, whose leading key is nobody's. *)
JudgeStrangersPayout(g) ==
  /\ Accepted
  /\ ~LeadingKeyReadable \/ ClaimersWithKey(g) = {}
  /\ Judging
  /\ verdict' = PayoutRefused(g)
  /\ UNCHANGED tls

JudgePayout(g) ==
  /\ Accepted
  /\ LeadingKeyReadable
  /\ ClaimersWithKey(g) # {}
  /\ Judging
  /\ tls' = [tls EXCEPT !.leaf_script = Overlaid(@, Rebuilt(g))]
  /\ Judged(PayoutRefused(g),
            IF SameLeaf(tls'.leaf_script, Rebuilt(g))
            THEN {[flow |-> "payout", group |-> g, claimer |-> Min(ClaimersWithKey(g))]}
            ELSE {})

JudgePayouts ==
  /\ loaded # NoIntent
  /\ \E g \in DOMAIN loaded.groups : JudgeStrangersPayout(g) \/ JudgePayout(g)

Judge ==
  \/ JudgeUnread
  \/ JudgeLeaf
  \/ JudgePayoutFinalize
  \/ JudgeNoPayout
  \/ JudgePayouts

Next == StartRead \/ Read \/ Judge

(* The device takes its own steps, and a host that has not failed the      *)
(* exchange keeps sending: nothing in the protocol stops one that sends    *)
(* empty chunks for ever (docs/upstream-stream-preimage-abort.md).         *)
Fairness == WF_vars(ReadsOn) /\ WF_vars(Opens) /\ WF_vars(HostDelivers)

Spec == Init /\ [][Next]_vars /\ Fairness

-----------------------------------------------------------------------------
(* Properties of reading. *)

(* The stream bookkeeping never runs past what was announced, and the      *)
(* buffers keep their size (leaf_stream_ctx_t, tap_leaf_script_state_t).   *)
LeafTypeOK ==
  /\ phase \in {"idle", "walking", "streaming", "done"}
  /\ cursor \in 0..(IF request = NoRead THEN 0 ELSE Len(request.keys))
  /\ rd.value_len <= MaxValue /\ rd.seen <= rd.value_len
  /\ DOMAIN tls.leaf_script = 1..MaxScript
  /\ DOMAIN meta.prefix = 1..PrefixLen
  /\ Len(tls.leaf_hash_ctx.data) <= tls.leaf_hash_ctx.len
  /\ tls.leaf_hash_ctx.len < MaxValue

(* A leaf the device supports, sent as committed to and not broken off, is *)
(* never refused, wherever the chunks are cut and however long it is up to *)
(* VAULT_ASSERT_SCRIPT_MAX_LEN (_leaf_stream_len_cb, _leaf_stream_data_cb).*)
HonestReadSucceeds ==
  phase = "done" /\ honest /\ OneLeaf!Descriptions(request) # {} => Accepted

(* Every read ends, also one whose length was rejected and whose bytes are *)
(* thrown away, as long as the host goes on sending them                   *)
(* (_leaf_stream_len_cb: the exchange runs to the declared length).        *)
ReadEnds == phase = "walking" ~> phase = "done"

-----------------------------------------------------------------------------
(* Properties of the builders, looked at once for every intent. *)

AtFirst == request = NoRead /\ loaded # NoIntent

(* The prefix an Assert leaf is compared with, described byte by byte, is  *)
(* what the multisig encoder writes, for every number of keepers and       *)
(* challengers, 16 and 17 among them (vault_assert_prefix_byte against     *)
(* encode_multisig_group: "must be mirrored here").                        *)
PrefixGenerated ==
  AtFirst =>
    \A n \in DOMAIN loaded.keeper_pks, m \in DOMAIN loaded.challenger_pks :
      LET keepers == SubSeq(loaded.keeper_pks, 1, n)
          challengers == SubSeq(loaded.challenger_pks, 1, m)
          intent == [loaded EXCEPT !.keeper_pks = keepers,
                                   !.challenger_pks = challengers]
      IN  AssertPrefix(intent) = Entry(intent.depositor_pk, OP_CHECKSIGVERIFY)
                                   \o MultisigGroup(keepers, FALSE)
                                   \o MultisigGroup(challengers, FALSE)

(* Whoever claims, those who may challenge the claim are listed in order,  *)
(* as many as there are keepers and never the claimer; a keeper's claim is *)
(* challenged by the provider too (build_app_challengers).                 *)
AppChallengersInOrder ==
  AtFirst =>
    \A g \in DOMAIN loaded.groups, c \in 0..(Len(loaded.keeper_pks) + 1) :
      LET list == AppChallengers(loaded, g, c)
          keepers == Range(loaded.keeper_pks)
          provider == loaded.groups[g].vault_provider_pk
      IN  /\ Len(list) = Len(loaded.keeper_pks)
          /\ \A i \in 1..(Len(list) - 1) : Precedes(list[i], list[i + 1])
          /\ Range(list) \subseteq (keepers \cup {provider}) \ {ClaimerPk(loaded, g, c)}
          /\ c \in DOMAIN loaded.keeper_pks => provider \in Range(list)

(* A PegIn or Payout names its vault by a transaction id: no two vaults of *)
(* an intent have the same one, also when they agree in amount and         *)
(* provider, and so the first match is the only one                        *)
(* (vault_compute_pegin_txid, and the loop over groups in _validate_payout)*)
PegInsDistinct ==
  AtFirst =>
    \A g, h \in DOMAIN loaded.groups :
      PegInTxid(loaded, g, MaxScript) = PegInTxid(loaded, h, MaxScript) => g = h

(* The timelock a validator reads out of a leaf is the one that was built  *)
(* into it, for every timelock an intent may carry                         *)
(* (parse_refund_leaf_script and parse_payout_leaf_script, _push_number).  *)
TimelocksReadBack ==
  AtFirst =>
    /\ \A t \in VAULT_TIMELOCK_MIN..VAULT_HTLC_REFUND_TIMELOCK_MAX :
         RefundLeaves(HtlcLeaf1([loaded EXCEPT !.htlc_refund_timelock = t], MaxScript))
           = {[key |-> loaded.depositor_pk, csv |-> t]}
    /\ LET c == Len(loaded.keeper_pks) + 1
           leaf == Assert0PayoutLeaf(loaded, 1, c, MaxScript)
           head == SubSeq(leaf, 1, Len(leaf) - Len(PushNumber(loaded.payout_timelock)) - 1)
       IN  \A t \in (VAULT_PAYOUT_TIMELOCK_MIN + 1)..(VAULT_PAYOUT_TIMELOCK_MAX - 1) :
             PayoutLeaves(head \o PushNumber(t) \o <<OP_CSV>>)
               = {[key |-> loaded.depositor_pk, csv |-> t]}

-----------------------------------------------------------------------------
(* Properties of the judgement. *)

Committed ==
  OneLeaf!ScriptOf(
    request.keys[CHOOSE i \in OneLeaf!LeafKeys(request.keys) : TRUE].value)

Judgement == verdict # NoVerdict

(* A Payout's claimer is found exactly when the leaf is, byte for byte,    *)
(* the one the intent prescribes for that claimer, although the leaf it is *)
(* compared with is rebuilt in memory that overlaps it                     *)
(* (_detect_payout_claimer).                                               *)
ClaimerExact ==
  /\ verdict.flow = "payout" =>
       Committed = Assert0PayoutLeaf(loaded, verdict.group, verdict.claimer, MaxScript)
  /\ verdict.flow = "refused" /\ honest /\ verdict.of = "payout" =>
       \A c \in 0..(Len(loaded.keeper_pks) + 1) :
         Committed # Assert0PayoutLeaf(loaded, verdict.group, c, MaxScript)

(* The flows an intent's leaves are built for. *)
LeavesFor(intent, flow) ==
  CASE flow = "claim" -> {DepositorClaimLeaf(intent, MaxScript)}
    [] flow = "refund" -> {HtlcLeaf1(intent, MaxScript)}
    [] flow = "nopayout" ->
         {NoPayoutLeaf(intent, i, MaxScript) :
            i \in 0..(Len(intent.keeper_pks) + Len(intent.challenger_pks) - 1)}
    [] flow \in {"payout", "payout_finalize"} ->
         {Assert0PayoutLeaf(intent, g, c, MaxScript) :
            g \in DOMAIN intent.groups, c \in 0..(Len(intent.keeper_pks) + 1)}
    [] flow = "vault_utxo" ->
         {VaultUtxoLeaf(intent, g, MaxScript) : g \in DOMAIN intent.groups}
    [] flow \in {"wc", "assert"} -> {}

Flows == {"claim", "refund", "nopayout", "payout", "payout_finalize",
          "vault_utxo", "wc", "assert"}

(* The patterns are mutually exclusive: a leaf the device builds for one   *)
(* purpose is accepted for that purpose and for no other one, in any       *)
(* session; the Vault UTXO leaf, which differs from a payout leaf in one   *)
(* opcode, for none (validate_and_display_transaction: "patterns MUST      *)
(* remain mutually exclusive", parse_payout_leaf_script).                  *)
LeafInItsOwnFlow ==
  Judgement /\ verdict.flow # "refused" =>
    \A intent \in Intents, flow \in Flows :
      Committed \in LeavesFor(intent, flow) =>
        Committed \in LeavesFor(intent, verdict.flow)

(* The timelock a refund is shown with is the one the script enforces:     *)
(* what its last push leaves on the stack, as consensus reads it, whatever *)
(* the encoding the host chose (parse_refund_leaf_script).                 *)
ShownTimelockEnforced ==
  verdict.flow = "refund" =>
    LET push == SubSeq(Committed, EntryLen + 1, Len(Committed) - 1)
    IN  \E n \in 1..4 :
          LET data == SubSeq(push, Len(push) - n + 1, Len(push))
          IN  /\ push \in {<<n>> \o data, <<OP_PUSHDATA1, n>> \o data}
              /\ data[n] < 128
              /\ Number(data) % (BIP68_SEQUENCE_MASK + 1) = verdict.csv

(* An Assert is accepted only for a leaf that begins with the whole signer *)
(* prefix of the intent in force and goes on behind it, whatever the host  *)
(* puts into the body, however it cuts the stream and however long the     *)
(* leaf is (assert_prefix_ok).                                             *)
AssertBoundToIntent ==
  verdict.flow = "assert" =>
    /\ loaded # NoIntent
    /\ OneLeaf!BeginsWith(Committed,
         Entry(loaded.depositor_pk, OP_CHECKSIGVERIFY)
           \o MultisigGroup(loaded.keeper_pks, FALSE)
           \o MultisigGroup(loaded.challenger_pks, FALSE))
=============================================================================
