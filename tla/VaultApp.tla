------------------------------ MODULE VaultApp ------------------------------
(***************************************************************************)
(* The whole app: one device whose host may send any of its commands in    *)
(* any order, whose user may decline any review, and whose power may go at *)
(* any moment.  The handlers share the RAM session; the properties below   *)
(* are about what that sharing must preserve across commands.              *)
(***************************************************************************)
EXTENDS DeriveContextHash, ApproveVaultIntent, SignPsbt

Init == Boot

Next ==
  \/ DeriveNext
  \/ ApproveNext
  \/ SignNext
  \/ PowerCycle

Spec == Init /\ [][Next]_vars

-----------------------------------------------------------------------------
(* Types. *)

Roots == [app: AppNames, path: Paths, context: Seq(ContextBytes)]

RootFingerprints == {"fingerprint"} \X Roots

IntentFingerprints ==
  {"fingerprint"} \X Seq(Scalars \cup GroupRecords \cup KeyEntries)

Contexts ==
  [state: {"IDLE", "HASH_DERIVED", "INTENT_LOADED"},
   root: Roots \cup {Zero},
   context_fp: RootFingerprints \cup {Zero},
   derivation_path: Paths \cup {Zero},
   app_name: AppNames \cup {Zero},
   intent_fp: IntentFingerprints \cup {Zero},
   htlc_hashlock: Seq({"hashlock"} \X Roots \X Vouts),
   auth_anchor_hash: ({"auth-anchor"} \X Roots) \cup {Zero},
   vault_group_index: 0..MaxVaults]

Bookkeeping ==
  [payout_index: Nat, nopayout_challenger_index: Nat,
   is_payout_signing: BOOLEAN, pre_pegin_signed: Nat, pegin_signed: Nat,
   payout_signed: Nat, nopayout_signed: Nat, pegin_group_mask: SUBSET Nat,
   payout_claimer_mask: SUBSET Nat]

Intents ==
  [scalars: Scalars \cup {Zero}, groups: Seq(GroupRecords),
   keys: Seq(KeyEntries), depositor_pk: Keys \cup {Zero}]

Approvals ==
  [scalars_loaded: BOOLEAN, keys_received: Nat,
   intent_hash: Seq(Scalars \cup GroupRecords \cup KeyEntries)]

Streams ==
  [streaming_in_progress: BOOLEAN, silent: BOOLEAN,
   context_total_len: Nat, context_received_len: Nat]

Buffers ==
  [app_name_buf: AppNames \cup {Zero}, path: Paths \cup {Zero},
   context_buf: Seq(ContextBytes)]

Commands ==
  {NoPsbt} \cup [phase: {"validated", "internal"}, tx: Psbts, flow: Flows]

(* Every global keeps the type its C declaration gives it. *)
TypeOK ==
  /\ ctx \in Contexts
  /\ sigs \in Bookkeeping
  /\ intent \in Intents
  /\ approve \in Approvals
  /\ stream \in Streams
  /\ scratch \in Buffers
  /\ psbt \in Commands
  /\ sent \in Buffers
  /\ approved \in Intents
  /\ released \in [SignatureSlots -> Nat]

-----------------------------------------------------------------------------
(* The secret root. *)

SentRoot == Hkdf(sent.app_name_buf, sent.path, sent.context_buf)

(* The root is in memory exactly while the session is HASH_DERIVED: no     *)
(* load, restart of a load, rejection or signing path leaves it behind.    *)
RootConfinement == ctx.root # Zero <=> ctx.state = "HASH_DERIVED"

(* An IDLE session holds nothing of an earlier one.                        *)
IdleIsClean ==
  ctx.state = "IDLE" =>
    /\ ctx = ZeroCtx
    /\ sigs = ZeroSigs
    /\ intent = ZeroIntent
    /\ approve = ZeroApprove

(* While chunks are streaming no session is live and the shared scratch    *)
(* union still holds every byte received, whatever other commands ran      *)
(* between two chunks.                                                     *)
StreamIntact ==
  stream.streaming_in_progress =>
    /\ ctx.state = "IDLE"
    /\ scratch = sent
    /\ Len(sent.context_buf) = stream.context_received_len
    /\ stream.context_received_len < stream.context_total_len

(* The root comes from the header and chunks of one stream, all of them    *)
(* and in order, and the reported context fingerprint is that root's, also *)
(* after the root itself is gone.                                          *)
DerivedFromWhatWasSent ==
  ctx.state # "IDLE" =>
    /\ ctx.state = "HASH_DERIVED" => ctx.root = SentRoot
    /\ ctx.context_fp = Fingerprint(SentRoot)
    /\ ctx.derivation_path = sent.path

-----------------------------------------------------------------------------
(* The approved intent. *)

Commitments(i, root) ==
  [g \in DOMAIN i.groups |-> Hashlock(root, i.groups[g].htlc_vout)]

(* With an intent loaded, the commitments the signer uses are those of the *)
(* approved groups, under the root of the context fingerprint, derived at  *)
(* the depositor path the intent names.                                    *)
CommitmentsBound ==
  ctx.state = "INTENT_LOADED" =>
    /\ ctx.htlc_hashlock = Commitments(approved, SentRoot)
    /\ ctx.auth_anchor_hash = AuthAnchor(SentRoot)
    /\ ctx.derivation_path = approved.scalars.depositor_path

(* The intent the signer reads is the one the user approved, and the       *)
(* fingerprint GET_VAULT_STATE reports is over exactly its payloads, in    *)
(* order: nothing an abandoned load had sent is in either.                 *)
ApprovedIntentInForce ==
  ctx.state = "INTENT_LOADED" =>
    /\ intent = approved
    /\ EncodeState = <<Fingerprint(<<approved.scalars>> \o approved.groups
                                     \o approved.keys),
                       Fingerprint(SentRoot)>>

PartyKeys(i) ==
  {i.groups[g].vault_provider_pk : g \in DOMAIN i.groups}
  \cup {i.depositor_pk}

(* An approved intent is complete and unambiguous: every group and key the *)
(* scalars announce, HTLC outputs all different, keepers and challengers   *)
(* each in ascending order, and no key in two roles.                       *)
ApprovedIntentWellFormed ==
  ctx.state = "INTENT_LOADED" =>
    LET s == intent.scalars
    IN  /\ Len(intent.groups) = s.vault_count
        /\ Len(intent.keys) = s.keeper_count + s.challenger_count
        /\ \A g, h \in 1..s.vault_count :
             g < h => intent.groups[g].htlc_vout < intent.groups[h].htlc_vout
        /\ \A i, j \in 1..Len(intent.keys) :
             /\ intent.keys[i].key = intent.keys[j].key => i = j
             /\ i < j /\ intent.keys[i].tag = intent.keys[j].tag =>
                  intent.keys[i].key < intent.keys[j].key
             /\ i <= s.keeper_count <=> intent.keys[i].tag = "keeper"
             /\ intent.keys[i].key \notin PartyKeys(intent)
        /\ \A g \in 1..s.vault_count :
             intent.groups[g].vault_provider_pk # intent.depositor_pk

(* The two cursors of a load and its running hash describe the records in  *)
(* memory: a restarted load forgets the groups, keys and bytes of the one  *)
(* before, although vault_group_index is also the signer's group index.    *)
LoadCursor ==
  approve.scalars_loaded =>
    /\ ctx.state = "HASH_DERIVED"
    /\ ctx.vault_group_index = Len(intent.groups)
    /\ approve.keys_received = Len(intent.keys)
    /\ approve.intent_hash =
         <<intent.scalars>> \o intent.groups \o intent.keys
    /\ intent.keys # <<>> => Len(intent.groups) = intent.scalars.vault_count

(* The error table of APPROVE_VAULT_INTENT: once a load has begun, every   *)
(* refusal other than a bad P1/P2 ends the session.  That includes the     *)
(* user's DENY on Screen 2, as docs/apdu.md:134 says; the integration      *)
(* guide (:493, :502) says the opposite, which DocDeny refutes.            *)
RefusalEndsSession ==
  [][approve.scalars_loaded /\ resp'.ins = "approve"
       /\ resp'.sw \notin {"OK", "WRONG_P1P2"}
     => ctx' = ZeroCtx /\ intent' = ZeroIntent /\ approve' = ZeroApprove]_vars

-----------------------------------------------------------------------------
(* Signatures. *)

(* How many signatures of each kind an intent entitles the host to.        *)
Allowance(i) ==
  [slot \in SignatureSlots |->
     IF i = ZeroIntent THEN 0
     ELSE CASE slot[1] = "prepegin" -> 1
            [] slot[1] = "pegin"    ->
                 IF slot[2] < i.scalars.vault_count THEN 1 ELSE 0
            [] slot[1] = "payout"   ->
                 IF /\ slot[2] < i.scalars.vault_count
                    /\ slot[3] < i.scalars.keeper_count + 2
                 THEN 1 ELSE 0
            [] slot[1] = "nopayout" ->
                 i.scalars.vault_count
                   * (i.scalars.keeper_count + i.scalars.challenger_count)]

(* No approval is ever overdrawn, whatever mix of replayed PSBTs, aborted  *)
(* yields, failed signings and restarts the host drives the device         *)
(* through.                                                                *)
WithinAllowance ==
  \A slot \in SignatureSlots : released[slot] <= Allowance(approved)[slot]

(* While an intent is loaded, the mask bit of a group or of a group and    *)
(* claimer is set exactly if that signature went out (so no two share a    *)
(* bit), and the counters count the same signatures, so the flat caps are  *)
(* never what stops a host.                                                *)
MasksMatchSignatures ==
  ctx.state = "INTENT_LOADED" =>
    /\ sigs.pegin_group_mask = {g \in 0..(V - 1) : released[PegInSlot(g)] > 0}
    /\ \A g \in 0..(V - 1), c \in 0..(N + 1) :
         PayoutSlot(g, c) \in sigs.payout_claimer_mask
           <=> released[PayoutClaimSlot(g, c)] > 0
    /\ sigs.payout_claimer_mask \subseteq 0..(V * (N + 2) - 1)
    /\ sigs.pegin_signed = Cardinality(sigs.pegin_group_mask)
    /\ sigs.payout_signed = Cardinality(sigs.payout_claimer_mask)
    /\ sigs.nopayout_signed = released[NoPayoutSlot]
    /\ released[PrePegInSlot] <= sigs.pre_pegin_signed

FlowBranch(flow) ==
  CASE flow \in {"PoP", "PrePegIn"} -> "Nothing"
    [] flow \in {"PegIn", "Payout", "NoPayout", "PayoutFinalize"} -> flow
    [] OTHER -> "Standalone"

(* The signer, which works out its branch anew from the shape, the session *)
(* state and a flag earlier PSBTs have set, takes the branch of the flow   *)
(* the validator accepted.                                                 *)
SignerFollowsValidator ==
  psbt.phase # "none" => SignerBranch(psbt.tx) = FlowBranch(psbt.flow)

(* What the signer signs is what the validator recorded: the indices in    *)
(* the session name the group, claimer and challenger of the PSBT at hand. *)
RecordedForThisPsbt ==
  psbt.phase # "none" =>
    /\ psbt.flow = "PegIn" => ctx.vault_group_index \in PegInGroups(psbt.tx)
    /\ psbt.flow = "Payout" =>
         /\ ctx.vault_group_index = psbt.tx.spends
         /\ sigs.payout_index \in Claimers(psbt.tx, psbt.tx.spends)
    /\ psbt.flow = "NoPayout" =>
         sigs.nopayout_challenger_index \in Challengers(psbt.tx)

(* An Assert is signed only for a leaf that begins with the depositor and  *)
(* the parties of the intent the user approved.                            *)
AssertOnlyForApproved ==
  [][psbt.flow = "Assert" /\ resp' = [ins |-> "sign", sw |-> "OK"]
       /\ psbt'.phase = "none"
     => /\ ctx.state = "INTENT_LOADED"
        /\ psbt.tx.signers = [depositor_pk |-> approved.depositor_pk,
                              keys |-> approved.keys]]_vars

(* Used-up allowance comes back only with a new approval.                  *)
BudgetNeverRestored ==
  [][ctx.state = "INTENT_LOADED" /\ ctx'.state = "INTENT_LOADED" =>
       /\ sigs.pegin_group_mask \subseteq sigs'.pegin_group_mask
       /\ sigs.payout_claimer_mask \subseteq sigs'.payout_claimer_mask
       /\ sigs.pre_pegin_signed <= sigs'.pre_pegin_signed
       /\ sigs.nopayout_signed <= sigs'.nopayout_signed]_vars

(* The app keeps the promise SigningBudget states. *)
Budget == INSTANCE SigningBudget WITH
  Slots <- SignatureSlots,
  state <- ctx.state,
  allowance <- Allowance(approved),
  spent <- released

KeepsBudget == Budget!Spec
=============================================================================
