---------------------------- MODULE VaultContext ----------------------------
(***************************************************************************)
(* The RAM session of the Babylon Vault app: G_vault_context,              *)
(* G_vault_intent, G_approve_intent_state, G_derive_streaming and          *)
(* G_scratch (src/src/globals.h, src/src/vault_context.h), the transition  *)
(* table between the three session states and the one function that wipes  *)
(* the session.  The APDU handlers that change this state are in           *)
(* DeriveContextHash, ApproveVaultIntent and SignPsbt.                     *)
(*                                                                         *)
(* Each C struct is a record and a zeroed buffer holds the value Zero.     *)
(* SHA-256, HKDF and point derivation are free constructors: two digests   *)
(* are equal exactly when what they digest is.                             *)
(***************************************************************************)
EXTENDS Naturals, Sequences

CONSTANTS
  Zero,            \* content of a zeroed buffer
  AppNames,        \* HKDF application names
  Paths,           \* BIP-32 paths
  ContextBytes,    \* alphabet of the vault context
  MaxContext,      \* VAULT_CONTEXT_MAX_LEN
  MaxVaults,       \* VAULT_MAX_VAULTS
  MaxKeepers,      \* VAULT_MAX_KEEPERS
  MaxChallengers,  \* VAULT_MAX_CHALLENGERS
  Vouts,           \* htlc_vout values
  Keys,            \* 32-byte x-only keys, ordered as memcmp orders them
  ValidKeys,       \* those that are canonical and lift to a curve point
  DepositorKeyAt,  \* the device's own x-only key at each path
  Psbts            \* the PSBTs a host may submit (fields: see SignPsbt)

ASSUME ZeroAssumption ==
  /\ Zero \notin AppNames
  /\ Zero \notin Paths
  /\ Zero \notin Keys
  /\ Zero \notin [app: AppNames, path: Paths, context: Seq(ContextBytes)]

ASSUME BoundsAssumption ==
  /\ MaxContext \in Nat
  /\ MaxVaults \in Nat \ {0}
  /\ MaxKeepers \in Nat \ {0}
  /\ MaxChallengers \in Nat \ {0}

ASSUME KeysAssumption ==
  /\ Keys \subseteq Nat
  /\ ValidKeys \subseteq Keys
  /\ Vouts \subseteq Nat
  /\ DepositorKeyAt \in [Paths -> Keys]

VARIABLES
  ctx,       \* G_vault_context, without the signing bookkeeping
  sigs,      \* G_vault_context: counters, masks and detected indices
  intent,    \* G_vault_intent
  approve,   \* G_approve_intent_state
  stream,    \* G_derive_streaming
  scratch,   \* G_scratch.derive_ctx, as long as no other union member is used
  psbt,      \* the SIGN_PSBT command in progress
  resp,      \* the last command and its status word
  sent,      \* history: header and context bytes of the current derivation
  approved,  \* history: what the user last approved on the review screen
  released   \* history: signatures released since that approval

session == <<ctx, sigs, intent, approve>>
history == <<sent, approved, released>>
vars == <<ctx, sigs, intent, approve, stream, scratch, psbt, resp,
          sent, approved, released>>

-----------------------------------------------------------------------------
(* Cryptographic constructors. *)

Hkdf(app, path, context) == [app |-> app, path |-> path, context |-> context]
Fingerprint(data)    == <<"fingerprint", data>>
Hashlock(root, vout) == <<"hashlock", root, vout>>
AuthAnchor(root)     == <<"auth-anchor", root>>

(* What the three APPROVE_VAULT_INTENT payloads carry once parsed; one     *)
(* element stands for the bytes of one scalar payload, group or key entry. *)

Scalars ==
  [vault_count: 1..MaxVaults, keeper_count: 1..MaxKeepers,
   challenger_count: 1..MaxChallengers, depositor_path: Paths]

GroupRecords == [htlc_vout: Vouts, vault_provider_pk: Keys]

KeyEntries == [tag: {"keeper", "challenger"}, key: Keys]

-----------------------------------------------------------------------------
(* The zeroed structs. *)

ZeroCtx ==
  [state |-> "IDLE", root |-> Zero, context_fp |-> Zero,
   derivation_path |-> Zero, app_name |-> Zero, intent_fp |-> Zero,
   htlc_hashlock |-> <<>>, auth_anchor_hash |-> Zero, vault_group_index |-> 0]

ZeroSigs ==
  [payout_index |-> 0, nopayout_challenger_index |-> 0,
   is_payout_signing |-> FALSE, pre_pegin_signed |-> 0, pegin_signed |-> 0,
   payout_signed |-> 0, nopayout_signed |-> 0, pegin_group_mask |-> {},
   payout_claimer_mask |-> {}]

ZeroIntent ==
  [scalars |-> Zero, groups |-> <<>>, keys |-> <<>>, depositor_pk |-> Zero]

ZeroApprove ==
  [scalars_loaded |-> FALSE, keys_received |-> 0, intent_hash |-> <<>>]

ZeroStream ==
  [streaming_in_progress |-> FALSE, silent |-> FALSE,
   context_total_len |-> 0, context_received_len |-> 0]

ZeroScratch == [app_name_buf |-> Zero, path |-> Zero, context_buf |-> <<>>]

NoPsbt == [phase |-> "none", tx |-> Zero, flow |-> "none"]

NoResponse == [ins |-> "none", sw |-> "none"]

(* The signatures an approved intent can be made to release: a Pre-PegIn,  *)
(* one PegIn per group, one Payout per group and claimer, and NoPayouts,   *)
(* which nothing ties to a group.  Released counts them.                   *)
PrePegInSlot == <<"prepegin", 0, 0>>
PegInSlot(g) == <<"pegin", g, 0>>
PayoutClaimSlot(g, c) == <<"payout", g, c>>
NoPayoutSlot == <<"nopayout", 0, 0>>

SignatureSlots ==
  {PrePegInSlot, NoPayoutSlot}
  \cup {PegInSlot(g) : g \in 0..(MaxVaults - 1)}
  \cup {PayoutClaimSlot(g, c) : g \in 0..(MaxVaults - 1), c \in 0..(MaxKeepers + 1)}

NoneReleased == [slot \in SignatureSlots |-> 0]

-----------------------------------------------------------------------------
(* The session state machine. *)

TransitionAllowed(from, to) ==
  <<from, to>> \in {<<"IDLE", "HASH_DERIVED">>,
                    <<"HASH_DERIVED", "INTENT_LOADED">>}

CanTransition(state, from, to) == state = from /\ TransitionAllowed(from, to)

(* Faulty variant: the approval in flight survives.                        *)
InvalidateKeepingApproval ==
  /\ ctx' = ZeroCtx
  /\ sigs' = ZeroSigs
  /\ intent' = ZeroIntent
  /\ approve' = approve
  /\ scratch' = ZeroScratch

(* Faulty variant: the root survives.                                      *)
InvalidateKeepingRoot ==
  /\ ctx' = [ZeroCtx EXCEPT !.root = ctx.root]
  /\ sigs' = ZeroSigs
  /\ intent' = ZeroIntent
  /\ approve' = ZeroApprove
  /\ scratch' = ZeroScratch

(* vault_context_invalidate: the context, the intent, the approval in      *)
(* flight and the scratch union go together.                               *)
Invalidate ==
  /\ ctx' = ZeroCtx
  /\ sigs' = ZeroSigs
  /\ intent' = ZeroIntent
  /\ approve' = ZeroApprove
  /\ scratch' = ZeroScratch

Respond(ins, sw) == resp' = [ins |-> ins, sw |-> sw]

(* A rejection that leaves the device as it was. *)
Refuse(ins, sw) ==
  /\ Respond(ins, sw)
  /\ UNCHANGED <<session, stream, scratch, psbt, history>>

(* No other APDU is dispatched while a SIGN_PSBT command is running. *)
Dispatching == psbt.phase = "none"

(* GET_VAULT_STATE: which fingerprints are reported follows from the state *)
(* alone; an absent fingerprint is the empty sequence.                     *)
EncodeState ==
  CASE ctx.state = "IDLE"          -> <<<<>>, <<>>>>
    [] ctx.state = "HASH_DERIVED"  -> <<<<>>, ctx.context_fp>>
    [] ctx.state = "INTENT_LOADED" -> <<ctx.intent_fp, ctx.context_fp>>

Boot ==
  /\ ctx = ZeroCtx
  /\ sigs = ZeroSigs
  /\ intent = ZeroIntent
  /\ approve = ZeroApprove
  /\ stream = ZeroStream
  /\ scratch = ZeroScratch
  /\ psbt = NoPsbt
  /\ resp = NoResponse
  /\ sent = ZeroScratch
  /\ approved = ZeroIntent
  /\ released = NoneReleased

(* Power loss, or a failed LEDGER_ASSERT: nothing of the session persists. *)
PowerCycle ==
  /\ ctx' = ZeroCtx
  /\ sigs' = ZeroSigs
  /\ intent' = ZeroIntent
  /\ approve' = ZeroApprove
  /\ stream' = ZeroStream
  /\ scratch' = ZeroScratch
  /\ psbt' = NoPsbt
  /\ resp' = NoResponse
  /\ sent' = ZeroScratch
  /\ approved' = ZeroIntent
  /\ released' = NoneReleased
=============================================================================
