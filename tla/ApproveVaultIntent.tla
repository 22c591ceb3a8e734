------------------------ MODULE ApproveVaultIntent ------------------------
(***************************************************************************)
(* INS 0x80 APPROVE_VAULT_INTENT                                           *)
(* (src/src/handler/approve_vault_intent.c and approve_vault_intent_core.h)*)
(* The intent arrives in three kinds of APDU: P1=0x00 one scalar payload,  *)
(* P1=0x01 batches of vault groups, P1=0x02 batches of keys.  The batch    *)
(* that completes the keys binds the intent to the derived root, shows it, *)
(* and on approval moves the session to INTENT_LOADED.                     *)
(***************************************************************************)
EXTENDS VaultContext, SequencesExt

CONSTANTS
  HostScalars,   \* the scalar payloads a host sends
  HostGroups,    \* the group records a host sends
  HostKeys,      \* the key entries a host sends
  MaxBatch       \* how many records one APDU carries

ASSUME HostAssumption ==
  /\ HostScalars \subseteq Scalars
  /\ HostGroups \subseteq GroupRecords
  /\ HostKeys \subseteq KeyEntries
  /\ MaxBatch \in Nat

(* Faulty variant: the load is refused and the session kept.               *)
RefuseLoad(sw) == Refuse("approve", sw)

(* A payload is rejected after it was found to belong to a load: the whole *)
(* session goes, the root with it.                                         *)
RejectLoad(sw) ==
  /\ Invalidate
  /\ Respond("approve", sw)
  /\ UNCHANGED <<stream, psbt, history>>

-----------------------------------------------------------------------------
(* P1=0x00 *)

ScalarsRefused ==
  /\ Dispatching
  /\ ctx.state # "HASH_DERIVED"
  /\ Refuse("approve", "BAD_STATE")

(* A payload vault_tlv_parse rejects, or a failure of the hash. *)
ScalarsMalformed ==
  /\ Dispatching
  /\ ctx.state = "HASH_DERIVED"
  /\ \E sw \in {"INCORRECT_DATA", "BAD_STATE"} : RejectLoad(sw)

(* Faulty variant: the cursor of an unfinished load survives.              *)
CommitmentsReset == [ctx EXCEPT !.htlc_hashlock = <<>>]

(* What is left of the context when a load starts: the derivation.         *)
DerivationKept ==
  [ZeroCtx EXCEPT !.state = "HASH_DERIVED",
                  !.root = ctx.root,
                  !.context_fp = ctx.context_fp,
                  !.derivation_path = ctx.derivation_path,
                  !.app_name = ctx.app_name]

(* Faulty variant: the hash is not initialised again.                      *)
LoadContinued(s) ==
  [scalars_loaded |-> TRUE, keys_received |-> 0,
   intent_hash |-> approve.intent_hash \o <<s>>]

LoadBegun(s) ==
  [scalars_loaded |-> TRUE, keys_received |-> 0, intent_hash |-> <<s>>]

(* The session is wiped and the derivation restored: any load in progress  *)
(* starts over, the root survives.                                         *)
ScalarsLoaded(s) ==
  /\ Dispatching
  /\ ctx.state = "HASH_DERIVED"
  /\ ctx' = DerivationKept
  /\ sigs' = ZeroSigs
  /\ intent' = [ZeroIntent EXCEPT !.scalars = s]
  /\ approve' = LoadBegun(s)
  /\ scratch' = ZeroScratch
  /\ Respond("approve", "OK")
  /\ UNCHANGED <<stream, psbt, history>>

-----------------------------------------------------------------------------
(* P1=0x01 *)

NothingLoading ==
  /\ Dispatching
  /\ ~approve.scalars_loaded
  /\ Refuse("approve", "BAD_STATE")

(* groups[] once the records of b are parsed behind the cursor. *)
GroupsWith(b) == SubSeq(intent.groups, 1, ctx.vault_group_index) \o b

(* Faulty variant: the group count is not checked.                         *)
GroupAcceptableBeyondCount(groups, i) ==
  /\ groups[i].vault_provider_pk \in ValidKeys
  /\ i > 1 => groups[i].htlc_vout > groups[i - 1].htlc_vout

(* Faulty variant: two groups may share an HTLC output.                    *)
GroupAcceptableUnordered(groups, i) ==
  /\ i <= intent.scalars.vault_count
  /\ groups[i].vault_provider_pk \in ValidKeys
  /\ i > 1 => groups[i].htlc_vout >= groups[i - 1].htlc_vout

GroupAcceptable(groups, i) ==
  /\ i <= intent.scalars.vault_count
  /\ groups[i].vault_provider_pk \in ValidKeys
  /\ i > 1 => groups[i].htlc_vout > groups[i - 1].htlc_vout

(* A record that does not parse, or one that is not acceptable; or a       *)
(* failure of the hash.                                                    *)
GroupsRejected ==
  /\ Dispatching
  /\ approve.scalars_loaded
  /\ \E sw \in {"INCORRECT_DATA", "BAD_STATE"} : RejectLoad(sw)

GroupsLoaded(b) ==
  /\ Dispatching
  /\ approve.scalars_loaded
  /\ \A i \in (ctx.vault_group_index + 1)..(ctx.vault_group_index + Len(b)) :
       GroupAcceptable(GroupsWith(b), i)
  /\ intent' = [intent EXCEPT !.groups = GroupsWith(b)]
  /\ ctx' = [ctx EXCEPT !.vault_group_index = @ + Len(b)]
  /\ approve' = [approve EXCEPT !.intent_hash = @ \o b]
  /\ Respond("approve", "OK")
  /\ UNCHANGED <<sigs, stream, scratch, psbt, history>>

-----------------------------------------------------------------------------
(* P1=0x02 *)

KeysTotal == intent.scalars.keeper_count + intent.scalars.challenger_count

KeysExpected ==
  /\ ctx.vault_group_index = intent.scalars.vault_count
  /\ ctx.state = "HASH_DERIVED"

(* keeper_pks[] and challenger_pks[], in order of arrival. *)
KeysWith(b) == SubSeq(intent.keys, 1, approve.keys_received) \o b

ProviderKeys ==
  {intent.groups[g].vault_provider_pk : g \in 1..intent.scalars.vault_count}

(* vault_validate_and_store_key, and the tag, canonicity and count checks  *)
(* the handler makes before it.                                            *)
KeyAcceptable(keys, i) ==
  LET keepers == intent.scalars.keeper_count
  IN  /\ i <= KeysTotal
      /\ keys[i].tag = IF i <= keepers THEN "keeper" ELSE "challenger"
      /\ keys[i].key \in ValidKeys
      /\ i \notin {1, keepers + 1} => keys[i].key > keys[i - 1].key
      /\ keys[i].key \notin ProviderKeys
      /\ \A j \in 1..(i - 1) : keys[j].key # keys[i].key

KeysAcceptable(b) ==
  \A i \in (approve.keys_received + 1)..(approve.keys_received + Len(b)) :
    KeyAcceptable(KeysWith(b), i)

(* Keys before the last group: this rejection, too, costs the session. *)
KeysTooEarly ==
  /\ Dispatching
  /\ approve.scalars_loaded
  /\ ~KeysExpected
  /\ RejectLoad("BAD_STATE")

(* A malformed or unacceptable key, or a failure of the hash. *)
KeysRejected ==
  /\ Dispatching
  /\ approve.scalars_loaded
  /\ KeysExpected
  /\ \E sw \in {"INCORRECT_DATA", "BAD_STATE"} : RejectLoad(sw)

KeysLoaded(b) ==
  /\ Dispatching
  /\ approve.scalars_loaded
  /\ KeysExpected
  /\ KeysAcceptable(b)
  /\ approve.keys_received + Len(b) < KeysTotal
  /\ intent' = [intent EXCEPT !.keys = KeysWith(b)]
  /\ approve' = [approve EXCEPT !.keys_received = @ + Len(b),
                                !.intent_hash = @ \o b]
  /\ Respond("approve", "OK")
  /\ UNCHANGED <<ctx, sigs, stream, scratch, psbt, history>>

KeysComplete(b) ==
  /\ approve.scalars_loaded
  /\ KeysExpected
  /\ KeysAcceptable(b)
  /\ approve.keys_received + Len(b) = KeysTotal

(* vault_check_depositor_uniqueness *)
DepositorUnique(depositor_pk, keys) ==
  /\ depositor_pk \notin ProviderKeys
  /\ \A i \in 1..KeysTotal : keys[i].key # depositor_pk

(* Faulty variant: any derivation path will do.                            *)
BindableAtAnyPath(keys) ==
  /\ DepositorUnique(DepositorKeyAt[intent.scalars.depositor_path], keys)
  /\ ctx.root # Zero

(* The intent names the path the root was derived at, the depositor key is *)
(* no other party's, and there is a root.                                  *)
Bindable(keys) ==
  LET path == intent.scalars.depositor_path
  IN  /\ ctx.derivation_path = path
      /\ DepositorUnique(DepositorKeyAt[path], keys)
      /\ ctx.root # Zero

(* How the last batch is refused: the hash, the derivation of the          *)
(* depositor key (made once the path is known to match), the binding, or   *)
(* the user, who declines Screen 2.                                        *)
RejectionCodes(keys) ==
  {"BAD_STATE"}
  \cup {sw \in {"BIP32_FAIL"} :
          ctx.derivation_path = intent.scalars.depositor_path}
  \cup {IF Bindable(keys) THEN "DENY" ELSE "INCORRECT_DATA"}

IntentRejected(b) ==
  /\ Dispatching
  /\ KeysComplete(b)
  /\ \E sw \in RejectionCodes(KeysWith(b)) : RejectLoad(sw)

(* The last batch of an intent the user approves on Screen 2: the          *)
(* commitments replace the root.                                           *)
IntentApproved(b) ==
  LET loaded == [intent EXCEPT !.keys = KeysWith(b),
                               !.depositor_pk =
                                 DepositorKeyAt[intent.scalars.depositor_path]]
  IN  /\ Dispatching
      /\ KeysComplete(b)
      /\ Bindable(KeysWith(b))
      /\ CanTransition(ctx.state, "HASH_DERIVED", "INTENT_LOADED")
      /\ intent' = loaded
      /\ ctx' = [ctx EXCEPT
                   !.state = "INTENT_LOADED",
                   !.root = Zero,
                   !.htlc_hashlock =
                     [g \in 1..intent.scalars.vault_count |->
                        Hashlock(ctx.root, intent.groups[g].htlc_vout)],
                   !.auth_anchor_hash = AuthAnchor(ctx.root),
                   !.intent_fp = Fingerprint(approve.intent_hash \o b)]
      /\ approve' = ZeroApprove
      /\ scratch' = ZeroScratch
      /\ approved' = loaded
      /\ released' = NoneReleased
      /\ Respond("approve", "OK")
      /\ UNCHANGED <<sigs, stream, psbt, sent>>

-----------------------------------------------------------------------------
(* A P2 other than 0x00 or an unknown P1, checked before anything else. *)
ApproveWrongP1P2 == Dispatching /\ Refuse("approve", "WRONG_P1P2")

ApproveNext ==
  \/ ApproveWrongP1P2
  \/ ScalarsRefused
  \/ ScalarsMalformed
  \/ \E s \in HostScalars : ScalarsLoaded(s)
  \/ NothingLoading
  \/ GroupsRejected
  \/ \E b \in SeqOf(HostGroups, MaxBatch) : GroupsLoaded(b)
  \/ KeysTooEarly
  \/ KeysRejected
  \/ \E b \in SeqOf(HostKeys, MaxBatch) :
       \/ KeysLoaded(b)
       \/ IntentRejected(b)
       \/ IntentApproved(b)
=============================================================================
