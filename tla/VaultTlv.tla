------------------------------ MODULE VaultTlv ------------------------------
(***************************************************************************)
(* The parsers of the intent (src/src/vault_tlv.c) and the loop that feeds *)
(* the second one (handle_group_payload): a scalar payload of 13 fields in *)
(* any order, then group records of six fields in ascending order, several *)
(* in one APDU.  One step is one field, one turn of a parser's loop.       *)
(*                                                                         *)
(* A 64-bit number is below Word, and arithmetic on them is modulo Word; a *)
(* 16-bit number is below HalfWord.  How keys arrive, and all else about a *)
(* load, is in ApproveVaultIntent.                                         *)
(***************************************************************************)
EXTENDS Integers, SequencesExt

CONSTANTS
  Word,             \* 2^64
  HalfWord,         \* 2^16
  CoinType,         \* BIP44_COIN_TYPE
  MaxKeepers,       \* VAULT_MAX_KEEPERS
  MaxChallengers,   \* VAULT_MAX_CHALLENGERS
  MaxVaults,        \* VAULT_MAX_VAULTS
  MaxRate,          \* the daemon's cap on base_fee_rate
  MaxPrepeginFee,   \* PREPEGIN_MAX_FEE_LIMIT
  ValidKeys,        \* canonical keys that lift to a curve point
  Tags,             \* the tags a host sends
  HostValues(_)     \* the values it sends under a tag

VAULT_DUST_LIMIT == 546
VAULT_STRUCTURE_TYPE == 1
VAULT_PROTOCOL_VERSION == 1
VAULT_TIMELOCK_MIN == 72
VAULT_TIMELOCK_MAX == 1008
VAULT_HTLC_REFUND_TIMELOCK_MAX == 4320
VAULT_PAYOUT_TIMELOCK_MIN == 90
VAULT_PAYOUT_TIMELOCK_MAX == 4032
BIP86_PURPOSE == 86

(* The _Static_asserts of vault_tlv.c, and room for what is added up. *)
ASSUME WidthAssumption ==
  /\ Word \in Nat
  /\ HalfWord \in Nat
  /\ VAULT_HTLC_REFUND_TIMELOCK_MAX < HalfWord
  /\ VAULT_PAYOUT_TIMELOCK_MAX < HalfWord
  /\ 2 * VAULT_DUST_LIMIT < Word

(* A field of the right length is a number, or a path of five levels.      *)
ASSUME HostAssumption ==
  /\ \A tag \in {"vault_amount", "commission_fee", "depositor_claim_value",
                 "pegin_max_fee"} :
       HostValues(tag) \subseteq 0..(Word - 1)
  /\ HostValues("htlc_vout") \cup HostValues("payout_timelock") \subseteq Nat
  /\ HostValues("depositor_path") \subseteq [1..5 -> [hardened: BOOLEAN, n: Nat]]

VARIABLES
  phase,    \* "scalars", "groups", "loaded" or "rejected"
  scalars,  \* the scalar fields seen, and what was stored for each
  groups,   \* the groups stored
  record,   \* the fields of the group being parsed
  error,    \* why the load was rejected, and the field it is about
  sent,     \* history: the scalar fields of this payload, in order, by tag
  arrived   \* history: the group fields of this load

tlvVars == <<phase, scalars, groups, record, error, sent, arrived>>

Empty == <<>>

NoError == [code |-> "OK"]

(* A parser starts with nothing seen. *)
Fresh ==
  /\ scalars = Empty
  /\ groups = <<>>
  /\ record = Empty
  /\ sent = Empty
  /\ arrived = <<>>

(* G_vault_intent is zeroed. *)
Reset ==
  /\ scalars' = Empty
  /\ groups' = <<>>
  /\ record' = Empty
  /\ sent' = Empty
  /\ arrived' = <<>>

TlvInit == phase = "scalars" /\ error = NoError /\ Fresh

Wiped(code, tag, value) ==
  /\ phase' = "rejected"
  /\ error' = [code |-> code, tag |-> tag, value |-> value]
  /\ Reset

(* A field that is cut off by the end of the payload, or has another       *)
(* length, has no value.                                                   *)
Malformed == {"cut", "wrong_length"}

-----------------------------------------------------------------------------
(* vault_tlv_parse *)

ScalarTags ==
  {"structure_type", "version", "coin_type", "base_fee_rate",
   "pegin_csv_timelock", "payout_timelock", "prepegin_txid",
   "htlc_refund_timelock", "depositor_path", "keeper_count",
   "challenger_count", "vault_count", "prepegin_max_fee"}

(* m/86'/coin'/account'/change/index, each level with its hardened bit.    *)
PathAcceptable(path) ==
  /\ path[1] = [hardened |-> TRUE, n |-> BIP86_PURPOSE]
  /\ path[2].hardened /\ path[3].hardened
  /\ ~path[4].hardened /\ ~path[5].hardened
  /\ path[3].n <= 100 /\ path[4].n <= 1 /\ path[5].n <= 10000

(* Faulty variant: a timelock is looked at once it is 16 bits wide.        *)
PayoutTimelockInRangeNarrowed(value) ==
  /\ value % HalfWord > VAULT_PAYOUT_TIMELOCK_MIN
  /\ value % HalfWord < VAULT_PAYOUT_TIMELOCK_MAX

PayoutTimelockInRange(value) ==
  value > VAULT_PAYOUT_TIMELOCK_MIN /\ value < VAULT_PAYOUT_TIMELOCK_MAX

(* Faulty variant: any fee rate but zero will do.                          *)
RateInRangeUncapped(rate) == rate # 0

RateInRange(rate) == rate \in 1..MaxRate

(* The bounds a value is held to while it still has the width it came in.  *)
ScalarAcceptable(tag, value) ==
  CASE tag = "structure_type" -> value = VAULT_STRUCTURE_TYPE
    [] tag = "version" -> value = VAULT_PROTOCOL_VERSION
    [] tag = "coin_type" -> value = CoinType
    [] tag = "base_fee_rate" -> RateInRange(value)
    [] tag = "pegin_csv_timelock" -> value \in VAULT_TIMELOCK_MIN..VAULT_TIMELOCK_MAX
    [] tag = "payout_timelock" -> PayoutTimelockInRange(value)
    [] tag = "prepegin_txid" -> TRUE
    [] tag = "htlc_refund_timelock" ->
         value \in VAULT_TIMELOCK_MIN..VAULT_HTLC_REFUND_TIMELOCK_MAX
    [] tag = "depositor_path" -> PathAcceptable(value)
    [] tag = "keeper_count" -> value \in 1..MaxKeepers
    [] tag = "challenger_count" -> value \in 1..MaxChallengers
    [] tag = "vault_count" -> value \in 1..MaxVaults
    [] tag = "prepegin_max_fee" -> value \in 1..MaxPrepeginFee

Stored(tag, value) ==
  IF tag \in {"pegin_csv_timelock", "payout_timelock", "htlc_refund_timelock"}
  THEN value % HalfWord
  ELSE value

(* The error of one field. *)
MalformedError(tags, tag, form) ==
  IF form = "cut" THEN "OVERFLOW"
  ELSE IF tag \notin tags THEN "UNKNOWN_TAG" ELSE "WRONG_LENGTH"

ScalarError(tag, value) ==
  CASE tag \notin ScalarTags -> "UNKNOWN_TAG"
    [] tag \in ScalarTags /\ ~ScalarAcceptable(tag, value) -> "VALIDATION"
    [] tag \in DOMAIN scalars /\ ScalarAcceptable(tag, value) -> "DUPLICATE_TAG"
    [] OTHER -> "OK"

ScalarField(tag, value) ==
  /\ phase = "scalars"
  /\ ScalarError(tag, value) = "OK"
  /\ scalars' = [t \in DOMAIN scalars \cup {tag} |->
                   IF t = tag THEN Stored(tag, value) ELSE scalars[t]]
  /\ sent' = [t \in DOMAIN sent \cup {tag} |->
                IF t # tag THEN sent[t]
                ELSE IF t \in DOMAIN sent THEN Append(sent[t], value) ELSE <<value>>]
  /\ UNCHANGED <<phase, groups, record, error, arrived>>

ScalarFieldRejected(tag, value) ==
  /\ phase = "scalars"
  /\ ScalarError(tag, value) # "OK"
  /\ Wiped(ScalarError(tag, value), tag, value)

ScalarFieldMalformed(tag, form) ==
  /\ phase = "scalars"
  /\ Wiped(MalformedError(ScalarTags, tag, form), tag, 0)

(* The payload ends: every field is there, and the path is of this coin. *)
ScalarsComplete ==
  /\ DOMAIN scalars = ScalarTags
  /\ scalars["depositor_path"][2].n = scalars["coin_type"]

ScalarsEnd ==
  /\ phase = "scalars"
  /\ ScalarsComplete
  /\ phase' = "groups"
  /\ UNCHANGED <<scalars, groups, record, error, sent, arrived>>

ScalarsRejected ==
  /\ phase = "scalars"
  /\ ~ScalarsComplete
  /\ Wiped(IF DOMAIN scalars # ScalarTags THEN "MISSING_FIELD" ELSE "VALIDATION",
           "payload", 0)

-----------------------------------------------------------------------------
(* vault_tlv_parse_group, in the loop of handle_group_payload *)

(* In the order of their indices. *)
GroupTags ==
  <<"htlc_vout", "vault_provider_pk", "vault_amount", "commission_fee",
    "depositor_claim_value", "pegin_max_fee">>

FieldIdx(tag) == CHOOSE i \in DOMAIN GroupTags : GroupTags[i] = tag

GroupValueAcceptable(tag, value) ==
  tag \in {"commission_fee", "depositor_claim_value"} => value >= VAULT_DUST_LIMIT

(* Faulty variant: a field may come again before the next one.             *)
InOrderOrAgain(tag) == \A seen \in DOMAIN record : FieldIdx(seen) <= FieldIdx(tag)

(* Behind every field seen: no other order, and none twice. *)
InOrder(tag) == \A seen \in DOMAIN record : FieldIdx(seen) < FieldIdx(tag)

GroupError(tag, value) ==
  CASE tag \notin Range(GroupTags) -> "UNKNOWN_TAG"
    [] tag \in Range(GroupTags) /\ ~GroupValueAcceptable(tag, value) -> "VALIDATION"
    [] tag \in Range(GroupTags) /\ GroupValueAcceptable(tag, value) ->
         IF InOrder(tag) THEN "OK" ELSE "DUPLICATE_TAG"

RecordWith(tag, value) ==
  [t \in DOMAIN record \cup {tag} |-> IF t = tag THEN value ELSE record[t]]

Complete(g) == DOMAIN g = Range(GroupTags)

(* Faulty variant: the sum is taken as it comes.                           *)
RoomForCommissionWrapping(g) ==
  g.vault_amount > (g.commission_fee + 2 * VAULT_DUST_LIMIT) % Word

(* vault_amount > commission_fee + 2 * dust, without adding beyond Word.   *)
RoomForCommission(g) ==
  /\ g.commission_fee <= Word - 1 - 2 * VAULT_DUST_LIMIT
  /\ g.vault_amount > (g.commission_fee + 2 * VAULT_DUST_LIMIT) % Word

(* Faulty variant: the key is taken as it is.                              *)
GroupAcceptableAnyKey(g) ==
  /\ RoomForCommission(g)
  /\ groups # <<>> => g.htlc_vout > groups[Len(groups)].htlc_vout

(* What the handler asks of a whole record. *)
GroupAcceptable(g) ==
  /\ RoomForCommission(g)
  /\ g.vault_provider_pk \in ValidKeys
  /\ groups # <<>> => g.htlc_vout > groups[Len(groups)].htlc_vout

(* The loop does not start a record beyond vault_count. *)
GroupRoom == record # Empty \/ Len(groups) < scalars["vault_count"]

GroupField(tag, value) ==
  /\ phase = "groups"
  /\ GroupRoom
  /\ GroupError(tag, value) = "OK"
  /\ ~Complete(RecordWith(tag, value))
  /\ record' = RecordWith(tag, value)
  /\ arrived' = Append(arrived, <<tag, value>>)
  /\ UNCHANGED <<phase, scalars, groups, error, sent>>

(* The sixth field: the record is one, and the next begins behind it.      *)
GroupStored(tag, value) ==
  /\ phase = "groups"
  /\ GroupRoom
  /\ GroupError(tag, value) = "OK"
  /\ Complete(RecordWith(tag, value))
  /\ GroupAcceptable(RecordWith(tag, value))
  /\ groups' = Append(groups, RecordWith(tag, value))
  /\ record' = Empty
  /\ arrived' = Append(arrived, <<tag, value>>)
  /\ UNCHANGED <<phase, scalars, error, sent>>

GroupFieldRejected(tag, value) ==
  /\ phase = "groups"
  /\ GroupRoom
  /\ GroupError(tag, value) # "OK"
  /\ Wiped(GroupError(tag, value), tag, value)

GroupFieldMalformed(tag, form) ==
  /\ phase = "groups"
  /\ GroupRoom
  /\ Wiped(MalformedError(Range(GroupTags), tag, form), tag, 0)

(* Anything behind the last group. *)
GroupTooMany ==
  /\ phase = "groups"
  /\ ~GroupRoom
  /\ Wiped("INCORRECT_DATA", "group", 0)

GroupRejected(tag, value) ==
  /\ phase = "groups"
  /\ GroupRoom
  /\ GroupError(tag, value) = "OK"
  /\ Complete(RecordWith(tag, value))
  /\ ~GroupAcceptable(RecordWith(tag, value))
  /\ Wiped(IF RoomForCommission(RecordWith(tag, value))
           THEN "INCORRECT_DATA" ELSE "VALIDATION", tag, value)

(* The APDU ends within a record; between records it ends as it should. *)
GroupCut ==
  /\ phase = "groups"
  /\ record # Empty
  /\ Wiped("MISSING_FIELD", "group", 0)

-----------------------------------------------------------------------------
(* All groups are there; the keys and the user's approval follow. *)
GroupsEnd ==
  /\ phase = "groups"
  /\ record = Empty
  /\ Len(groups) = scalars["vault_count"]
  /\ phase' = "loaded"
  /\ UNCHANGED <<scalars, groups, record, error, sent, arrived>>

(* The host derives a root again, and starts over. *)
StartOver ==
  /\ phase # "scalars"
  /\ phase' = "scalars"
  /\ error' = NoError
  /\ Reset

TlvNext ==
  \/ \E tag \in Tags :
       \/ \E value \in HostValues(tag) :
            \/ ScalarField(tag, value) \/ ScalarFieldRejected(tag, value)
            \/ GroupField(tag, value) \/ GroupStored(tag, value)
            \/ GroupFieldRejected(tag, value) \/ GroupRejected(tag, value)
       \/ \E form \in Malformed :
            ScalarFieldMalformed(tag, form) \/ GroupFieldMalformed(tag, form)
  \/ GroupTooMany
  \/ ScalarsEnd
  \/ ScalarsRejected
  \/ GroupCut
  \/ GroupsEnd
  \/ StartOver

-----------------------------------------------------------------------------
(* An accepted scalar payload carries each field exactly once and no other,*)
(* in whatever order, and what is stored is what was sent: nothing is lost *)
(* when a timelock is narrowed to 16 bits, and the path is of the coin     *)
(* (vault_tlv_parse).                                                      *)
ScalarsAsSent ==
  phase \in {"groups", "loaded"} =>
    /\ DOMAIN sent = ScalarTags
    /\ \A tag \in ScalarTags : sent[tag] = <<scalars[tag]>>
    /\ sent["depositor_path"][1][2] = [hardened |-> TRUE, n |-> sent["coin_type"][1]]

(* However records are packed into APDUs, the groups stored are the fields *)
(* sent, six by six and in order (vault_tlv_parse_group: consumed).        *)
GroupsAsSent ==
  phase \in {"groups", "loaded"} =>
    LET fields(g) == [i \in DOMAIN GroupTags |-> <<GroupTags[i], g[GroupTags[i]]>>]
        parsed == FlattenSeq([i \in DOMAIN groups |-> fields(groups[i])])
    IN  /\ Len(arrived) = Len(parsed) + Cardinality(DOMAIN record)
        /\ IsPrefix(parsed, arrived)

(* A vault that is loaded can pay its commission, a dust output and the    *)
(* depositor's dust, in sums that do not wrap (the cross-field check of    *)
(* vault_tlv_parse_group).                                                 *)
CommissionCovered ==
  \A i \in DOMAIN groups :
    groups[i].vault_amount > groups[i].commission_fee + 2 * VAULT_DUST_LIMIT

(* vault_constants.h calls the bounds of the payout timelock inclusive: no *)
(* timelock from the minimum to the maximum is out of range.               *)
PayoutTimelockInclusive ==
  error.code = "VALIDATION" /\ error.tag = "payout_timelock" =>
    error.value \notin VAULT_PAYOUT_TIMELOCK_MIN..VAULT_PAYOUT_TIMELOCK_MAX
=============================================================================
