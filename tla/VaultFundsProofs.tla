-------------------------- MODULE VaultFundsProofs --------------------------
(***************************************************************************)
(* The parsers, the HTLC bounds and the fees for numbers of every width:   *)
(* what a run checks where 64 bits are 20, proved for any Word and         *)
(* HalfWord that hold the code's own constants.  And, for any intent that  *)
(* was approved: the groups are the records that were sent, a payout of it *)
(* can be paid, and a Pre-PegIn that is signed is laid out as it says.     *)
(***************************************************************************)
EXTENDS VaultFunds, SequenceLemmas

Amounts == {"vault_amount", "commission_fee", "depositor_claim_value", "pegin_max_fee"}

Timelocks == {"pegin_csv_timelock", "payout_timelock", "htlc_refund_timelock"}

(* What a group holds once it is stored.                                   *)
SoundGroup(g) ==
  /\ Complete(g)
  /\ \A tag \in Amounts : g[tag] \in 0..(Word - 1)
  /\ g["htlc_vout"] \in Nat
  /\ g["commission_fee"] >= VAULT_DUST_LIMIT
  /\ g["vault_provider_pk"] \in ValidKeys
  /\ RoomForCommission(g)

(* The scalars stored were acceptable at the width they came in, and are   *)
(* what was sent, once under each tag.                                     *)
ScalarsSound ==
  /\ DOMAIN scalars \subseteq ScalarTags
  /\ DOMAIN sent = DOMAIN scalars
  /\ \A tag \in DOMAIN scalars :
       /\ sent[tag] = <<scalars[tag]>>
       /\ scalars[tag] \in HostValues(tag)
       /\ ScalarAcceptable(tag, scalars[tag])
  /\ phase \in {"groups", "loaded"} => ScalarsComplete

(* A record under way holds what may come under its tags, and a stored one *)
(* passed every check.                                                     *)
GroupsSound ==
  /\ DOMAIN groups = 1..Len(groups)
  /\ groups \in Seq({groups[i] : i \in DOMAIN groups})
  /\ \A i \in DOMAIN groups : SoundGroup(groups[i])
  /\ \A i, j \in DOMAIN groups : i < j => groups[i].htlc_vout < groups[j].htlc_vout
  /\ \A tag \in DOMAIN record :
       record[tag] \in HostValues(tag) /\ GroupValueAcceptable(tag, record[tag])

(* Where the load is.                                                      *)
LoadPhase ==
  /\ phase \in {"scalars", "groups", "loaded", "rejected"}
  /\ phase = "loaded" => Len(groups) = scalars["vault_count"]
  /\ phase = "rejected" => Fresh

FundsInv ==
  /\ ScalarsSound
  /\ GroupsSound
  /\ LoadPhase
  /\ HtlcsSpendable

-----------------------------------------------------------------------------
(* Arithmetic at the word's edge. *)

(* A number below the width is itself.                                     *)
LEMMA NoWrap ==
  ASSUME NEW w \in Nat, NEW n \in 0..(w - 1)
  PROVE  n % w = n
OBVIOUS

(* Wrapping never adds.                                                    *)
LEMMA WrapBound ==
  ASSUME NEW w \in Nat, w > 0, NEW n \in Nat
  PROVE  n % w \in 0..(w - 1) /\ n % w <= n
OBVIOUS

LEMMA Widths ==
  /\ Word \in Nat /\ HalfWord \in Nat
  /\ Word > 1092 /\ HalfWord > 4320
BY WidthAssumption DEF WidthAssumption, VAULT_HTLC_REFUND_TIMELOCK_MAX, VAULT_DUST_LIMIT,
   VAULT_PAYOUT_TIMELOCK_MAX

(* The six fields of a group.                                              *)
LEMMA GroupFields ==
  Range(GroupTags) = {"htlc_vout", "vault_provider_pk", "vault_amount", "commission_fee",
                      "depositor_claim_value", "pegin_max_fee"}
<1>1. DOMAIN GroupTags = 1..6
  BY DEF GroupTags
<1>2. Range(GroupTags) = {GroupTags[i] : i \in 1..6}
  BY <1>1 DEF Range
<1> QED  BY <1>2 DEF GroupTags

(* A timelock that passed its check at 32 bits fits in 16.                 *)
LEMMA TimelocksFit ==
  ASSUME NEW tag \in Timelocks, NEW value \in HostValues(tag), ScalarAcceptable(tag, value)
  PROVE  value \in 0..(HalfWord - 1)
<1>1. CASE tag = "pegin_csv_timelock"
  <2>1. value \in 72..1008
    BY <1>1 DEF ScalarAcceptable, VAULT_TIMELOCK_MIN, VAULT_TIMELOCK_MAX
  <2> QED  BY <2>1, Widths
<1>2. CASE tag = "htlc_refund_timelock"
  <2>1. value \in 72..4320
    BY <1>2 DEF ScalarAcceptable, VAULT_TIMELOCK_MIN, VAULT_HTLC_REFUND_TIMELOCK_MAX
  <2> QED  BY <2>1, Widths
<1>3. CASE tag = "payout_timelock"
  <2>1. value \in Nat
    BY <1>3, HostAssumption DEF HostAssumption
  <2>2. value < 4032
    BY <1>3 DEF ScalarAcceptable, PayoutTimelockInRange, VAULT_PAYOUT_TIMELOCK_MAX
  <2> QED  BY <2>1, <2>2, Widths
<1> QED  BY <1>1, <1>2, <1>3 DEF Timelocks

(* So that nothing is lost when it is stored.                              *)
LEMMA StoredAsSent ==
  ASSUME NEW tag, NEW value \in HostValues(tag), ScalarAcceptable(tag, value)
  PROVE  Stored(tag, value) = value
<1>1. CASE tag \in Timelocks
  <2>1. value % HalfWord = value
    BY <1>1, TimelocksFit, NoWrap, Widths
  <2> QED  BY <1>1, <2>1 DEF Stored, Timelocks
<1> QED  BY <1>1 DEF Stored, Timelocks

(* The check of a record against overflow, read as plain arithmetic.       *)
LEMMA RoomMeans ==
  ASSUME NEW g, SoundGroup(g)
  PROVE  g.vault_amount > g.commission_fee + 2 * VAULT_DUST_LIMIT
<1> DEFINE fee == g.commission_fee
           amount == g.vault_amount
<1>1. fee \in 0..(Word - 1) /\ amount \in 0..(Word - 1)
  BY DEF SoundGroup, Amounts
<1>2. /\ fee <= Word - 1 - 1092
      /\ amount > (fee + 1092) % Word
  BY DEF SoundGroup, RoomForCommission, VAULT_DUST_LIMIT
<1> HIDE DEF fee, amount
<1>3. fee + 1092 \in 0..(Word - 1)
  BY <1>1, <1>2, Widths
<1>4. (fee + 1092) % Word = fee + 1092
  BY <1>3, NoWrap, Widths
<1>5. amount > fee + 2 * 546
  BY <1>2, <1>4, <1>1
<1> QED  BY <1>5 DEF fee, amount, VAULT_DUST_LIMIT

(* The bounds of an HTLC as it is created lie within those as it is spent. *)
LEMMA CreatedIsSpendable ==
  ASSUME NEW g, SoundGroup(g), NEW value, HtlcSumsFit(g), HtlcValueAcceptable(g, value)
  PROVE  PegInAcceptable(g, value)
<1> DEFINE fee == g.pegin_max_fee
           low == HtlcMinimum(g)
<1>1. /\ fee \in 0..(Word - 1)
      /\ g.vault_amount \in 0..(Word - 1)
      /\ g.depositor_claim_value \in 0..(Word - 1)
  BY DEF SoundGroup, Amounts
<1>2. g.vault_amount + g.depositor_claim_value \in Nat
  BY <1>1, Widths
<1>3. Wrap(g.vault_amount + g.depositor_claim_value) \in Nat
  BY <1>2, WrapBound, Widths DEF Wrap
<1>4. Wrap(g.vault_amount + g.depositor_claim_value) + P2A_ANCHOR_VALUE \in Nat
  BY <1>3 DEF P2A_ANCHOR_VALUE
<1>5. low \in Nat
  BY <1>4, WrapBound, Widths DEF Wrap, HtlcMinimum
<1>6. value \in low..Wrap(low + fee)
  BY DEF HtlcValueAcceptable
<1>7. Wrap(low + fee) \in Nat /\ Wrap(low + fee) <= low + fee
  <2> HIDE DEF low, fee
  <2>1. low + fee \in Nat
    BY <1>1, <1>5, Widths
  <2> QED  BY <2>1, WrapBound, Widths DEF Wrap
<1>8. value >= low /\ value - low <= fee
  <2> HIDE DEF low, fee
  <2> QED  BY <1>1, <1>5, <1>6, <1>7, Widths
<1> QED  BY <1>8 DEF PegInAcceptable, HtlcSumsFit

-----------------------------------------------------------------------------
(* A field that is accepted is new, known and within its bounds.           *)
LEMMA ScalarErrorOK ==
  ASSUME NEW tag, NEW value, ScalarError(tag, value) = "OK"
  PROVE  tag \in ScalarTags /\ ScalarAcceptable(tag, value) /\ tag \notin DOMAIN scalars
BY DEF ScalarError

LEMMA GroupErrorOK ==
  ASSUME NEW tag, NEW value, GroupError(tag, value) = "OK"
  PROVE  tag \in Range(GroupTags) /\ GroupValueAcceptable(tag, value)
BY DEF GroupError

(* A record that is complete and acceptable is a sound group.              *)
LEMMA StoredIsSound ==
  ASSUME GroupsSound, NEW tag, NEW value \in HostValues(tag),
         GroupValueAcceptable(tag, value), Complete(RecordWith(tag, value)), GroupAcceptable(RecordWith(tag, value))
  PROVE  SoundGroup(RecordWith(tag, value))
<1> DEFINE g == RecordWith(tag, value)
<1>1. ASSUME NEW t \in DOMAIN g
      PROVE  g[t] \in HostValues(t) /\ GroupValueAcceptable(t, g[t])
  <2>1. DOMAIN g = DOMAIN record \cup {tag}
    BY DEF RecordWith
  <2>2. CASE t = tag
    BY <2>1, <2>2 DEF RecordWith
  <2>3. CASE t # tag
    <3>1. g[t] = record[t] /\ t \in DOMAIN record
      BY <2>1, <2>3 DEF RecordWith
    <3> QED  BY <3>1 DEF GroupsSound
  <2> QED  BY <2>2, <2>3
<1>2. Amounts \subseteq DOMAIN g
  BY GroupFields DEF Complete, Amounts
<1>3. \A t \in Amounts : g[t] \in 0..(Word - 1)
  BY <1>1, <1>2, HostAssumption DEF HostAssumption, Amounts
<1>4. RoomForCommission(g) /\ g["vault_provider_pk"] \in ValidKeys
  BY DEF GroupAcceptable
<1>5. g["commission_fee"] >= VAULT_DUST_LIMIT
  BY <1>1, <1>2 DEF GroupValueAcceptable, Amounts
<1>6. g["htlc_vout"] \in Nat
  <2>1. "htlc_vout" \in DOMAIN g
    BY GroupFields DEF Complete
  <2> QED  BY <1>1, <2>1, HostAssumption DEF HostAssumption
<1> HIDE DEF g
<1> QED  BY <1>3, <1>4, <1>5, <1>6 DEF SoundGroup, g

-----------------------------------------------------------------------------
(* Every step keeps the invariant. *)

LEMMA Start == Init => FundsInv
<1> SUFFICES ASSUME Init PROVE FundsInv
  OBVIOUS
<1>1. /\ phase = "scalars" /\ scalars = <<>> /\ groups = <<>> /\ record = <<>> /\ sent = <<>>
      /\ accepted.flow = "none"
  BY DEF Init, TlvInit, Fresh, Empty, Nothing
<1>2. ScalarsSound
  BY <1>1 DEF ScalarsSound
<1>3. GroupsSound
  BY <1>1 DEF GroupsSound
<1>4. LoadPhase
  BY <1>1 DEF LoadPhase
<1>5. HtlcsSpendable
  BY <1>1 DEF HtlcsSpendable
<1> QED  BY <1>2, <1>3, <1>4, <1>5 DEF FundsInv

(* An empty load, whatever its phase.                                      *)
LEMMA AfterReset ==
  ASSUME Reset, phase' \in {"scalars", "rejected"}, accepted' = Nothing
  PROVE  FundsInv'
<1>1. /\ scalars' = <<>> /\ groups' = <<>> /\ record' = <<>> /\ sent' = <<>>
      /\ arrived' = <<>> /\ accepted'.flow = "none"
  BY DEF Reset, Empty, Nothing
<1>2. ScalarsSound'
  BY <1>1 DEF ScalarsSound
<1>3. GroupsSound'
  BY <1>1 DEF GroupsSound
<1>4. LoadPhase'
  BY <1>1 DEF LoadPhase, Fresh, Empty
<1>5. HtlcsSpendable'
  BY <1>1 DEF HtlcsSpendable
<1> QED  BY <1>2, <1>3, <1>4, <1>5 DEF FundsInv

LEMMA AfterWipe ==
  ASSUME NEW code, NEW tag, NEW value, Wiped(code, tag, value), accepted' = Nothing
  PROVE  FundsInv'
BY AfterReset DEF Wiped

(* While nothing has been signed nothing is locked up.                     *)
LEMMA NothingLocked ==
  ASSUME accepted' = Nothing
  PROVE  HtlcsSpendable'
BY DEF HtlcsSpendable, Nothing

(* The scalars are carried along by every step that leaves them alone.     *)
LEMMA ScalarsKept ==
  ASSUME ScalarsSound, UNCHANGED <<scalars, sent>>,
         phase' \in {"groups", "loaded"} => ScalarsComplete
  PROVE  ScalarsSound'
BY DEF ScalarsSound, ScalarsComplete

LEMMA GroupsKept ==
  ASSUME GroupsSound, UNCHANGED <<groups, record>>
  PROVE  GroupsSound'
BY DEF GroupsSound

LEMMA ScalarFieldStep ==
  ASSUME FundsInv, NEW tag, NEW value \in HostValues(tag), ScalarField(tag, value),
         accepted' = Nothing
  PROVE  FundsInv'
<1>1. tag \in ScalarTags /\ ScalarAcceptable(tag, value) /\ tag \notin DOMAIN scalars
  BY ScalarErrorOK DEF ScalarField
<1>2. DOMAIN sent = DOMAIN scalars /\ DOMAIN scalars \subseteq ScalarTags
  BY DEF FundsInv, ScalarsSound
<1>3. scalars' = [t \in DOMAIN scalars \cup {tag} |-> IF t = tag THEN value ELSE scalars[t]]
  BY <1>1, StoredAsSent DEF ScalarField
<1>4. sent' = [t \in DOMAIN sent \cup {tag} |-> IF t # tag THEN sent[t] ELSE <<value>>]
  BY <1>1, <1>2 DEF ScalarField
<1>5. phase = "scalars" /\ phase' = "scalars"
  BY DEF ScalarField
<1>6. ScalarsSound'
  <2>1. DOMAIN scalars' \subseteq ScalarTags /\ DOMAIN sent' = DOMAIN scalars'
    BY <1>1, <1>2, <1>3, <1>4
  <2>2. ASSUME NEW t \in DOMAIN scalars'
        PROVE  /\ sent'[t] = <<scalars'[t]>>
               /\ scalars'[t] \in HostValues(t)
               /\ ScalarAcceptable(t, scalars'[t])
    <3>1. CASE t = tag
      <4>1. scalars'[t] = value /\ sent'[t] = <<value>>
        BY <3>1, <1>2, <1>3, <1>4
      <4> QED  BY <4>1, <3>1, <1>1
    <3>2. CASE t # tag
      <4>1. t \in DOMAIN scalars /\ scalars'[t] = scalars[t] /\ sent'[t] = sent[t]
        BY <3>2, <1>2, <1>3, <1>4
      <4>2. /\ sent[t] = <<scalars[t]>>
            /\ scalars[t] \in HostValues(t)
            /\ ScalarAcceptable(t, scalars[t])
        BY <4>1 DEF FundsInv, ScalarsSound
      <4> QED  BY <4>1, <4>2
    <3> QED  BY <3>1, <3>2
  <2> QED  BY <2>1, <2>2, <1>5 DEF ScalarsSound, ScalarAcceptable
<1>7. GroupsSound'
  BY GroupsKept DEF ScalarField, FundsInv
<1>8. LoadPhase'
  BY <1>5 DEF LoadPhase
<1> QED  BY <1>6, <1>7, <1>8, NothingLocked DEF FundsInv

LEMMA ScalarsEndStep ==
  ASSUME FundsInv, ScalarsEnd, accepted' = Nothing
  PROVE  FundsInv'
<1>1. ScalarsSound'
  BY ScalarsKept DEF ScalarsEnd, FundsInv
<1>2. GroupsSound'
  BY GroupsKept DEF ScalarsEnd, FundsInv
<1>3. LoadPhase'
  BY DEF ScalarsEnd, LoadPhase
<1> QED  BY <1>1, <1>2, <1>3, NothingLocked DEF FundsInv

LEMMA GroupFieldStep ==
  ASSUME FundsInv, NEW tag, NEW value \in HostValues(tag), GroupField(tag, value),
         accepted' = Nothing
  PROVE  FundsInv'
<1>1. ScalarsSound'
  BY ScalarsKept DEF GroupField, FundsInv, ScalarsSound
<1>2. GroupsSound'
  <2>1. groups' = groups
    BY DEF GroupField
  <2>2. ASSUME NEW t \in DOMAIN record'
        PROVE  record'[t] \in HostValues(t) /\ GroupValueAcceptable(t, record'[t])
    <3>1. record' = [s \in DOMAIN record \cup {tag} |-> IF s = tag THEN value ELSE record[s]]
      BY DEF GroupField, RecordWith
    <3>2. CASE t = tag
      <4>1. GroupValueAcceptable(tag, value)
        BY GroupErrorOK DEF GroupField
      <4> QED  BY <3>1, <3>2, <4>1
    <3>3. CASE t # tag
      <4>1. t \in DOMAIN record /\ record'[t] = record[t]
        BY <3>1, <3>3
      <4> QED  BY <4>1 DEF FundsInv, GroupsSound
    <3> QED  BY <3>2, <3>3
  <2> QED  BY <2>1, <2>2 DEF FundsInv, GroupsSound, GroupValueAcceptable
<1>3. LoadPhase'
  BY DEF GroupField, LoadPhase
<1> QED  BY <1>1, <1>2, <1>3, NothingLocked DEF FundsInv

LEMMA GroupStoredStep ==
  ASSUME FundsInv, NEW tag, NEW value \in HostValues(tag), GroupStored(tag, value),
         accepted' = Nothing
  PROVE  FundsInv'
<1> DEFINE g == RecordWith(tag, value)
<1>1. ScalarsSound'
  BY ScalarsKept DEF GroupStored, FundsInv, ScalarsSound
<1>2. GroupsSound'
  <2>1. SoundGroup(g)
    BY StoredIsSound, GroupErrorOK DEF GroupStored, FundsInv
  <2>2. groups' = Append(groups, g) /\ record' = <<>>
    BY DEF GroupStored, Empty
  <2> HIDE DEF g
  <2> DEFINE S == {groups[i] : i \in DOMAIN groups}
  <2>3. /\ groups \in Seq(S)
        /\ \A i \in DOMAIN groups : SoundGroup(groups[i])
    BY DEF FundsInv, GroupsSound
  <2>4. groups \in Seq(S \cup {g})
    <3> HIDE DEF S
    <3> QED  BY <2>3
  <2>5. /\ Len(groups') = Len(groups) + 1
        /\ DOMAIN groups' = 1..(Len(groups) + 1)
        /\ \A i \in 1..Len(groups) : groups'[i] = groups[i]
        /\ groups'[Len(groups) + 1] = g
        /\ Len(groups) \in Nat /\ DOMAIN groups = 1..Len(groups)
    <3> HIDE DEF S
    <3> QED  BY <2>2, <2>4
  <2>6. \A i \in DOMAIN groups' : SoundGroup(groups'[i])
    <3>1. ASSUME NEW i \in DOMAIN groups'
          PROVE  groups'[i] = g \/ (i \in DOMAIN groups /\ groups'[i] = groups[i])
      BY <2>5
    <3> QED  BY <3>1, <2>1, <2>3
  <2>7. groups' \in Seq({groups'[i] : i \in DOMAIN groups'})
    <3> DEFINE T == {groups'[i] : i \in DOMAIN groups'}
    <3>1. \A i \in 1..Len(groups') : groups'[i] \in T
      BY <2>5
    <3>2. groups' \in Seq(S \cup {g})
      <4> HIDE DEF S, T
      <4> QED  BY <2>2, <2>4
    <3> HIDE DEF T, S
    <3> QED  BY <3>1, <3>2
  <2>8. ASSUME NEW i \in DOMAIN groups', NEW j \in DOMAIN groups', i < j
        PROVE  groups'[i].htlc_vout < groups'[j].htlc_vout
    <3>1. i \in DOMAIN groups /\ i \in 1..Len(groups) /\ groups'[i] = groups[i]
      BY <2>5, <2>8
    <3>2. CASE j # Len(groups) + 1
      <4>1. j \in DOMAIN groups /\ groups'[j] = groups[j]
        BY <2>5, <3>2
      <4> QED  BY <2>8, <3>1, <4>1 DEF FundsInv, GroupsSound
    <3>3. CASE j = Len(groups) + 1
      <4> DEFINE last == Len(groups)
      <4>1. groups'[j] = g /\ last \in DOMAIN groups /\ i <= last /\ groups # <<>>
        BY <2>5, <3>1, <3>3
      <4>2. groups[last].htlc_vout < g.htlc_vout
        BY <4>1 DEF GroupStored, GroupAcceptable, g
      <4>3. groups[i].htlc_vout <= groups[last].htlc_vout
        <5>1. groups[last].htlc_vout \in Nat
          BY <2>3, <4>1 DEF SoundGroup
        <5>2. CASE i = last
          BY <5>1, <5>2
        <5>3. CASE i # last
          <6>1. i < last
            BY <2>5, <3>1, <4>1, <5>3
          <6>2. groups[i].htlc_vout < groups[last].htlc_vout
            BY <3>1, <4>1, <6>1 DEF FundsInv, GroupsSound
          <6>3. groups[i].htlc_vout \in Nat
            BY <2>3, <3>1 DEF SoundGroup
          <6> QED  BY <5>1, <6>2, <6>3
        <5> QED  BY <5>2, <5>3
      <4>4. /\ groups[i].htlc_vout \in Nat /\ groups[last].htlc_vout \in Nat
            /\ g.htlc_vout \in Nat
        BY <2>1, <2>3, <3>1, <4>1 DEF SoundGroup
      <4> QED  BY <3>1, <4>1, <4>2, <4>3, <4>4
    <3> QED  BY <3>2, <3>3
  <2> QED  BY <2>2, <2>5, <2>6, <2>7, <2>8 DEF GroupsSound
<1>3. LoadPhase'
  BY DEF GroupStored, LoadPhase
<1> QED  BY <1>1, <1>2, <1>3, NothingLocked DEF FundsInv

LEMMA GroupsEndStep ==
  ASSUME FundsInv, GroupsEnd, accepted' = Nothing
  PROVE  FundsInv'
<1>1. ScalarsSound'
  BY ScalarsKept DEF GroupsEnd, FundsInv, ScalarsSound
<1>2. GroupsSound'
  BY GroupsKept DEF GroupsEnd, FundsInv
<1>3. LoadPhase'
  BY DEF GroupsEnd, LoadPhase
<1> QED  BY <1>1, <1>2, <1>3, NothingLocked DEF FundsInv

LEMMA LoadStep ==
  ASSUME FundsInv, Load
  PROVE  FundsInv'
<1>1. accepted' = Nothing /\ TlvNext
  BY DEF Load
<1>2. ASSUME NEW tag \in Tags, NEW value \in HostValues(tag),
             \/ ScalarField(tag, value)
             \/ ScalarFieldRejected(tag, value)
             \/ GroupField(tag, value)
             \/ GroupStored(tag, value)
             \/ GroupFieldRejected(tag, value)
             \/ GroupRejected(tag, value)
      PROVE  FundsInv'
  <2>1. CASE ScalarField(tag, value)
    BY <1>1, <2>1, ScalarFieldStep
  <2>2. CASE ScalarFieldRejected(tag, value)
    BY <1>1, <2>2, AfterWipe DEF ScalarFieldRejected
  <2>3. CASE GroupField(tag, value)
    BY <1>1, <2>3, GroupFieldStep
  <2>4. CASE GroupStored(tag, value)
    BY <1>1, <2>4, GroupStoredStep
  <2>5. CASE GroupFieldRejected(tag, value)
    BY <1>1, <2>5, AfterWipe DEF GroupFieldRejected
  <2>6. CASE GroupRejected(tag, value)
    BY <1>1, <2>6, AfterWipe DEF GroupRejected
  <2> QED  BY <1>2, <2>1, <2>2, <2>3, <2>4, <2>5, <2>6
<1>3. ASSUME NEW tag \in Tags, NEW form \in Malformed,
             \/ ScalarFieldMalformed(tag, form)
             \/ GroupFieldMalformed(tag, form)
      PROVE  FundsInv'
  <2>1. CASE ScalarFieldMalformed(tag, form)
    BY <1>1, <2>1, AfterWipe DEF ScalarFieldMalformed
  <2>2. CASE GroupFieldMalformed(tag, form)
    BY <1>1, <2>2, AfterWipe DEF GroupFieldMalformed
  <2> QED  BY <1>3, <2>1, <2>2
<1>4. CASE GroupTooMany
  BY <1>1, <1>4, AfterWipe DEF GroupTooMany
<1>5. CASE ScalarsEnd
  BY <1>1, <1>5, ScalarsEndStep
<1>6. CASE ScalarsRejected
  BY <1>1, <1>6, AfterWipe DEF ScalarsRejected
<1>7. CASE GroupCut
  BY <1>1, <1>7, AfterWipe DEF GroupCut
<1>8. CASE GroupsEnd
  BY <1>1, <1>8, GroupsEndStep
<1>9. CASE StartOver
  BY <1>1, <1>9, AfterReset DEF StartOver
<1> QED  BY <1>1, <1>2, <1>3, <1>4, <1>5, <1>6, <1>7, <1>8, <1>9 DEF TlvNext

(* A verdict leaves the intent alone.                                      *)
LEMMA IntentKept ==
  ASSUME FundsInv, UNCHANGED tlvVars
  PROVE  ScalarsSound' /\ GroupsSound' /\ LoadPhase'
<1>1. ScalarsSound'
  BY ScalarsKept DEF tlvVars, FundsInv, ScalarsSound
<1>2. GroupsSound'
  BY GroupsKept DEF tlvVars, FundsInv
<1>3. LoadPhase'
  BY DEF tlvVars, FundsInv, LoadPhase, Fresh
<1> QED  BY <1>1, <1>2, <1>3

LEMMA SignStep ==
  ASSUME FundsInv, Sign
  PROVE  FundsInv'
<1>1. ASSUME NEW tx, SignPrePegIn(tx)
      PROVE  FundsInv'
  <2>1. /\ UNCHANGED tlvVars /\ groups' = groups
        /\ accepted'.outputs = tx.outputs
        /\ HtlcOutputsAcceptable(tx.outputs)
    BY <1>1 DEF SignPrePegIn, tlvVars, PrePegInAcceptable
  <2>2. ASSUME NEW i \in DOMAIN groups
        PROVE  PegInAcceptable(groups[i], tx.outputs[groups[i].htlc_vout + 1].value)
    <3>1. SoundGroup(groups[i])
      BY DEF FundsInv, GroupsSound
    <3>2. /\ HtlcSumsFit(groups[i])
          /\ HtlcValueAcceptable(groups[i], tx.outputs[groups[i].htlc_vout + 1].value)
      BY <2>1 DEF HtlcOutputsAcceptable
    <3> QED  BY <3>1, <3>2, CreatedIsSpendable
  <2>3. HtlcsSpendable'
    BY <2>1, <2>2 DEF HtlcsSpendable, PegInAcceptable, HtlcMinimum, Wrap
  <2> QED  BY <2>1, <2>3, IntentKept DEF FundsInv
<1>2. ASSUME UNCHANGED tlvVars, accepted'.flow # "prepegin"
      PROVE  FundsInv'
  <2>1. HtlcsSpendable'
    BY <1>2 DEF HtlcsSpendable
  <2> QED  BY <1>2, <2>1, IntentKept DEF FundsInv
<1>3. ASSUME NEW i, NEW htlc_value, SignPegIn(i, htlc_value)
      PROVE  FundsInv'
  BY <1>2, <1>3 DEF SignPegIn
<1>4. ASSUME NEW i, NEW tx, SignPayout(i, tx)
      PROVE  FundsInv'
  BY <1>2, <1>4 DEF SignPayout
<1>5. ASSUME NEW tx, SignPayoutFinalize(tx)
      PROVE  FundsInv'
  BY <1>2, <1>5 DEF SignPayoutFinalize
<1>6. ASSUME NEW tx, SignNoPayout(tx)
      PROVE  FundsInv'
  BY <1>2, <1>6 DEF SignNoPayout
<1> QED  BY <1>1, <1>3, <1>4, <1>5, <1>6 DEF Sign

(* The invariant of a load and of what is accepted under it: what is       *)
(* stored passed its checks, each at the width it was made for.            *)
THEOREM FundsInductive == Spec => []FundsInv
<1>1. FundsInv /\ [Next]_vars => FundsInv'
  <2> SUFFICES ASSUME FundsInv, [Next]_vars PROVE FundsInv'
    OBVIOUS
  <2>1. CASE Load
    BY <2>1, LoadStep
  <2>2. CASE Sign
    BY <2>2, SignStep
  <2>3. CASE UNCHANGED vars
    <3>1. UNCHANGED tlvVars /\ accepted' = accepted /\ groups' = groups
      BY <2>3 DEF vars, tlvVars
    <3>2. HtlcsSpendable'
      BY <3>1 DEF FundsInv, HtlcsSpendable, PegInAcceptable, HtlcMinimum, Wrap
    <3> QED  BY <3>1, <3>2, IntentKept DEF FundsInv
  <2> QED  BY <2>1, <2>2, <2>3 DEF Next
<1> QED  BY <1>1, Start, PTL DEF Spec

(* Every number keeps the width it is stored in, and nothing of a rejected *)
(* load is left (vault_group_t, vault_intent_t).                           *)
THEOREM FundsTyped == Spec => []FundsTypeOK
<1>1. FundsInv => FundsTypeOK
  <2> SUFFICES ASSUME FundsInv PROVE FundsTypeOK
    OBVIOUS
  <2>1. \A tag \in DOMAIN scalars \cap Timelocks : scalars[tag] \in 0..(HalfWord - 1)
    BY TimelocksFit DEF FundsInv, ScalarsSound
  <2>2. ASSUME NEW i \in DOMAIN groups
        PROVE  /\ Complete(groups[i])
               /\ groups[i].vault_provider_pk \in ValidKeys
               /\ {groups[i].vault_amount, groups[i].commission_fee,
                   groups[i].depositor_claim_value, groups[i].pegin_max_fee}
                     \subseteq 0..(Word - 1)
    <3>1. SoundGroup(groups[i])
      BY DEF FundsInv, GroupsSound
    <3> QED  BY <3>1 DEF SoundGroup, Amounts
  <2>3. LoadPhase /\ DOMAIN scalars \subseteq ScalarTags
    BY DEF FundsInv, ScalarsSound
  <2> QED  BY <2>1, <2>2, <2>3 DEF FundsTypeOK, LoadPhase, Timelocks
<1> QED  BY <1>1, FundsInductive, PTL

(* An accepted scalar payload carries each field exactly once, and what is *)
(* stored is what was sent (vault_tlv_parse).                              *)
THEOREM ScalarsFaithful == Spec => []ScalarsAsSent
<1>1. FundsInv => ScalarsAsSent
  <2> SUFFICES ASSUME FundsInv, phase \in {"groups", "loaded"}
               PROVE  /\ DOMAIN sent = ScalarTags
                      /\ \A tag \in ScalarTags : sent[tag] = <<scalars[tag]>>
                      /\ sent["depositor_path"][1][2]
                           = [hardened |-> TRUE, n |-> sent["coin_type"][1]]
    BY DEF ScalarsAsSent
  <2>1. DOMAIN scalars = ScalarTags /\ scalars["depositor_path"][2].n = scalars["coin_type"]
    BY DEF FundsInv, ScalarsSound, ScalarsComplete
  <2>2. DOMAIN sent = ScalarTags /\ \A tag \in ScalarTags : sent[tag] = <<scalars[tag]>>
    BY <2>1 DEF FundsInv, ScalarsSound
  <2>3. "depositor_path" \in ScalarTags /\ "coin_type" \in ScalarTags
    BY DEF ScalarTags
  <2> DEFINE path == scalars["depositor_path"]
  <2>4. path \in HostValues("depositor_path") /\ ScalarAcceptable("depositor_path", path)
    BY <2>1, <2>3 DEF FundsInv, ScalarsSound
  <2>5. path[2] \in [hardened: BOOLEAN, n: Nat]
    <3> HIDE DEF path
    <3>1. path \in [1..5 -> [hardened: BOOLEAN, n: Nat]]
      BY <2>4, HostAssumption DEF HostAssumption
    <3> QED  BY <3>1
  <2>6. path[2].hardened
    <3> HIDE DEF path
    <3> QED  BY <2>4 DEF ScalarAcceptable, PathAcceptable
  <2>7. path[2] = [hardened |-> TRUE, n |-> scalars["coin_type"]]
    <3>1. path[2].n = scalars["coin_type"]
      BY <2>1
    <3> HIDE DEF path
    <3> QED  BY <2>5, <2>6, <3>1
  <2>8. sent["depositor_path"][1] = path /\ sent["coin_type"][1] = scalars["coin_type"]
    BY <2>2, <2>3
  <2> HIDE DEF path
  <2> QED  BY <2>2, <2>7, <2>8
<1> QED  BY <1>1, FundsInductive, PTL

(* A loaded vault covers its commission and both dust outputs, counted     *)
(* without wrapping, at every width of the amounts.                        *)
THEOREM CommissionIsCovered == Spec => []CommissionCovered
<1>1. FundsInv => CommissionCovered
  BY RoomMeans DEF FundsInv, GroupsSound, CommissionCovered
<1> QED  BY <1>1, FundsInductive, PTL

(* Whatever amounts a group holds, an HTLC the Pre-PegIn validator accepts *)
(* is one the PegIn validator accepts, wrapped sums included.              *)
THEOREM AcceptedHtlcsSpendable == Spec => []HtlcsSpendable
BY FundsInductive, PTL DEF FundsInv
-----------------------------------------------------------------------------
(* What a sum is. *)

LEMMA SumSteps ==
  ASSUME NEW s \in Seq(Nat)
  PROVE  \E t : /\ \A i \in 0..Len(s) : t[i] \in Nat
                /\ t[0] = 0
                /\ \A i \in 1..Len(s) : t[i] = t[i - 1] + s[i]
                /\ Sum(s) = t[Len(s)]
<1> DEFINE n == Len(s)
           D == 1..n
           iter == CHOOSE f : f = [S \in SUBSET (DOMAIN s) |->
                                     IF S = {} THEN 0 ELSE f[S \ {Max(S)}] + s[Max(S)]]
           c == [S \in SUBSET D |-> Max(S)]
           h == [p \in D \X Nat |-> p[2] + s[p[1]]]
<1>1. Sum(s) = iter[DOMAIN s]
  BY DEF Sum, FoldLeft, MapThenFoldSet
<1>2. n \in Nat /\ DOMAIN s = D /\ \A i \in D : s[i] \in Nat
  OBVIOUS
<1>3. \A S \in SUBSET D : S # {} => c[S] = Max(S) /\ Max(S) \in S
  BY <1>2, MaxAmong
<1>4. PICK f \in [SUBSET D -> Nat] : IsFold(f, D, 0, h, c)
  <2>1. IsFiniteSet(D)
    BY <1>2, FS_Interval
  <2>2. h \in [D \X Nat -> Nat] /\ 0 \in Nat
    BY <1>2
  <2>3. Chooses(c, D)
    BY <1>3 DEF Chooses
  <2> HIDE DEF D, h, c
  <2> QED
    BY <2>1, <2>2, <2>3, FoldExists
<1>5. f = [S \in SUBSET (DOMAIN s) |-> IF S = {} THEN 0 ELSE f[S \ {Max(S)}] + s[Max(S)]]
  <2> USE DEF IsFold
  <2>1. ASSUME NEW S \in SUBSET D
        PROVE  f[S] = IF S = {} THEN 0 ELSE f[S \ {Max(S)}] + s[Max(S)]
    <3>1. CASE S = {}
      BY <1>4, <3>1
    <3>2. CASE S # {}
      <4>1. c[S] = Max(S) /\ Max(S) \in D /\ S \ {Max(S)} \in SUBSET D
        BY <1>3, <3>2
      <4>2. f[S] = h[<<c[S], f[S \ {c[S]}]>>]
        BY <1>4, <3>2
      <4>3. f[S \ {Max(S)}] \in Nat
        BY <1>4, <4>1
      <4> QED
        BY <3>2, <4>1, <4>2, <4>3
    <3> QED
      BY <3>1, <3>2
  <2>2. f = [S \in SUBSET D |-> f[S]]
    BY <1>4
  <2> HIDE DEF c, h, D
  <2> QED
    BY <2>1, <2>2, <1>2
<1>6. iter = [S \in SUBSET (DOMAIN s) |->
               IF S = {} THEN 0 ELSE iter[S \ {Max(S)}] + s[Max(S)]]
  BY <1>5, Zenon
<1> HIDE DEF iter
<1>7. \A S \in SUBSET D : iter[S] \in Nat
  <2> DEFINE Good == {S \in SUBSET D : iter[S] \in Nat}
  <2>1. {} \in Good
    BY <1>6, <1>2
  <2>2. ASSUME NEW S \in SUBSET D, S # {}, S \ {c[S]} \in Good
        PROVE  S \in Good
    <3>1. c[S] = Max(S) /\ Max(S) \in D
      BY <1>3, <2>2
    <3>2. iter[S] = iter[S \ {Max(S)}] + s[Max(S)]
      BY <1>6, <1>2, <2>2
    <3> QED
      BY <1>2, <2>2, <3>1, <3>2
  <2>3. IsFiniteSet(D)
    BY <1>2, FS_Interval
  <2>4. Chooses(c, D)
    BY <1>3 DEF Chooses
  <2>5. SUBSET D \subseteq Good
    <3>1. Reaches(c, D, Good)
      <4> HIDE DEF Good, D, c
      <4> QED
        BY <2>1, <2>2 DEF Reaches
    <3> HIDE DEF Good, D, c
    <3> QED
      BY <2>3, <2>4, <3>1, SubsetsReached
  <2> QED
    BY <2>5
<1> DEFINE t == [i \in 0..n |-> iter[1..i]]
<1>8. \A i \in 0..n : t[i] \in Nat
  <2>1. \A i \in 0..n : 1..i \in SUBSET D
    BY <1>2
  <2> QED
    BY <1>7, <2>1
<1>9. t[0] = 0
  <2>1. 1..0 = {} /\ 0 \in 0..n
    BY <1>2
  <2> QED
    BY <1>2, <1>6, <2>1
<1>10. ASSUME NEW i \in 1..n
       PROVE  t[i] = t[i - 1] + s[i]
  <2> DEFINE S == 1..i
  <2>1. S \in SUBSET D /\ S # {} /\ i \in 0..n /\ i - 1 \in 0..n
    BY <1>2
  <2>2. Max(S) = i
    <3>1. Max(S) \in S /\ \A m \in S : m <= Max(S)
      BY <1>2, <2>1, MaxAmong
    <3> QED
      BY <1>2, <3>1
  <2>3. S \ {i} = 1..(i - 1)
    BY <1>2
  <2>4. iter[S] = iter[S \ {Max(S)}] + s[Max(S)]
    BY <1>6, <1>2, <2>1
  <2> QED
    BY <2>1, <2>2, <2>3, <2>4
<1>11. Sum(s) = t[n]
  <2>1. n \in 0..n
    BY <1>2
  <2> QED
    BY <1>1, <1>2, <2>1
<1> HIDE DEF t
<1> QED
  BY <1>8, <1>9, <1>10, <1>11

(* A sum of one, two or three amounts.                                     *)
LEMMA SumTyped ==
  ASSUME NEW s \in Seq(Nat)
  PROVE  /\ Sum(s) \in Nat
         /\ Len(s) = 1 => Sum(s) = s[1]
         /\ Len(s) = 2 => Sum(s) = s[1] + s[2]
         /\ Len(s) = 3 => Sum(s) = s[1] + s[2] + s[3]
<1> PICK t : /\ \A i \in 0..Len(s) : t[i] \in Nat
             /\ t[0] = 0
             /\ \A i \in 1..Len(s) : t[i] = t[i - 1] + s[i]
             /\ Sum(s) = t[Len(s)]
  BY SumSteps
<1>1. Sum(s) \in Nat
  <2>1. Len(s) \in 0..Len(s)
    OBVIOUS
  <2> QED
    BY <2>1
<1>2. \A i \in 1..Len(s) : s[i] \in Nat
  BY ElementOfSeq
<1>3. ASSUME Len(s) = 1 PROVE Sum(s) = s[1]
  <2>1. t[1] = t[0] + s[1] /\ s[1] \in Nat
    BY <1>2, <1>3
  <2> QED
    BY <1>3, <2>1
<1>4. ASSUME Len(s) = 2 PROVE Sum(s) = s[1] + s[2]
  <2>1. t[1] = t[0] + s[1] /\ t[2] = t[1] + s[2] /\ s[1] \in Nat
    BY <1>2, <1>4
  <2> QED
    BY <1>4, <2>1
<1>5. ASSUME Len(s) = 3 PROVE Sum(s) = s[1] + s[2] + s[3]
  <2>1. t[1] = t[0] + s[1] /\ t[2] = t[1] + s[2] /\ t[3] = t[2] + s[3] /\ s[1] \in Nat
    BY <1>2, <1>5
  <2> QED
    BY <1>5, <2>1
<1> QED
  BY <1>1, <1>3, <1>4, <1>5

-----------------------------------------------------------------------------
(* The bounds of the validators, at every width. *)

LEMMA ProductGrows ==
  ASSUME NEW a \in Nat, NEW b \in Nat, NEW c \in Nat, NEW d \in Nat, a <= b, c <= d
  PROVE  a * c \in Nat /\ a * c <= b * d
<1>1. a * c <= b * c
  OBVIOUS
<1>2. b * c <= b * d
  OBVIOUS
<1>3. a * c \in Nat /\ b * c \in Nat /\ b * d \in Nat
  OBVIOUS
<1> DEFINE x == a * c
           y == b * c
           z == b * d
<1> HIDE DEF x, y, z
<1>4. x \in Nat /\ x <= z
  <2>1. x <= y /\ y <= z /\ x \in Nat /\ y \in Nat /\ z \in Nat
    BY <1>1, <1>2, <1>3 DEF x, y, z
  <2> QED  BY <2>1
<1> QED  BY <1>4 DEF x, z

(* A product within the width is not taken for one that wraps.             *)
LEMMA ProductFits ==
  ASSUME NEW w \in Nat, NEW r \in Nat, NEW v \in Nat, r >= 1, r * v < w
  PROVE  ~(v > (w - 1) \div r)
<1> DEFINE q == (w - 1) \div r
<1>1. q \in Nat /\ r * q <= w - 1 /\ w - 1 < r * (q + 1)
  OBVIOUS
<1> HIDE DEF q
<1>2. ASSUME v > q
      PROVE  FALSE
  <2>1. r * (q + 1) <= r * v
    BY <1>1, <1>2, ProductGrows
  <2> QED  BY <1>1, <2>1
<1> QED  BY <1>2 DEF q

(* A sum of two that is not below the first did not wrap.                  *)
LEMMA SumFits ==
  ASSUME NEW w \in Nat, NEW a \in 0..(w - 1), NEW b \in 0..(w - 1)
  PROVE  (a + b) % w >= a <=> a + b < w
<1>1. CASE a + b < w
  BY <1>1, NoWrap
<1>2. CASE a + b >= w
  <2>1. (a + b) % w = a + b - w
    BY <1>2
  <2> QED  BY <1>2, <2>1
<1> QED  BY <1>1, <1>2

(* The scalars of a load, once they are complete.                          *)
LEMMA RatesLegal ==
  ASSUME ScalarsSound, phase = "loaded"
  PROVE  /\ Rate \in Nat /\ Rate >= 1 /\ Rate <= MaxRate
         /\ scalars["keeper_count"] \in Nat /\ scalars["keeper_count"] <= MaxKeepers
         /\ scalars["challenger_count"] \in Nat
         /\ scalars["challenger_count"] <= MaxChallengers
         /\ scalars["prepegin_max_fee"] \in Nat
<1>1. \A tag \in ScalarTags : ScalarAcceptable(tag, scalars[tag])
  BY DEF ScalarsSound, ScalarsComplete
<1>2. {"base_fee_rate", "keeper_count", "challenger_count", "prepegin_max_fee"}
        \subseteq ScalarTags
  BY DEF ScalarTags
<1>3. Rate \in 1..MaxRate
  <2>1. ScalarAcceptable("base_fee_rate", scalars["base_fee_rate"])
    BY <1>1, <1>2
  <2> QED  BY <2>1 DEF ScalarAcceptable, RateInRange, Rate
<1>4. scalars["keeper_count"] \in 1..MaxKeepers
  <2>1. ScalarAcceptable("keeper_count", scalars["keeper_count"])
    BY <1>1, <1>2
  <2> QED  BY <2>1 DEF ScalarAcceptable
<1>5. scalars["challenger_count"] \in 1..MaxChallengers
  <2>1. ScalarAcceptable("challenger_count", scalars["challenger_count"])
    BY <1>1, <1>2
  <2> QED  BY <2>1 DEF ScalarAcceptable
<1>6. scalars["prepegin_max_fee"] \in 1..MaxPrepeginFee
  <2>1. ScalarAcceptable("prepegin_max_fee", scalars["prepegin_max_fee"])
    BY <1>1, <1>2
  <2> QED  BY <2>1 DEF ScalarAcceptable
<1> QED  BY <1>3, <1>4, <1>5, <1>6

(* No bound a validator computes from them wraps.                          *)
LEMMA BoundsFit ==
  ASSUME ScalarsSound, phase = "loaded"
  PROVE  /\ PayoutVsize \in Nat /\ PayoutVsize >= 500 /\ MaxMoney \in Nat
         /\ Rate * PayoutVsize \in Nat /\ Rate * 500 \in Nat
         /\ Rate * 500 <= Rate * PayoutVsize
         /\ MaxMoney + 2 * 546 + Rate * PayoutVsize < Word
         /\ ~ProductWraps(PayoutVsize) /\ ~ProductWraps(500)
<1> DEFINE most == 500 + 55 * (MaxKeepers + MaxChallengers)
           top == MaxRate * most
           r == Rate
           v == PayoutVsize
           ks == scalars["keeper_count"]
           cs == scalars["challenger_count"]
<1>1. /\ r \in Nat /\ r >= 1 /\ r <= MaxRate
      /\ ks \in Nat /\ ks <= MaxKeepers
      /\ cs \in Nat /\ cs <= MaxChallengers
  BY RatesLegal
<1>2. /\ MaxMoney \in Nat /\ MaxRate \in Nat /\ MaxKeepers \in Nat /\ MaxChallengers \in Nat
      /\ MaxMoney + 2 * 546 + top < Word /\ Word \in Nat
  BY MoneyAssumption, Widths
     DEF MoneyAssumption, VAULT_DUST_LIMIT, MAX_PAYOUT_VSIZE_BASE,
         MAX_PAYOUT_VSIZE_PER_PARTICIPANT
<1>3. v = 500 + 55 * (ks + cs)
  BY DEF PayoutVsize, MAX_PAYOUT_VSIZE_BASE, MAX_PAYOUT_VSIZE_PER_PARTICIPANT
<1>4. ProductWraps(v) = (v > (Word - 1) \div r) /\ ProductWraps(500) = (500 > (Word - 1) \div r)
  BY DEF ProductWraps
<1> SUFFICES /\ v \in Nat /\ v >= 500
             /\ r * v \in Nat /\ r * 500 \in Nat
             /\ r * 500 <= r * v
             /\ MaxMoney + 2 * 546 + r * v < Word
             /\ ~(v > (Word - 1) \div r) /\ ~(500 > (Word - 1) \div r)
  BY <1>2, <1>4
<1> HIDE DEF r, v, ks, cs
<1>5. v \in Nat /\ v >= 500 /\ most \in Nat /\ v <= most
  BY <1>1, <1>2, <1>3
<1> HIDE DEF most
<1>6. r * v \in Nat /\ r * v <= top
  BY <1>1, <1>2, <1>5, ProductGrows
<1>7. r * 500 \in Nat /\ r * 500 <= r * v
  BY <1>1, <1>5, ProductGrows
<1>8. top \in Nat
  BY <1>2, <1>5
<1> DEFINE p == r * v
           p0 == r * 500
<1>9. MaxMoney + 2 * 546 + p < Word /\ p < Word /\ p0 < Word
  <2>1. p \in Nat /\ p0 \in Nat /\ p <= top /\ p0 <= p
    BY <1>6, <1>7
  <2> HIDE DEF p, p0, top
  <2> QED  BY <1>2, <1>8, <2>1
<1>10. ~(v > (Word - 1) \div r)
  BY <1>1, <1>2, <1>5, <1>9, ProductFits
<1>11. ~(500 > (Word - 1) \div r)
  BY <1>1, <1>2, <1>9, ProductFits
<1> QED  BY <1>5, <1>6, <1>7, <1>9, <1>10, <1>11

(* The totals of a payout did not wrap just when the sum fits.             *)
LEMMA TotalFitsMeans ==
  ASSUME NEW outputs \in Seq(Amount), Len(outputs) \in {2, 3}
  PROVE  TotalFits(outputs) <=> Sum(outputs) < Word
<1> DEFINE o(i) == outputs[i]
           sums(i) == SubSeq(outputs, 1, i)
<1>1. \A i \in 1..Len(outputs) : o(i) \in 0..(Word - 1)
  BY ElementOfSeq DEF Amount
<1>2. outputs \in Seq(Nat) /\ Word \in Nat /\ Word > 0
  BY Widths DEF Amount
<1>3. ASSUME NEW i \in 1..Len(outputs)
      PROVE  /\ sums(i) \in Seq(Nat) /\ Len(sums(i)) = i
             /\ \A k \in 1..i : sums(i)[k] = o(k)
  <2>1. /\ SubSeq(outputs, 0 + 1, i) \in Seq(Nat) /\ Len(SubSeq(outputs, 0 + 1, i)) = i - 0
        /\ \A k \in 1..(i - 0) : SubSeq(outputs, 0 + 1, i)[k] = outputs[0 + k]
    <3>1. i \in Nat /\ 0 <= i /\ i <= Len(outputs)
      OBVIOUS
    <3>2. SubSeq(outputs, 0 + 1, i) \in Seq(Nat)
      BY <1>2, <3>1, Stretch
    <3>3. Len(SubSeq(outputs, 0 + 1, i)) = i - 0
      BY <1>2, <3>1, Stretch
    <3>4. \A k \in 1..(i - 0) : SubSeq(outputs, 0 + 1, i)[k] = outputs[0 + k]
      BY <1>2, <3>1, Stretch
    <3> QED  BY <3>2, <3>3, <3>4
  <2> QED  BY <2>1
<1>4. Sum(sums(1)) = o(1)
  <2>1. sums(1) \in Seq(Nat) /\ Len(sums(1)) = 1 /\ sums(1)[1] = o(1)
    BY <1>3
  <2> HIDE DEF sums, o
  <2> QED  BY <2>1, SumTyped
<1>5. Sum(sums(2)) = o(1) + o(2)
  <2>1. sums(2) \in Seq(Nat) /\ Len(sums(2)) = 2 /\ sums(2)[1] = o(1) /\ sums(2)[2] = o(2)
    BY <1>3
  <2> HIDE DEF sums, o
  <2> QED  BY <2>1, SumTyped
<1>6. Sum(outputs) = IF Len(outputs) = 2 THEN o(1) + o(2) ELSE o(1) + o(2) + o(3)
  BY <1>2, SumTyped
<1>7. TotalFits(outputs) <=>
        \A i \in 1..(Len(outputs) - 1) :
          ((Sum(sums(i)) % Word) + o(i + 1)) % Word >= Sum(sums(i)) % Word
  BY DEF TotalFits, Wrap
<1>8. o(1) \in 0..(Word - 1) /\ o(2) \in 0..(Word - 1)
  BY <1>1
<1>9. o(1) % Word = o(1)
  BY <1>2, <1>8, NoWrap
<1>10. (o(1) + o(2)) % Word >= o(1) <=> o(1) + o(2) < Word
  BY <1>2, <1>8, SumFits
<1>11. CASE Len(outputs) = 2
  <2>1. 1..(Len(outputs) - 1) = {1}
    BY <1>11
  <2> HIDE DEF sums, o
  <2>2. TotalFits(outputs) <=> ((o(1) % Word) + o(2)) % Word >= o(1) % Word
    BY <1>4, <1>7, <2>1
  <2> QED  BY <1>6, <1>9, <1>10, <1>11, <2>2
<1>12. CASE Len(outputs) = 3
  <2>1. 1..(Len(outputs) - 1) = {1, 2} /\ o(3) \in 0..(Word - 1)
    BY <1>1, <1>12
  <2> DEFINE both == o(1) + o(2)
  <2>2. TotalFits(outputs) <=> /\ ((o(1) % Word) + o(2)) % Word >= o(1) % Word
                               /\ ((both % Word) + o(3)) % Word >= both % Word
    <3> HIDE DEF sums, o
    <3>1. /\ ((Sum(sums(1)) % Word) + o(1 + 1)) % Word >= Sum(sums(1)) % Word
               <=> ((o(1) % Word) + o(2)) % Word >= o(1) % Word
          /\ ((Sum(sums(2)) % Word) + o(2 + 1)) % Word >= Sum(sums(2)) % Word
               <=> ((both % Word) + o(3)) % Word >= both % Word
      <4>1. 1 + 1 = 2 /\ 2 + 1 = 3
        OBVIOUS
      <4> QED  BY <1>4, <1>5, <4>1
    <3> QED  BY <1>7, <2>1, <3>1
  <2>3. both \in Nat
    BY <1>8
  <2>4. CASE both < Word
    <3>1. both \in 0..(Word - 1)
      <4> HIDE DEF both
      <4> QED  BY <1>2, <2>3, <2>4
    <3>2. both % Word = both
      BY <1>2, <3>1, NoWrap
    <3>3. (both + o(3)) % Word >= both <=> both + o(3) < Word
      BY <1>2, <2>1, <3>1, SumFits
    <3> QED  BY <1>6, <1>9, <1>10, <1>12, <2>2, <2>4, <3>2, <3>3
  <2>5. CASE ~(both < Word)
    <3>1. ~TotalFits(outputs)
      BY <1>9, <1>10, <2>2, <2>5
    <3>2. ~(both + o(3) < Word)
      <4>1. o(3) \in Nat
        BY <2>1
      <4> HIDE DEF both, o
      <4> QED  BY <1>2, <2>3, <2>5, <4>1
    <3> QED  BY <1>6, <1>12, <3>1, <3>2
  <2> QED  BY <2>4, <2>5
<1> QED  BY <1>11, <1>12

-----------------------------------------------------------------------------
(* What an accepted transaction leaves to the miners. *)

PegInFeeBounded(g, htlc_value) ==
  htlc_value - (g.vault_amount + g.depositor_claim_value + P2A_ANCHOR_VALUE)
    \in 0..g.pegin_max_fee

LEMMA PegInFee ==
  ASSUME NEW g, SoundGroup(g), NEW value \in Amount, PegInAcceptable(g, value)
  PROVE  PegInFeeBounded(g, value)
<1> DEFINE va == g.vault_amount
           dc == g.depositor_claim_value
           fee == g.pegin_max_fee
           sum == va + dc
<1>1. /\ va \in 0..(Word - 1) /\ dc \in 0..(Word - 1) /\ fee \in 0..(Word - 1)
      /\ value \in 0..(Word - 1)
  BY DEF SoundGroup, Amounts, Amount
<1>2. /\ sum % Word >= va
      /\ ((sum % Word) + 240) % Word >= 240
      /\ value >= ((sum % Word) + 240) % Word
      /\ value - (((sum % Word) + 240) % Word) <= fee
  BY DEF PegInAcceptable, HtlcMinimum, Wrap, P2A_ANCHOR_VALUE
<1> SUFFICES value - (va + dc + 240) \in 0..fee
  BY DEF PegInFeeBounded, P2A_ANCHOR_VALUE
<1> HIDE DEF va, dc, fee
<1>3. sum < Word
  BY <1>1, <1>2, Widths, SumFits
<1>4. sum \in 0..(Word - 1) /\ sum % Word = sum
  <2>1. sum \in 0..(Word - 1)
    BY <1>1, <1>3, Widths
  <2> QED  BY <2>1, Widths, NoWrap
<1>5. 240 + sum < Word
  <2>1. 240 \in 0..(Word - 1)
    BY Widths
  <2>2. (240 + sum) % Word >= 240
    BY <1>1, <1>2, <1>4
  <2> QED  BY <1>4, <2>1, <2>2, Widths, SumFits
<1>6. (sum + 240) % Word = sum + 240
  <2>1. sum + 240 \in 0..(Word - 1)
    BY <1>4, <1>5, Widths
  <2> QED  BY <2>1, Widths, NoWrap
<1> QED  BY <1>1, <1>2, <1>4, <1>6, Widths

PayoutFeeBounded(va, assert0, outputs) ==
  va <= MaxMoney =>
    /\ va + assert0 - Sum(outputs) \in 1..(Rate * PayoutVsize)
    /\ assert0 - VAULT_DUST_LIMIT \in 0..(Rate * MAX_COUNCIL_NOPAYOUT_VSIZE)

LEMMA Assert0Bounded ==
  ASSUME ScalarsSound, phase = "loaded", NEW value \in Amount, Assert0Acceptable(value)
  PROVE  value - 546 \in 0..(Rate * 500)
<1> DEFINE top == Rate * 500
           all == Rate * PayoutVsize
<1>1. /\ top \in Nat /\ all \in Nat /\ top <= all /\ MaxMoney \in Nat
      /\ MaxMoney + 2 * 546 + all < Word /\ ~ProductWraps(500)
  BY BoundsFit
<1>2. value >= 546 /\ value <= Wrap(546 + top)
  BY <1>1 DEF Assert0Acceptable, VAULT_DUST_LIMIT, MAX_COUNCIL_NOPAYOUT_VSIZE
<1>3. value \in 0..(Word - 1)
  BY DEF Amount
<1> HIDE DEF top, all
<1>4. Wrap(546 + top) = 546 + top
  <2>1. 546 + top \in 0..(Word - 1)
    BY <1>1, Widths
  <2> QED  BY <2>1, Widths, NoWrap DEF Wrap
<1>5. value - 546 \in 0..top
  BY <1>1, <1>2, <1>3, <1>4, Widths
<1> QED  BY <1>5 DEF top

LEMMA PayoutFee ==
  ASSUME ScalarsSound, phase = "loaded", NEW g, SoundGroup(g), NEW claimer,
         NEW assert0 \in Amount, NEW outputs \in Seq(Amount),
         PayoutAcceptable(g, claimer, assert0, outputs)
  PROVE  PayoutFeeBounded(g.vault_amount, assert0, outputs)
<1> SUFFICES ASSUME g.vault_amount <= MaxMoney
             PROVE  /\ g.vault_amount + assert0 - Sum(outputs) \in 1..(Rate * PayoutVsize)
                    /\ assert0 - 546 \in 0..(Rate * 500)
  BY DEF PayoutFeeBounded, VAULT_DUST_LIMIT, MAX_COUNCIL_NOPAYOUT_VSIZE
<1> DEFINE va == g.vault_amount
           total == Sum(outputs)
           top == Rate * 500
           all == Rate * PayoutVsize
<1>1. assert0 - 546 \in 0..top
  BY Assert0Bounded DEF PayoutAcceptable
<1>2. /\ top \in Nat /\ all \in Nat /\ top <= all /\ MaxMoney \in Nat
      /\ MaxMoney + 2 * 546 + all < Word
  BY BoundsFit
<1>3. va \in 0..(Word - 1) /\ va <= MaxMoney /\ assert0 \in 0..(Word - 1)
  BY DEF SoundGroup, Amounts, Amount
<1>4. total \in Nat
  <2>1. outputs \in Seq(Nat)
    BY Widths DEF Amount
  <2> QED  BY <2>1, SumTyped
<1>5. total < Word
  <2>1. Len(outputs) \in {2, 3} /\ TotalFits(outputs)
    BY DEF PayoutAcceptable, PayoutOutputsAcceptable
  <2> QED  BY <2>1, TotalFitsMeans
<1>6. /\ total % Word < (va + assert0) % Word
      /\ ((va + assert0) % Word) - (total % Word) <= all
  BY DEF PayoutAcceptable, FeeAtMost, Wrap
<1> HIDE DEF va, total, top, all
<1>7. total % Word = total
  <2>1. total \in 0..(Word - 1)
    BY <1>4, <1>5, Widths
  <2> QED  BY <2>1, Widths, NoWrap
<1>8. (va + assert0) % Word = va + assert0
  <2>1. va + assert0 \in 0..(Word - 1)
    BY <1>1, <1>2, <1>3, Widths
  <2> QED  BY <2>1, Widths, NoWrap
<1>9. va + assert0 - total \in 1..all
  BY <1>2, <1>3, <1>4, <1>6, <1>7, <1>8, Widths
<1> QED  BY <1>1, <1>9 DEF va, total, top, all

LEMMA NoPayoutFee ==
  ASSUME ScalarsSound, phase = "loaded",
         NEW inputs \in Seq(Amount), NEW outputs \in Seq(Amount),
         Sum(outputs) <= Sum(inputs),
         FeeAtMost(Sum(inputs) - Sum(outputs), MAX_NOPAYOUT_VSIZE)
  PROVE  Sum(inputs) - Sum(outputs) \in 0..(Rate * MAX_NOPAYOUT_VSIZE)
<1>1. inputs \in Seq(Nat) /\ outputs \in Seq(Nat)
  BY Widths DEF Amount
<1>2. Sum(inputs) \in Nat /\ Sum(outputs) \in Nat
  BY <1>1, SumTyped
<1>3. Sum(inputs) - Sum(outputs) <= Rate * MAX_NOPAYOUT_VSIZE
  BY DEF FeeAtMost
<1>4. Rate * MAX_NOPAYOUT_VSIZE \in Nat
  BY RatesLegal DEF MAX_NOPAYOUT_VSIZE
<1> DEFINE ins == Sum(inputs)
           outs == Sum(outputs)
           top == Rate * MAX_NOPAYOUT_VSIZE
<1> HIDE DEF ins, outs, top
<1>5. ins - outs \in 0..top
  <2>1. ins \in Nat /\ outs \in Nat /\ top \in Nat /\ outs <= ins /\ ins - outs <= top
    BY <1>2, <1>3, <1>4 DEF ins, outs, top
  <2> QED  BY <2>1
<1> QED  BY <1>5 DEF ins, outs, top

LEMMA PayoutFinalizeFee ==
  ASSUME ScalarsSound, phase = "loaded", SoundGroup(groups[1]), Len(groups) = 1,
         NEW assert0 \in Amount, NEW outputs \in Seq(Amount), Len(outputs) = 2,
         PayoutFinalizeAcceptable(assert0, outputs)
  PROVE  groups[1].vault_amount - VAULT_DUST_LIMIT - outputs[1]
           \in 1..(Rate * MAX_PAYOUTFINALIZE_VSIZE)
<1> DEFINE va == groups[1].vault_amount
           out == outputs[1]
           top == Rate * 500
<1>1. /\ out < (va - 546) % Word
      /\ (va - 546 - out) % Word <= top
  BY DEF PayoutFinalizeAcceptable, FeeAtMost, Wrap, VAULT_DUST_LIMIT,
         MAX_PAYOUTFINALIZE_VSIZE
<1>2. out \in 0..(Word - 1)
  <2>1. 1 \in 1..Len(outputs)
    OBVIOUS
  <2>2. out \in Amount
    BY <2>1, ElementOfSeq
  <2> QED  BY <2>2 DEF Amount
<1>3. va \in 0..(Word - 1)
  BY DEF SoundGroup, Amounts
<1>4. va > 2 * 546
  <2>1. va > groups[1].commission_fee + 2 * 546
    BY RoomMeans DEF VAULT_DUST_LIMIT
  <2>2. groups[1].commission_fee \in Nat
    BY Widths DEF SoundGroup, Amounts
  <2> HIDE DEF va
  <2> QED  BY <1>3, <2>1, <2>2
<1>5. top \in Nat
  BY RatesLegal
<1> SUFFICES va - 546 - out \in 1..top
  BY DEF VAULT_DUST_LIMIT, MAX_PAYOUTFINALIZE_VSIZE
<1> HIDE DEF va, out, top
<1>6. (va - 546) % Word = va - 546
  <2>1. va - 546 \in 0..(Word - 1)
    BY <1>3, <1>4, Widths
  <2> QED  BY <2>1, Widths, NoWrap
<1>7. (va - 546 - out) % Word = va - 546 - out
  <2>1. va - 546 - out \in 0..(Word - 1)
    BY <1>1, <1>2, <1>3, <1>4, <1>6, Widths
  <2> QED  BY <2>1, Widths, NoWrap
<1> QED  BY <1>1, <1>2, <1>3, <1>5, <1>6, <1>7, Widths

LEMMA PrePegInFee ==
  ASSUME ScalarsSound, phase = "loaded", NEW outputs \in Seq(Output),
         NEW inputs_total \in Amount, Sum(Values(outputs)) <= inputs_total,
         inputs_total - Sum(Values(outputs)) <= scalars["prepegin_max_fee"]
  PROVE  inputs_total - Sum(Values(outputs)) \in 0..scalars["prepegin_max_fee"]
<1> DEFINE total == Sum(Values(outputs))
           top == scalars["prepegin_max_fee"]
<1>1. total \in Nat
  <2>1. Values(outputs) \in Seq(Nat)
    <3>1. \A i \in DOMAIN outputs : outputs[i].value \in Nat
      <4>1. \A i \in 1..Len(outputs) : outputs[i] \in Output
        BY ElementOfSeq
      <4>2. DOMAIN outputs = 1..Len(outputs)
        OBVIOUS
      <4> QED  BY <4>1, <4>2, Widths DEF Output, Amount
    <3>2. DOMAIN outputs = 1..Len(outputs) /\ Len(outputs) \in Nat
      OBVIOUS
    <3> QED  BY <3>1, <3>2 DEF Values
  <2> QED  BY <2>1, SumTyped
<1>2. inputs_total \in Nat /\ top \in Nat
  BY RatesLegal, Widths DEF Amount
<1>3. total <= inputs_total /\ inputs_total - total <= top
  OBVIOUS
<1> HIDE DEF total, top
<1>4. inputs_total - total \in 0..top
  BY <1>1, <1>2, <1>3
<1> QED  BY <1>4 DEF total, top

(* A verdict and the intent it was given under.                            *)
LEMMA FeesStep ==
  ASSUME FundsInv, FeesWithinBounds, [Next]_vars
  PROVE  FeesWithinBounds'
<1>1. CASE Load
  <2>1. accepted'.flow = "none"
    BY <1>1 DEF Load, Nothing
  <2> QED  BY <2>1 DEF FeesWithinBounds
<1>2. CASE UNCHANGED vars
  <2>1. accepted' = accepted /\ groups' = groups /\ scalars' = scalars
    BY <1>2 DEF vars
  <2> QED  BY <2>1 DEF FeesWithinBounds, Rate, PayoutVsize
<1>3. CASE phase = "loaded" /\ Sign
  <2>1. ScalarsSound /\ phase = "loaded" /\ \A i \in DOMAIN groups : SoundGroup(groups[i])
    BY <1>3 DEF FundsInv, GroupsSound
  <2>2. ASSUME NEW tx, SignPrePegIn(tx)
        PROVE  FeesWithinBounds'
    <3>1. /\ tx.outputs \in Seq(Output) /\ tx.inputs_total \in Amount
          /\ Sum(Values(tx.outputs)) <= tx.inputs_total
          /\ tx.inputs_total - Sum(Values(tx.outputs)) <= scalars["prepegin_max_fee"]
      BY <2>2 DEF SignPrePegIn, PrePegInAcceptable
    <3>2. tx.inputs_total - Sum(Values(tx.outputs)) \in 0..scalars["prepegin_max_fee"]
      BY <2>1, <3>1, PrePegInFee
    <3>3. /\ scalars' = scalars
          /\ accepted' = [flow |-> "prepegin", outputs |-> tx.outputs,
                          change_allowed |-> tx.change_allowed,
                          inputs_total |-> tx.inputs_total]
      BY <2>2 DEF SignPrePegIn, tlvVars
    <3>4. /\ accepted'.flow = "prepegin" /\ accepted'.outputs = tx.outputs
          /\ accepted'.inputs_total = tx.inputs_total
      BY <3>3
    <3> QED  BY <3>2, <3>3, <3>4 DEF FeesWithinBounds
  <2>3. ASSUME NEW i \in DOMAIN groups, NEW htlc_value, SignPegIn(i, htlc_value)
        PROVE  FeesWithinBounds'
    <3>1. PegInFeeBounded(groups[i], htlc_value)
      BY <2>1, <2>3, PegInFee DEF SignPegIn
    <3>2. /\ groups' = groups /\ accepted'.flow = "pegin" /\ accepted'.group = i
          /\ accepted'.htlc_value = htlc_value
      BY <2>3 DEF SignPegIn, tlvVars
    <3> QED  BY <3>1, <3>2 DEF FeesWithinBounds, PegInFeeBounded
  <2>4. ASSUME NEW i \in DOMAIN groups, NEW tx, SignPayout(i, tx)
        PROVE  FeesWithinBounds'
    <3>1. PayoutFeeBounded(groups[i].vault_amount, tx.assert0, tx.outputs)
      BY <2>1, <2>4, PayoutFee DEF SignPayout
    <3>2. /\ groups' = groups /\ scalars' = scalars
          /\ accepted'.flow = "payout" /\ accepted'.group = i
          /\ accepted'.assert0 = tx.assert0 /\ accepted'.outputs = tx.outputs
      BY <2>4 DEF SignPayout, tlvVars
    <3> QED  BY <3>1, <3>2 DEF FeesWithinBounds, PayoutFeeBounded, Rate, PayoutVsize
  <2>5. ASSUME NEW tx, SignPayoutFinalize(tx)
        PROVE  FeesWithinBounds'
    <3>1. ASSUME Len(groups) = 1
          PROVE  groups[1].vault_amount - VAULT_DUST_LIMIT - tx.outputs[1]
                   \in 1..(Rate * MAX_PAYOUTFINALIZE_VSIZE)
      <4>1. SoundGroup(groups[1])
        BY <2>1, <3>1 DEF FundsInv, GroupsSound
      <4> QED  BY <2>1, <2>5, <3>1, <4>1, PayoutFinalizeFee DEF SignPayoutFinalize
    <3>2. /\ groups' = groups /\ scalars' = scalars
          /\ accepted'.flow = "payout_finalize" /\ accepted'.outputs = tx.outputs
      BY <2>5 DEF SignPayoutFinalize, tlvVars
    <3> QED  BY <3>1, <3>2 DEF FeesWithinBounds, Rate
  <2>6. ASSUME NEW tx, SignNoPayout(tx)
        PROVE  FeesWithinBounds'
    <3>1. Sum(tx.inputs) - Sum(tx.outputs) \in 0..(Rate * MAX_NOPAYOUT_VSIZE)
      BY <2>1, <2>6, NoPayoutFee DEF SignNoPayout
    <3>2. /\ scalars' = scalars /\ accepted'.flow = "nopayout"
          /\ accepted'.inputs = tx.inputs /\ accepted'.outputs = tx.outputs
      BY <2>6 DEF SignNoPayout, tlvVars
    <3> QED  BY <3>1, <3>2 DEF FeesWithinBounds, Rate
  <2> QED  BY <1>3, <2>2, <2>3, <2>4, <2>5, <2>6 DEF Sign
<1> QED  BY <1>1, <1>2, <1>3 DEF Next

(* What an accepted transaction leaves to the miners, counted without      *)
(* wrapping, is within the bound of its flow, at every width and whatever  *)
(* the host says its inputs and outputs hold.                              *)
THEOREM FeesBounded == Spec => []FeesWithinBounds
<1>1. Init => FeesWithinBounds
  BY DEF Init, Nothing, FeesWithinBounds
<1>2. FundsInv /\ FeesWithinBounds /\ [Next]_vars => FeesWithinBounds'
  BY FeesStep
<1> QED  BY <1>1, <1>2, FundsInductive, PTL DEF Spec

-----------------------------------------------------------------------------
(* No vault is stuck. *)

OneMore(x, s, t, T) ==
  /\ t \in Seq(T) /\ Len(t) = 1 + Len(s)
  /\ t[1] = x
  /\ \A k \in 1..Len(s) : t[1 + k] = s[k]

LEMMA Prepended ==
  ASSUME NEW T, NEW x \in T, NEW s \in Seq(T)
  PROVE  OneMore(x, s, <<x>> \o s, T)
<1> DEFINE a == <<x>>
<1>1. Len(a) = 1 /\ a[1] = x
  OBVIOUS
<1> HIDE DEF a
<1>6. a \in Seq(T)
  BY DEF a
<1>2. a \o s \in Seq(T) /\ Len(a \o s) = Len(a) + Len(s)
  BY <1>6, ConcatAt
<1>3. \A m \in 1..Len(a) : (a \o s)[m] = a[m]
  BY <1>6, ConcatAt
<1>4. \A k \in 1..Len(s) : (a \o s)[Len(a) + k] = s[k]
  BY <1>6, ConcatAt
<1>5. OneMore(x, s, a \o s, T)
  <2>1. (a \o s)[1] = x
    BY <1>1, <1>3
  <2> QED  BY <1>1, <1>2, <1>4, <2>1 DEF OneMore
<1> QED  BY <1>5 DEF a

(* A payout that leaves one satoshi to the miners.                         *)
LEMMA CheapestPayout ==
  ASSUME ScalarsSound, phase = "loaded", NEW g, SoundGroup(g), NEW claimer, NEW assert0,
         assert0 \in {VAULT_DUST_LIMIT, VAULT_DUST_LIMIT + Rate * MAX_COUNCIL_NOPAYOUT_VSIZE},
         g.vault_amount + assert0 <= MaxMoney,
         NEW others,
         others = IF claimer = 0 THEN <<g.commission_fee, VAULT_DUST_LIMIT>>
                                 ELSE <<VAULT_DUST_LIMIT>>
  PROVE  PayoutAcceptable(g, claimer, assert0,
                          <<g.vault_amount + assert0 - 1 - Sum(others)>> \o others)
<1> DEFINE va == g.vault_amount
           fee == g.commission_fee
           first == va + assert0 - 1 - Sum(others)
           outputs == <<first>> \o others
           top == Rate * 500
           all == Rate * PayoutVsize
<1>1. /\ top \in Nat /\ all \in Nat /\ top <= all /\ MaxMoney \in Nat
      /\ MaxMoney + 2 * 546 + all < Word
      /\ ~ProductWraps(PayoutVsize)
  BY BoundsFit
<1>2. assert0 = 546 \/ assert0 = 546 + top
  BY DEF VAULT_DUST_LIMIT, MAX_COUNCIL_NOPAYOUT_VSIZE
<1>3. assert0 \in Nat /\ assert0 >= 546 /\ assert0 <= 546 + top
  <2> HIDE DEF top
  <2> QED  BY <1>1, <1>2
<1>4. va \in Nat /\ fee \in Nat /\ fee >= 546 /\ va > fee + 2 * 546 /\ va + assert0 <= MaxMoney
  BY RoomMeans, Widths DEF SoundGroup, Amounts, VAULT_DUST_LIMIT
<1>5. Rate \in Nat /\ Rate >= 1 /\ PayoutVsize \in Nat /\ PayoutVsize >= 500
  BY RatesLegal, BoundsFit
<1>6. 1 <= all
  <2>1. 1 * 500 <= all
    BY <1>5, ProductGrows
  <2> HIDE DEF all
  <2> QED  BY <1>1, <2>1
<1>7. Assert0Acceptable(assert0)
  <2>1. 546 + top \in 0..(Word - 1)
    <3> HIDE DEF top, all
    <3> QED  BY <1>1, Widths
  <2>2. Wrap(546 + top) = 546 + top
    BY <2>1, Widths, NoWrap DEF Wrap
  <2> QED
    BY <1>3, <2>2 DEF Assert0Acceptable, VAULT_DUST_LIMIT, MAX_COUNCIL_NOPAYOUT_VSIZE
<1>8. /\ Len(others) \in {1, 2} /\ others \in Seq(Nat)
      /\ Sum(others) = IF claimer = 0 THEN fee + 546 ELSE 546
  <2>1. CASE claimer = 0
    <3>1. others = <<fee, 546>>
      BY <2>1 DEF VAULT_DUST_LIMIT
    <3>2. others \in Seq(Nat) /\ Len(others) = 2 /\ others[1] = fee /\ others[2] = 546
      <4> HIDE DEF fee
      <4> QED  BY <1>4, <3>1
    <3>3. Sum(others) = fee + 546
      <4>1. others \in Seq(Nat) /\ Len(others) = 2
        BY <3>2
      <4>2. Sum(others) = others[1] + others[2]
        BY <4>1, SumTyped, Zenon
      <4> QED  BY <3>2, <4>2
    <3> QED  BY <2>1, <3>2, <3>3
  <2>2. CASE claimer # 0
    <3>1. others = <<546>>
      BY <2>2 DEF VAULT_DUST_LIMIT
    <3>2. others \in Seq(Nat) /\ Len(others) = 1 /\ others[1] = 546
      BY <3>1
    <3> QED  BY <2>2, <3>2, SumTyped
  <2> QED  BY <2>1, <2>2
<1>9. first \in Nat /\ first >= 546
  <2>1. Sum(others) \in Nat /\ Sum(others) <= fee + 546
    <3> HIDE DEF fee
    <3> QED  BY <1>4, <1>8
  <2> HIDE DEF va, fee
  <2> QED  BY <1>3, <1>4, <2>1
<1>10. /\ outputs \in Seq(Nat) /\ Len(outputs) = 1 + Len(others)
       /\ outputs[1] = first
       /\ \A k \in 1..Len(others) : outputs[1 + k] = others[k]
  <2>1. OneMore(first, others, outputs, Nat)
    <3> HIDE DEF first
    <3> QED  BY <1>8, <1>9, Prepended
  <2> HIDE DEF outputs, first
  <2> QED  BY <2>1 DEF OneMore
<1> HIDE DEF outputs
<1>11. Sum(outputs) = va + assert0 - 1
  <2>1. CASE claimer = 0
    <3>1. others = <<fee, 546>>
      BY <2>1 DEF VAULT_DUST_LIMIT
    <3>2. Len(outputs) = 3 /\ outputs[2] = fee /\ outputs[3] = 546
      <4>1. Len(others) = 2 /\ others[1] = fee /\ others[2] = 546
        BY <3>1
      <4>2. outputs[1 + 1] = others[1] /\ outputs[1 + 2] = others[2]
        BY <1>10, <4>1
      <4> QED  BY <1>10, <4>1, <4>2
    <3>3. Sum(outputs) = first + fee + 546 /\ first = va + assert0 - 1 - (fee + 546)
      BY <1>8, <1>10, <2>1, <3>2, SumTyped
    <3> HIDE DEF first, va, fee
    <3> QED  BY <1>3, <1>4, <1>9, <3>3
  <2>2. CASE claimer # 0
    <3>1. others = <<546>>
      BY <2>2 DEF VAULT_DUST_LIMIT
    <3>2. Len(outputs) = 2 /\ outputs[2] = 546
      <4>1. Len(others) = 1 /\ others[1] = 546
        BY <3>1
      <4>2. outputs[1 + 1] = others[1]
        BY <1>10, <4>1
      <4> QED  BY <1>10, <4>1, <4>2
    <3>3. Sum(outputs) = first + 546 /\ first = va + assert0 - 1 - 546
      BY <1>8, <1>10, <2>2, <3>2, SumTyped
    <3> HIDE DEF first, va, fee
    <3> QED  BY <1>3, <1>4, <1>9, <3>3
  <2> QED  BY <2>1, <2>2
<1>12. PayoutOutputsAcceptable(g, claimer, outputs)
  <2>1. CASE claimer = 0
    <3>1. Len(others) = 2 /\ others[1] = fee /\ others[2] = 546
      BY <2>1 DEF VAULT_DUST_LIMIT
    <3>2. outputs[1 + 1] = others[1] /\ outputs[1 + 2] = others[2]
      BY <1>10, <3>1
    <3>3. /\ Len(outputs) = 3 /\ outputs[1] >= 546 /\ outputs[2] = fee /\ outputs[3] = 546
      BY <1>9, <1>10, <3>1, <3>2
    <3> QED  BY <1>4, <2>1, <3>3 DEF PayoutOutputsAcceptable, VAULT_DUST_LIMIT
  <2>2. CASE claimer # 0
    <3>1. Len(others) = 1 /\ others[1] = 546
      BY <2>2 DEF VAULT_DUST_LIMIT
    <3>2. outputs[1 + 1] = others[1]
      BY <1>10, <3>1
    <3>3. /\ Len(outputs) = 2 /\ outputs[1] >= 546 /\ outputs[2] = 546
      BY <1>9, <1>10, <3>1, <3>2
    <3> QED  BY <2>2, <3>3 DEF PayoutOutputsAcceptable, VAULT_DUST_LIMIT
  <2> QED  BY <2>1, <2>2
<1> DEFINE money == va + assert0
<1>13. money \in Nat /\ money >= 1 /\ money <= MaxMoney /\ money < Word
  <2> HIDE DEF va, top, all, fee
  <2> QED  BY <1>1, <1>3, <1>4, Widths
<1>14. Sum(outputs) < Word
  <2>1. Sum(outputs) = money - 1
    <3> HIDE DEF va
    <3> QED  BY <1>3, <1>4, <1>11
  <2> HIDE DEF money
  <2> QED  BY <1>13, <2>1, Widths
<1>15. TotalFits(outputs)
  <2>1. Len(outputs) \in {2, 3}
    BY <1>8, <1>10
  <2>2. outputs \in Seq(Amount)
    <3>1. others \in Seq(Amount) /\ first \in Amount
      <4>1. first \in Amount
        <5>1. Sum(others) \in Nat
          BY <1>8, SumTyped
        <5>2. first = money - 1 - Sum(others)
          <6> HIDE DEF va
          <6> QED  BY <1>3, <1>4, <5>1
        <5> HIDE DEF first, money
        <5> QED  BY <1>9, <1>13, <5>1, <5>2, Widths DEF Amount
      <4>2. fee \in Amount /\ 546 \in Amount
        BY Widths DEF SoundGroup, Amounts, Amount
      <4>3. others = <<fee, 546>> \/ others = <<546>>
        BY DEF VAULT_DUST_LIMIT
      <4> HIDE DEF fee, first
      <4> QED  BY <4>1, <4>2, <4>3
    <3>2. OneMore(first, others, outputs, Amount)
      <4>1. OneMore(first, others, <<first>> \o others, Amount)
        <5> HIDE DEF first
        <5> QED  BY <3>1, Prepended
      <4> QED  BY <4>1 DEF outputs
    <3> QED  BY <3>2 DEF OneMore
  <2> QED  BY <1>14, <2>1, <2>2, TotalFitsMeans
<1>16. Wrap(money) = money /\ Wrap(Sum(outputs)) = money - 1
  <2>1. Sum(outputs) = money - 1
    <3> HIDE DEF va
    <3> QED  BY <1>3, <1>4, <1>11
  <2>2. money \in 0..(Word - 1) /\ money - 1 \in 0..(Word - 1)
    <3> HIDE DEF money
    <3> QED  BY <1>13, Widths
  <2> QED  BY <2>1, <2>2, Widths, NoWrap DEF Wrap
<1>17. Wrap(Sum(outputs)) < Wrap(money) /\ Wrap(money) - Wrap(Sum(outputs)) = 1
  <2> HIDE DEF money
  <2> QED  BY <1>13, <1>16
<1>18. FeeAtMost(1, PayoutVsize)
  BY <1>1, <1>6 DEF FeeAtMost
<1>19. PayoutAcceptable(g, claimer, assert0, outputs)
  <2>1. money = g.vault_amount + assert0
    OBVIOUS
  <2> HIDE DEF money
  <2> QED  BY <1>7, <1>12, <1>15, <1>17, <1>18, <2>1 DEF PayoutAcceptable
<1> QED  BY <1>19 DEF outputs

(* Any vault there can be money for has a payout that pays the commission  *)
(* in full and that the validator accepts, whoever claims it and whichever *)
(* way Assert:0 is funded, at every width.                                 *)
THEOREM PayoutAlwaysPossible == Spec => []PayoutPossible
<1>1. FundsInv => PayoutPossible
  <2> SUFFICES ASSUME FundsInv, phase = "loaded", NEW i \in DOMAIN groups,
                      NEW claimer \in 0..(scalars["keeper_count"] + 1),
                      NEW assert0 \in {VAULT_DUST_LIMIT,
                                       VAULT_DUST_LIMIT
                                         + Rate * MAX_COUNCIL_NOPAYOUT_VSIZE},
                      groups[i].vault_amount + assert0 <= MaxMoney
               PROVE  LET g == groups[i]
                          others == IF claimer = 0
                                    THEN <<g.commission_fee, VAULT_DUST_LIMIT>>
                                    ELSE <<VAULT_DUST_LIMIT>>
                      IN  PayoutAcceptable(g, claimer, assert0,
                                           <<g.vault_amount + assert0 - 1 - Sum(others)>>
                                             \o others)
    BY DEF PayoutPossible
  <2>1. ScalarsSound /\ SoundGroup(groups[i])
    BY DEF FundsInv, GroupsSound
  <2> QED  BY <2>1, CheapestPayout
<1> QED  BY <1>1, FundsInductive, PTL

-----------------------------------------------------------------------------
(* The groups stored are the fields that arrived, six by six. *)

(* What a host sends in front of an APDU's end: fields.                    *)
Sendable == Tags \X UNION {HostValues(tag) : tag \in Tags}

(* Each stored group lies where its six fields arrived.                    *)
GroupsLaid(gs, arr) ==
  \A i \in 1..Len(gs), k \in 1..6 :
    arr[6 * (i - 1) + k] = <<GroupTags[k], gs[i][GroupTags[k]]>>

(* The fields behind the first n are those of the record under way, none   *)
(* in front of its place in the order.                                     *)
RecordLaid(rec, arr, n) ==
  /\ IsFiniteSet(DOMAIN rec) /\ Cardinality(DOMAIN rec) = Len(arr) - n
  /\ DOMAIN rec = {arr[n + j][1] : j \in 1..(Len(arr) - n)}
  /\ DOMAIN rec \subseteq Range(GroupTags)
  /\ \A j \in 1..(Len(arr) - n) :
       arr[n + j][2] = rec[arr[n + j][1]] /\ FieldIdx(arr[n + j][1]) >= j

ArrivedSound ==
  /\ arrived \in Seq(Sendable)
  /\ 6 * Len(groups) <= Len(arrived)
  /\ GroupsLaid(groups, arrived)
  /\ RecordLaid(record, arrived, 6 * Len(groups))

LEMMA GroupTagsSix ==
  /\ DOMAIN GroupTags = 1..6
  /\ Range(GroupTags) = {GroupTags[k] : k \in 1..6}
  /\ \A k \in 1..6 : FieldIdx(GroupTags[k]) = k
<1>1. DOMAIN GroupTags = 1..6
  BY DEF GroupTags
<1>2. Range(GroupTags) = {GroupTags[k] : k \in 1..6}
  BY <1>1 DEF Range
<1>3. \A k, m \in 1..6 : GroupTags[k] = GroupTags[m] => k = m
  BY DEF GroupTags
<1>4. ASSUME NEW k \in 1..6
      PROVE  FieldIdx(GroupTags[k]) = k
  <2>1. FieldIdx(GroupTags[k]) = CHOOSE i \in 1..6 : GroupTags[i] = GroupTags[k]
    BY <1>1 DEF FieldIdx
  <2> QED  BY <1>3, <2>1
<1> QED  BY <1>1, <1>2, <1>4

LEMMA FieldPlaced ==
  ASSUME NEW tag \in Range(GroupTags)
  PROVE  FieldIdx(tag) \in 1..6 /\ GroupTags[FieldIdx(tag)] = tag
BY GroupTagsSix

(* One more field of the record.                                           *)
LEMMA FieldLaid ==
  ASSUME NEW rec, NEW arr \in Seq(Sendable), NEW n \in Nat, n <= Len(arr),
         RecordLaid(rec, arr, n), NEW tag \in Range(GroupTags), NEW value,
         <<tag, value>> \in Sendable,
         \A seen \in DOMAIN rec : FieldIdx(seen) < FieldIdx(tag),
         NEW new, new = [t \in DOMAIN rec \cup {tag} |-> IF t = tag THEN value ELSE rec[t]]
  PROVE  /\ Append(arr, <<tag, value>>) \in Seq(Sendable)
         /\ Len(Append(arr, <<tag, value>>)) = Len(arr) + 1
         /\ \A m \in 1..Len(arr) : Append(arr, <<tag, value>>)[m] = arr[m]
         /\ RecordLaid(new, Append(arr, <<tag, value>>), n)
<1> DEFINE e == <<tag, value>>
           longer == Append(arr, e)
           r == Len(arr) - n
<1>1. e[1] = tag /\ e[2] = value /\ e \in Sendable
  OBVIOUS
<1>2. DOMAIN new = DOMAIN rec \cup {tag} /\ new[tag] = value
  OBVIOUS
<1>3. tag \notin DOMAIN rec
  <2>1. FieldIdx(tag) \in 1..6
    BY FieldPlaced
  <2> QED  BY <2>1
<1> HIDE DEF e
<1>4. /\ longer \in Seq(Sendable) /\ Len(longer) = Len(arr) + 1
      /\ \A m \in 1..Len(arr) : longer[m] = arr[m]
      /\ longer[Len(arr) + 1] = e /\ Len(arr) \in Nat
  <2> HIDE DEF r
  <2>1. Len(arr) \in Nat
    OBVIOUS
  <2> QED  BY <1>1, <2>1
<1> HIDE DEF longer
<1>5. r \in Nat /\ Len(longer) - n = r + 1 /\ n + (r + 1) = Len(arr) + 1
  BY <1>4
<1>6. \A j \in 1..r : longer[n + j] = arr[n + j]
  <2>1. \A j \in 1..r : n + j \in 1..Len(arr)
    OBVIOUS
  <2> QED  BY <1>4, <2>1
<1>7. longer[n + (r + 1)] = e
  BY <1>4, <1>5
<1>8. /\ IsFiniteSet(DOMAIN rec) /\ Cardinality(DOMAIN rec) = r
      /\ DOMAIN rec = {arr[n + j][1] : j \in 1..r}
      /\ DOMAIN rec \subseteq Range(GroupTags)
      /\ \A j \in 1..r : arr[n + j][2] = rec[arr[n + j][1]] /\ FieldIdx(arr[n + j][1]) >= j
  BY DEF RecordLaid
<1> HIDE DEF r
<1>9. IsFiniteSet(DOMAIN new) /\ Cardinality(DOMAIN new) = r + 1
  BY <1>2, <1>3, <1>8, FS_AddElement
<1>10. DOMAIN new = {longer[n + j][1] : j \in 1..(r + 1)}
  <2>1. \A j \in 1..(r + 1) : longer[n + j][1] \in DOMAIN new
    <3>1. ASSUME NEW j \in 1..(r + 1)
          PROVE  longer[n + j][1] \in DOMAIN new
      <4>1. CASE j = r + 1
        BY <1>1, <1>2, <1>7, <4>1
      <4>2. CASE j # r + 1
        <5>1. j \in 1..r
          BY <1>5, <4>2
        <5> QED  BY <1>2, <1>6, <1>8, <5>1
      <4> QED  BY <4>1, <4>2
    <3> QED  BY <3>1
  <2>2. ASSUME NEW t \in DOMAIN new
        PROVE  \E j \in 1..(r + 1) : longer[n + j][1] = t
    <3>1. CASE t = tag
      <4>1. r + 1 \in 1..(r + 1)
        BY <1>5
      <4> QED  BY <1>1, <1>7, <3>1, <4>1
    <3>2. CASE t # tag
      <4>1. PICK j \in 1..r : arr[n + j][1] = t
        BY <1>2, <1>8, <3>2
      <4>2. j \in 1..(r + 1)
        BY <1>5
      <4> QED  BY <1>6, <4>1, <4>2
    <3> QED  BY <3>1, <3>2
  <2> QED  BY <2>1, <2>2
<1>11. DOMAIN new \subseteq Range(GroupTags)
  BY <1>2, <1>8
<1>12. ASSUME NEW j \in 1..(r + 1)
       PROVE  longer[n + j][2] = new[longer[n + j][1]] /\ FieldIdx(longer[n + j][1]) >= j
  <2>1. CASE j = r + 1
    <3>1. longer[n + j][2] = new[longer[n + j][1]] /\ longer[n + j][1] = tag
      BY <1>1, <1>2, <1>7, <2>1
    <3>2. FieldIdx(tag) \in 1..6
      BY FieldPlaced
    <3>3. FieldIdx(tag) >= r + 1
      <4>1. CASE r = 0
        BY <3>2, <4>1
      <4>2. CASE r # 0
        <5>1. r \in 1..r
          BY <1>5, <4>2
        <5>2. arr[n + r][1] \in DOMAIN rec /\ FieldIdx(arr[n + r][1]) >= r
          BY <1>8, <5>1
        <5>3. FieldIdx(arr[n + r][1]) < FieldIdx(tag)
          BY <5>2
        <5>4. FieldIdx(arr[n + r][1]) \in 1..6
          BY <1>8, <5>2, FieldPlaced
        <5> QED  BY <1>5, <3>2, <5>2, <5>3, <5>4
      <4> QED  BY <4>1, <4>2
    <3> QED  BY <2>1, <3>1, <3>3
  <2>2. CASE j # r + 1
    <3>1. j \in 1..r
      BY <1>5, <2>2
    <3>2. arr[n + j][1] \in DOMAIN rec
      BY <1>8, <3>1
    <3>3. new[arr[n + j][1]] = rec[arr[n + j][1]]
      BY <1>3, <3>2
    <3> QED  BY <1>6, <1>8, <3>1, <3>3
  <2> QED  BY <2>1, <2>2
<1>13. RecordLaid(new, longer, n)
  BY <1>5, <1>9, <1>10, <1>11, <1>12 DEF RecordLaid
<1> QED  BY <1>4, <1>13 DEF longer, e

(* Once all six are there they are in their places.                        *)
LEMMA SixInPlace ==
  ASSUME NEW rec, NEW arr \in Seq(Sendable), NEW n \in Nat, n <= Len(arr),
         RecordLaid(rec, arr, n), DOMAIN rec = Range(GroupTags)
  PROVE  /\ Len(arr) = n + 6
         /\ \A k \in 1..6 : arr[n + k] = <<GroupTags[k], rec[GroupTags[k]]>>
<1> DEFINE r == Len(arr) - n
           idx(j) == FieldIdx(arr[n + j][1])
<1>1. /\ DOMAIN rec = {arr[n + j][1] : j \in 1..r}
      /\ \A j \in 1..r : arr[n + j][2] = rec[arr[n + j][1]] /\ idx(j) >= j
  BY DEF RecordLaid
<1>2. r \in Nat
  OBVIOUS
<1>3. \A j \in 1..r : idx(j) \in 1..6 /\ arr[n + j][1] = GroupTags[idx(j)]
  BY <1>1, FieldPlaced
<1>4. ASSUME NEW k \in 1..6
      PROVE  \E j \in 1..r : idx(j) = k /\ j <= k
  <2>1. GroupTags[k] \in DOMAIN rec /\ FieldIdx(GroupTags[k]) = k
    BY GroupTagsSix
  <2>2. PICK j \in 1..r : arr[n + j][1] = GroupTags[k]
    BY <1>1, <2>1
  <2>3. idx(j) = k
    BY <2>1, <2>2
  <2> QED  BY <1>1, <2>3
<1> HIDE DEF r, idx
<1>5. r <= 6
  <2>1. CASE r = 0
    BY <2>1
  <2>2. CASE r # 0
    <3>1. r \in 1..r
      BY <1>2, <2>2
    <3>2. idx(r) >= r /\ idx(r) \in 1..6
      BY <1>1, <1>3, <3>1
    <3> QED  BY <1>2, <3>2
  <2> QED  BY <2>1, <2>2
<1>6. 1 \in 1..r /\ idx(1) = 1
  <2>1. PICK j \in 1..r : idx(j) = 1 /\ j <= 1
    BY <1>4
  <2>2. j = 1
    BY <2>1
  <2> QED  BY <2>1, <2>2
<1>7. 2 \in 1..r /\ idx(2) = 2
  <2>1. PICK j \in 1..r : idx(j) = 2 /\ j <= 2
    BY <1>4
  <2>2. j = 2
    BY <1>6, <2>1
  <2> QED  BY <2>1, <2>2
<1>8. 3 \in 1..r /\ idx(3) = 3
  <2>1. PICK j \in 1..r : idx(j) = 3 /\ j <= 3
    BY <1>4
  <2>2. j = 3
    BY <1>6, <1>7, <2>1
  <2> QED  BY <2>1, <2>2
<1>9. 4 \in 1..r /\ idx(4) = 4
  <2>1. PICK j \in 1..r : idx(j) = 4 /\ j <= 4
    BY <1>4
  <2>2. j = 4
    BY <1>6, <1>7, <1>8, <2>1
  <2> QED  BY <2>1, <2>2
<1>10. 5 \in 1..r /\ idx(5) = 5
  <2>1. PICK j \in 1..r : idx(j) = 5 /\ j <= 5
    BY <1>4
  <2>2. j = 5
    BY <1>6, <1>7, <1>8, <1>9, <2>1
  <2> QED  BY <2>1, <2>2
<1>11. 6 \in 1..r /\ idx(6) = 6
  <2>1. PICK j \in 1..r : idx(j) = 6 /\ j <= 6
    BY <1>4
  <2>2. j = 6
    BY <1>6, <1>7, <1>8, <1>9, <1>10, <2>1
  <2> QED  BY <2>1, <2>2
<1>12. r = 6
  BY <1>2, <1>5, <1>11
<1>13. ASSUME NEW k \in 1..6
       PROVE  arr[n + k] = <<GroupTags[k], rec[GroupTags[k]]>>
  <2>1. idx(k) = k /\ k \in 1..r
    <3>1. k = 1 \/ k = 2 \/ k = 3 \/ k = 4 \/ k = 5 \/ k = 6
      OBVIOUS
    <3> QED  BY <1>6, <1>7, <1>8, <1>9, <1>10, <1>11, <1>12, <3>1
  <2>2. arr[n + k][1] = GroupTags[k] /\ arr[n + k][2] = rec[GroupTags[k]]
    BY <1>1, <1>3, <2>1
  <2>3. arr[n + k] \in Sendable
    <3>1. n + k \in 1..Len(arr)
      BY <1>12 DEF r
    <3> QED  BY <3>1, ElementOfSeq
  <2>4. arr[n + k] = <<arr[n + k][1], arr[n + k][2]>>
    BY <2>3 DEF Sendable
  <2> QED  BY <2>2, <2>4
<1>14. Len(arr) = n + 6
  <2>1. Len(arr) \in Nat
    OBVIOUS
  <2> QED  BY <1>12, <2>1 DEF r
<1> QED  BY <1>13, <1>14

(* The groups laid so far stay where they are.                             *)
LEMMA GroupsStayLaid ==
  ASSUME NEW gs, Len(gs) \in Nat, NEW arr, NEW longer, GroupsLaid(gs, arr),
         \A m \in 1..(6 * Len(gs)) : longer[m] = arr[m]
  PROVE  GroupsLaid(gs, longer)
<1>1. \A i \in 1..Len(gs), k \in 1..6 : 6 * (i - 1) + k \in 1..(6 * Len(gs))
  OBVIOUS
<1> QED  BY <1>1 DEF GroupsLaid

(* And the record that is complete is laid behind them.                    *)
LEMMA GroupLaid ==
  ASSUME NEW G, NEW gs \in Seq(G), NEW g \in G, NEW arr, GroupsLaid(gs, arr),
         \A k \in 1..6 : arr[6 * Len(gs) + k] = <<GroupTags[k], g[GroupTags[k]]>>
  PROVE  GroupsLaid(Append(gs, g), arr)
<1> DEFINE n == Len(gs)
           more == Append(gs, g)
<1>1. n \in Nat /\ Len(more) = n + 1 /\ more[n + 1] = g /\ \A i \in 1..n : more[i] = gs[i]
  OBVIOUS
<1> HIDE DEF more
<1>2. ASSUME NEW i \in 1..Len(more), NEW k \in 1..6
      PROVE  arr[6 * (i - 1) + k] = <<GroupTags[k], more[i][GroupTags[k]]>>
  <2>1. CASE i = n + 1
    <3>1. i - 1 = n
      BY <1>1, <2>1
    <3> QED  BY <1>1, <2>1, <3>1
  <2>2. CASE i # n + 1
    <3>1. i \in 1..n
      BY <1>1, <2>2
    <3>2. arr[6 * (i - 1) + k] = <<GroupTags[k], gs[i][GroupTags[k]]>>
      BY <3>1 DEF GroupsLaid
    <3> QED  BY <1>1, <3>1, <3>2
  <2> QED  BY <2>1, <2>2
<1>3. GroupsLaid(more, arr)
  BY <1>2 DEF GroupsLaid
<1> QED  BY <1>3 DEF more

(* An empty record behind all that arrived.                                *)
LEMMA NothingUnderway ==
  ASSUME NEW arr, Len(arr) \in Nat
  PROVE  RecordLaid(<<>>, arr, Len(arr))
<1>1. DOMAIN <<>> = {} /\ Len(arr) - Len(arr) = 0
  OBVIOUS
<1>2. IsFiniteSet({}) /\ Cardinality({}) = 0
  BY FS_EmptySet
<1>3. 1..0 = {}
  OBVIOUS
<1> QED  BY <1>1, <1>2, <1>3 DEF RecordLaid

LEMMA ArrivedKept ==
  ASSUME ArrivedSound, UNCHANGED <<groups, record, arrived>>
  PROVE  ArrivedSound'
BY DEF ArrivedSound, GroupsLaid, RecordLaid

LEMMA ArrivedReset ==
  ASSUME Reset
  PROVE  ArrivedSound'
<1>1. groups' = <<>> /\ record' = <<>> /\ arrived' = <<>>
  BY DEF Reset, Empty
<1>2. RecordLaid(<<>>, <<>>, 0)
  <2>1. Len(<<>>) = 0
    OBVIOUS
  <2> QED  BY <2>1, NothingUnderway
<1>3. RecordLaid(record', arrived', 6 * Len(groups'))
  <2>1. 6 * Len(groups') = 0
    BY <1>1
  <2> QED  BY <1>1, <1>2, <2>1
<1>4. GroupsLaid(groups', arrived')
  BY <1>1 DEF GroupsLaid
<1>5. arrived' \in Seq(Sendable) /\ 6 * Len(groups') <= Len(arrived')
  BY <1>1
<1> QED  BY <1>3, <1>4, <1>5 DEF ArrivedSound, GroupsLaid, RecordLaid

(* A field that is taken, of a record that is or is not complete with it.  *)
LEMMA FieldArrives ==
  ASSUME GroupsSound, ArrivedSound, NEW tag \in Tags, NEW value \in HostValues(tag),
         GroupError(tag, value) = "OK", arrived' = Append(arrived, <<tag, value>>)
  PROVE  /\ arrived' \in Seq(Sendable)
         /\ Len(arrived') = Len(arrived) + 1
         /\ 6 * Len(groups) \in Nat /\ 6 * Len(groups) <= Len(arrived')
         /\ GroupsLaid(groups, arrived')
         /\ RecordLaid(RecordWith(tag, value), arrived', 6 * Len(groups))
<1> DEFINE n == 6 * Len(groups)
           longer == Append(arrived, <<tag, value>>)
<1>1. Len(groups) \in Nat /\ n \in Nat /\ n <= Len(arrived) /\ arrived \in Seq(Sendable)
      /\ Len(arrived) \in Nat
  BY DEF GroupsSound, ArrivedSound
<1>2. tag \in Range(GroupTags) /\ InOrder(tag)
  BY DEF GroupError
<1>3. <<tag, value>> \in Sendable
  BY DEF Sendable
<1>4. RecordLaid(record, arrived, n) /\ GroupsLaid(groups, arrived)
  BY DEF ArrivedSound
<1>5. RecordWith(tag, value)
        = [t \in DOMAIN record \cup {tag} |-> IF t = tag THEN value ELSE record[t]]
  BY DEF RecordWith
<1>6. \A seen \in DOMAIN record : FieldIdx(seen) < FieldIdx(tag)
  BY <1>2 DEF InOrder
<1> HIDE DEF n
<1>7. longer \in Seq(Sendable) /\ Len(longer) = Len(arrived) + 1
  BY <1>1, <1>2, <1>3, <1>4, <1>5, <1>6, FieldLaid
<1>8. \A m \in 1..Len(arrived) : longer[m] = arrived[m]
  BY <1>1, <1>2, <1>3, <1>4, <1>5, <1>6, FieldLaid
<1>9. RecordLaid(RecordWith(tag, value), longer, n)
  BY <1>1, <1>2, <1>3, <1>4, <1>5, <1>6, FieldLaid
<1> HIDE DEF longer
<1>10. GroupsLaid(groups, longer)
  <2>1. \A m \in 1..(6 * Len(groups)) : longer[m] = arrived[m]
    BY <1>1, <1>8 DEF n
  <2> QED  BY <1>1, <1>4, <2>1, GroupsStayLaid
<1>11. arrived' = longer
  BY DEF longer
<1>12. n <= Len(longer)
  BY <1>1, <1>7
<1> QED  BY <1>1, <1>7, <1>9, <1>10, <1>11, <1>12 DEF n

LEMMA GroupArrives ==
  ASSUME GroupsSound, ArrivedSound, NEW tag \in Tags, NEW value \in HostValues(tag),
         GroupStored(tag, value)
  PROVE  ArrivedSound'
<1> DEFINE n == 6 * Len(groups)
           g == RecordWith(tag, value)
           more == Append(groups, g)
           G == {groups[i] : i \in DOMAIN groups} \cup {g}
<1>1. /\ groups' = more /\ record' = <<>>
      /\ DOMAIN g = Range(GroupTags)
      /\ GroupError(tag, value) = "OK" /\ arrived' = Append(arrived, <<tag, value>>)
  BY DEF GroupStored, Complete, Empty
<1>2. /\ arrived' \in Seq(Sendable) /\ n \in Nat /\ n <= Len(arrived')
      /\ GroupsLaid(groups, arrived')
      /\ RecordLaid(g, arrived', n)
  BY <1>1, FieldArrives
<1>3. groups \in Seq(G) /\ g \in G
  <2>1. groups \in Seq({groups[i] : i \in DOMAIN groups})
    BY DEF GroupsSound
  <2> DEFINE S == {groups[i] : i \in DOMAIN groups}
  <2> HIDE DEF S, g
  <2>2. groups \in Seq(S \cup {g})
    <3>1. groups \in Seq(S)
      BY <2>1 DEF S
    <3> QED  BY <3>1
  <2> QED  BY <2>2 DEF S
<1> HIDE DEF g, G
<1>4. /\ Len(arrived') = n + 6
      /\ \A k \in 1..6 : arrived'[n + k] = <<GroupTags[k], g[GroupTags[k]]>>
  <2> HIDE DEF n
  <2>1. Len(arrived') = n + 6
    BY <1>1, <1>2, SixInPlace
  <2>2. \A k \in 1..6 : arrived'[n + k] = <<GroupTags[k], g[GroupTags[k]]>>
    BY <1>1, <1>2, SixInPlace
  <2> QED  BY <2>1, <2>2
<1>5. GroupsLaid(more, arrived')
  BY <1>2, <1>3, <1>4, GroupLaid
<1>6. Len(more) = Len(groups) + 1 /\ 6 * Len(more) = Len(arrived') /\ Len(arrived') \in Nat
  <2>1. Len(more) = Len(groups) + 1 /\ Len(groups) \in Nat
    BY <1>3
  <2> QED  BY <1>2, <1>4, <2>1
<1>7. RecordLaid(<<>>, arrived', 6 * Len(more))
  BY <1>6, NothingUnderway
<1> HIDE DEF more
<1>8. /\ arrived' \in Seq(Sendable) /\ 6 * Len(groups') <= Len(arrived')
      /\ GroupsLaid(groups', arrived') /\ RecordLaid(record', arrived', 6 * Len(groups'))
  BY <1>1, <1>2, <1>5, <1>6, <1>7
<1> QED  BY <1>8 DEF ArrivedSound, GroupsLaid, RecordLaid

LEMMA ArrivedStep ==
  ASSUME GroupsSound, ArrivedSound, [Next]_vars
  PROVE  ArrivedSound'
<1>1. ASSUME NEW tag \in Tags, NEW value \in HostValues(tag),
             \/ ScalarField(tag, value)
             \/ ScalarFieldRejected(tag, value)
             \/ GroupField(tag, value)
             \/ GroupStored(tag, value)
             \/ GroupFieldRejected(tag, value)
             \/ GroupRejected(tag, value)
      PROVE  ArrivedSound'
  <2>1. CASE ScalarField(tag, value)
    BY <2>1, ArrivedKept DEF ScalarField
  <2>2. CASE ScalarFieldRejected(tag, value)
    BY <2>2, ArrivedReset DEF ScalarFieldRejected, Wiped
  <2>3. CASE GroupField(tag, value)
    <3>1. /\ GroupError(tag, value) = "OK" /\ arrived' = Append(arrived, <<tag, value>>)
          /\ groups' = groups /\ record' = RecordWith(tag, value)
      BY <2>3 DEF GroupField
    <3>2. /\ arrived' \in Seq(Sendable) /\ 6 * Len(groups) <= Len(arrived')
          /\ GroupsLaid(groups, arrived')
          /\ RecordLaid(RecordWith(tag, value), arrived', 6 * Len(groups))
      BY <3>1, FieldArrives
    <3>3. /\ arrived' \in Seq(Sendable) /\ 6 * Len(groups') <= Len(arrived')
          /\ GroupsLaid(groups', arrived')
          /\ RecordLaid(record', arrived', 6 * Len(groups'))
      BY <3>1, <3>2
    <3> QED  BY <3>3 DEF ArrivedSound, GroupsLaid, RecordLaid
  <2>4. CASE GroupStored(tag, value)
    BY <2>4, GroupArrives
  <2>5. CASE GroupFieldRejected(tag, value)
    BY <2>5, ArrivedReset DEF GroupFieldRejected, Wiped
  <2>6. CASE GroupRejected(tag, value)
    BY <2>6, ArrivedReset DEF GroupRejected, Wiped
  <2> QED  BY <1>1, <2>1, <2>2, <2>3, <2>4, <2>5, <2>6
<1>2. ASSUME NEW tag \in Tags, NEW form \in Malformed,
             \/ ScalarFieldMalformed(tag, form)
             \/ GroupFieldMalformed(tag, form)
      PROVE  ArrivedSound'
  BY <1>2, ArrivedReset DEF ScalarFieldMalformed, GroupFieldMalformed, Wiped
<1>3. CASE GroupTooMany
  BY <1>3, ArrivedReset DEF GroupTooMany, Wiped
<1>4. CASE ScalarsEnd
  BY <1>4, ArrivedKept DEF ScalarsEnd
<1>5. CASE ScalarsRejected
  BY <1>5, ArrivedReset DEF ScalarsRejected, Wiped
<1>6. CASE GroupCut
  BY <1>6, ArrivedReset DEF GroupCut, Wiped
<1>7. CASE GroupsEnd
  BY <1>7, ArrivedKept DEF GroupsEnd
<1>8. CASE StartOver
  BY <1>8, ArrivedReset DEF StartOver
<1>9. CASE Sign
  <2>1. UNCHANGED tlvVars
    BY <1>9 DEF Sign, SignPrePegIn, SignPegIn, SignPayout, SignPayoutFinalize, SignNoPayout
  <2> QED  BY <2>1, ArrivedKept DEF tlvVars
<1>10. CASE UNCHANGED vars
  BY <1>10, ArrivedKept DEF vars
<1> QED
  BY <1>1, <1>2, <1>3, <1>4, <1>5, <1>6, <1>7, <1>8, <1>9, <1>10 DEF Next, Load, TlvNext

(* Laid end to end, the fields of the groups begin what arrived.           *)
LEMMA ParsedArrived ==
  ASSUME GroupsSound, ArrivedSound
  PROVE  GroupsAsSent
<1> DEFINE fields(g) == [i \in DOMAIN GroupTags |-> <<GroupTags[i], g[GroupTags[i]]>>]
           s == [i \in DOMAIN groups |-> fields(groups[i])]
           parsed == FlattenSeq(s)
           n == Len(groups)
<1> SUFFICES /\ Len(arrived) = Len(parsed) + Cardinality(DOMAIN record)
             /\ IsPrefix(parsed, arrived)
  BY DEF GroupsAsSent
<1>1. /\ n \in Nat /\ DOMAIN groups = 1..n /\ 6 * n <= Len(arrived) /\ Len(arrived) \in Nat
      /\ arrived \in Seq(Sendable)
      /\ Cardinality(DOMAIN record) = Len(arrived) - 6 * n
  BY DEF GroupsSound, ArrivedSound, RecordLaid
<1>2. Len(s) = n /\ \A i \in 1..n : s[i] = fields(groups[i])
  BY <1>1
<1>3. ASSUME NEW i \in 1..n
      PROVE  /\ s[i] \in Seq(Sendable) /\ Len(s[i]) = 6
             /\ \A k \in 1..6 : s[i][k] = arrived[6 * (i - 1) + k]
  <2>1. fields(groups[i]) = [k \in 1..6 |-> <<GroupTags[k], groups[i][GroupTags[k]]>>]
    BY GroupTagsSix
  <2>2. \A k \in 1..6 : fields(groups[i])[k] = arrived[6 * (i - 1) + k]
    BY <2>1 DEF ArrivedSound, GroupsLaid
  <2>3. \A k \in 1..6 : 6 * (i - 1) + k \in 1..Len(arrived)
    BY <1>1
  <2>4. \A k \in 1..6 : fields(groups[i])[k] \in Sendable
    BY <1>1, <2>2, <2>3, ElementOfSeq
  <2> DEFINE f == fields(groups[i])
  <2>5. DOMAIN f = 1..6 /\ f = [k \in 1..6 |-> f[k]]
    BY <2>1
  <2> HIDE DEF f
  <2>6. f \in Seq(Sendable) /\ Len(f) = 6
    BY <2>4, <2>5 DEF f
  <2> QED  BY <1>2, <2>2, <2>6 DEF f
<1>4. /\ Len(parsed) = 6 * n
      /\ parsed \in Seq(Sendable)
      /\ \A m \in 1..(6 * n) : parsed[m] = arrived[m]
  <2>1. CASE n = 0
    <3>1. parsed = s
      BY <1>2, <2>1, Zenon DEF FlattenSeq
    <3>2. s = <<>>
      BY <1>1, <2>1
    <3>3. parsed = <<>>
      BY <3>1, <3>2
    <3> HIDE DEF parsed, s
    <3> QED  BY <2>1, <3>3
  <2>2. CASE n # 0
    <3> HIDE DEF s
    <3>1. parsed \in Seq(Sendable) /\ Len(parsed) = 6 * Len(s) /\ BlocksLaid(parsed, s, 6)
      <4>1. Len(s) \in Nat /\ Len(s) # 0
            /\ \A i \in 1..Len(s) : s[i] \in Seq(Sendable) /\ Len(s[i]) = 6
        BY <1>1, <1>2, <1>3, <2>2
      <4>2. 6 \in Nat
        OBVIOUS
      <4> QED  BY <4>1, <4>2, FlattenBlocks
    <3>2. ASSUME NEW m \in 1..(6 * n)
          PROVE  parsed[m] = arrived[m]
      <4> DEFINE i == ((m - 1) \div 6) + 1
                 k == ((m - 1) % 6) + 1
      <4>1. i \in 1..n /\ k \in 1..6 /\ 6 * (i - 1) + k = m
        BY <1>1
      <4> HIDE DEF i, k, parsed
      <4>2. parsed[6 * (i - 1) + k] = s[i][k]
        BY <1>2, <3>1, <4>1 DEF BlocksLaid
      <4> QED  BY <1>3, <4>1, <4>2
    <3> QED  BY <1>2, <3>1, <3>2
  <2> QED  BY <2>1, <2>2
<1> HIDE DEF parsed, s
<1>5. Len(arrived) = Len(parsed) + Cardinality(DOMAIN record)
  BY <1>1, <1>4
<1>6. SubSeq(parsed, 1, Len(parsed)) = SubSeq(arrived, 1, Len(parsed))
  <2> DEFINE l == Len(parsed)
  <2>1. l \in Nat /\ l <= Len(arrived) /\ \A m \in 1..l : parsed[m] = arrived[m]
    BY <1>1, <1>4
  <2>2. /\ SubSeq(parsed, 1, l) = [m \in 1..l |-> parsed[m]]
        /\ SubSeq(arrived, 1, l) = [m \in 1..l |-> arrived[m]]
    BY <1>1, <1>4, <2>1
  <2> HIDE DEF l
  <2> QED  BY <2>1, <2>2 DEF l
<1> QED  BY <1>1, <1>4, <1>5, <1>6 DEF IsPrefix

(* However records are packed into APDUs, the groups stored are the fields *)
(* that arrived, six by six and in order, with nothing lost between two.   *)
THEOREM GroupsFaithful == Spec => []GroupsAsSent
<1>1. Init => ArrivedSound
  <2> SUFFICES ASSUME Init PROVE ArrivedSound
    OBVIOUS
  <2>1. groups = <<>> /\ record = <<>> /\ arrived = <<>>
    BY DEF Init, TlvInit, Fresh, Empty
  <2>2. RecordLaid(<<>>, <<>>, 0)
    <3>1. Len(<<>>) = 0
      OBVIOUS
    <3> QED  BY <3>1, NothingUnderway
  <2>3. GroupsLaid(<<>>, <<>>) /\ 6 * Len(<<>>) = 0 /\ <<>> \in Seq(Sendable)
    BY DEF GroupsLaid
  <2> QED  BY <2>1, <2>2, <2>3 DEF ArrivedSound
<1>2. FundsInv /\ ArrivedSound /\ [Next]_vars => ArrivedSound'
  BY ArrivedStep DEF FundsInv
<1>3. FundsInv /\ ArrivedSound => GroupsAsSent
  BY ParsedArrived DEF FundsInv
<1> QED  BY <1>1, <1>2, <1>3, FundsInductive, PTL DEF Spec

-----------------------------------------------------------------------------
(* The outputs of a Pre-PegIn. *)

(* What the depositor is paid, output by output.                           *)
IsSelection(t, s) ==
  /\ t[0] = <<>>
  /\ \A i \in 0..Len(s) : t[i] \in Seq(Amount)
  /\ \A i \in 1..Len(s) :
       t[i] = IF s[i].pays = <<"depositor">> THEN Append(t[i - 1], s[i].value) ELSE t[i - 1]

LEMMA SelectionExists ==
  ASSUME NEW s \in Seq(Output)
  PROVE  \E t : IsSelection(t, s) /\ DepositorValues(s) = t[Len(s)]
<1> DEFINE n == Len(s)
           D == 1..n
           V == Seq(Amount)
           pays(i) == s[i].pays = <<"depositor">>
           iter == CHOOSE f : f = [S \in SUBSET (DOMAIN s) |->
                                     IF S = {} THEN <<>>
                                     ELSE IF s[Max(S)].pays = <<"depositor">>
                                          THEN Append(f[S \ {Max(S)}], s[Max(S)].value)
                                          ELSE f[S \ {Max(S)}]]
           c == [S \in SUBSET D |-> Max(S)]
           h == [p \in D \X V |-> IF pays(p[1]) THEN Append(p[2], s[p[1]].value) ELSE p[2]]
<1>1. DepositorValues(s) = iter[DOMAIN s]
  BY Zenon DEF DepositorValues, FoldLeft, MapThenFoldSet
<1>2. n \in Nat /\ DOMAIN s = D /\ \A i \in D : s[i].value \in Amount
  <2>1. n \in Nat /\ DOMAIN s = D
    OBVIOUS
  <2>2. \A i \in D : s[i] \in Output
    BY ElementOfSeq
  <2> QED  BY <2>1, <2>2 DEF Output
<1>3. \A S \in SUBSET D : S # {} => c[S] = Max(S) /\ Max(S) \in S
  BY <1>2, MaxAmong
<1>4. \A v \in V, i \in D : Append(v, s[i].value) \in V
  BY <1>2
<1> HIDE DEF V
<1>5. <<>> \in V
  BY DEF V
<1>6. PICK f \in [SUBSET D -> V] : IsFold(f, D, <<>>, h, c)
  <2>1. IsFiniteSet(D)
    BY <1>2, FS_Interval
  <2>2. h \in [D \X V -> V]
    <3> HIDE DEF pays
    <3> QED  BY <1>4
  <2>3. Chooses(c, D)
    BY <1>3 DEF Chooses
  <2> HIDE DEF D, h, c
  <2> QED
    BY <1>5, <2>1, <2>2, <2>3, FoldExists
<1>7. f = [S \in SUBSET (DOMAIN s) |->
             IF S = {} THEN <<>>
             ELSE IF s[Max(S)].pays = <<"depositor">>
                  THEN Append(f[S \ {Max(S)}], s[Max(S)].value)
                  ELSE f[S \ {Max(S)}]]
  <2> USE DEF IsFold
  <2>1. ASSUME NEW S \in SUBSET D
        PROVE  f[S] = IF S = {} THEN <<>>
                      ELSE IF s[Max(S)].pays = <<"depositor">>
                           THEN Append(f[S \ {Max(S)}], s[Max(S)].value)
                           ELSE f[S \ {Max(S)}]
    <3>1. CASE S = {}
      BY <1>6, <3>1
    <3>2. CASE S # {}
      <4>1. c[S] = Max(S) /\ Max(S) \in D /\ S \ {Max(S)} \in SUBSET D
        BY <1>3, <3>2
      <4>2. f[S] = h[<<c[S], f[S \ {c[S]}]>>]
        BY <1>6, <3>2
      <4>3. f[S \ {Max(S)}] \in V
        BY <1>6, <4>1
      <4>4. h[<<Max(S), f[S \ {Max(S)}]>>]
              = IF pays(Max(S)) THEN Append(f[S \ {Max(S)}], s[Max(S)].value)
                ELSE f[S \ {Max(S)}]
        <5> HIDE DEF pays
        <5> QED  BY <4>1, <4>3
      <4> QED
        BY <3>2, <4>1, <4>2, <4>4
    <3> QED
      BY <3>1, <3>2
  <2>2. f = [S \in SUBSET D |-> f[S]]
    BY <1>6
  <2>3. DOMAIN s = D
    BY <1>2
  <2> HIDE DEF c, h, D
  <2> QED
    BY <2>1, <2>2, <2>3, Zenon
<1>8. iter = [S \in SUBSET (DOMAIN s) |->
               IF S = {} THEN <<>>
               ELSE IF s[Max(S)].pays = <<"depositor">>
                    THEN Append(iter[S \ {Max(S)}], s[Max(S)].value)
                    ELSE iter[S \ {Max(S)}]]
  BY <1>7, Zenon
<1> HIDE DEF iter
<1>9. /\ iter[{}] = <<>>
      /\ \A S \in SUBSET D : S # {} =>
           iter[S] = IF pays(Max(S)) THEN Append(iter[S \ {Max(S)}], s[Max(S)].value)
                     ELSE iter[S \ {Max(S)}]
  <2>1. DOMAIN s = D
    BY <1>2
  <2> HIDE DEF D
  <2> QED  BY <1>8, <2>1
<1> HIDE DEF pays
<1>10. \A S \in SUBSET D : iter[S] \in V
  <2> DEFINE Good == {S \in SUBSET D : iter[S] \in V}
  <2>1. {} \in Good
    BY <1>5, <1>9
  <2>2. ASSUME NEW S \in SUBSET D, S # {}, S \ {c[S]} \in Good
        PROVE  S \in Good
    <3>1. c[S] = Max(S) /\ Max(S) \in D
      BY <1>3, <2>2
    <3> QED
      BY <1>4, <1>9, <2>2, <3>1
  <2>3. IsFiniteSet(D)
    BY <1>2, FS_Interval
  <2>4. Chooses(c, D)
    BY <1>3 DEF Chooses
  <2>5. SUBSET D \subseteq Good
    <3>1. Reaches(c, D, Good)
      <4> HIDE DEF Good, D, c
      <4> QED
        BY <2>1, <2>2 DEF Reaches
    <3> HIDE DEF Good, D, c
    <3> QED
      BY <2>3, <2>4, <3>1, SubsetsReached
  <2> QED
    BY <2>5
<1> DEFINE t == [i \in 0..n |-> iter[1..i]]
<1>11. \A i \in 0..n : t[i] \in V
  <2>1. \A i \in 0..n : 1..i \in SUBSET D
    BY <1>2
  <2> QED
    BY <1>10, <2>1
<1>12. t[0] = <<>>
  <2>1. 1..0 = {} /\ 0 \in 0..n
    BY <1>2
  <2> QED
    BY <1>9, <2>1
<1>13. ASSUME NEW i \in 1..n
       PROVE  t[i] = IF pays(i) THEN Append(t[i - 1], s[i].value) ELSE t[i - 1]
  <2> DEFINE S == 1..i
  <2>1. S \in SUBSET D /\ S # {} /\ i \in 0..n /\ i - 1 \in 0..n
    <3>1. n \in Nat /\ i \in Nat /\ 1 <= i /\ i <= n
      BY <1>2
    <3>2. i \in 0..n /\ i - 1 \in 0..n
      BY <3>1
    <3>3. i \in S
      BY <3>1
    <3>4. S \subseteq D
      BY <3>1
    <3> QED  BY <3>2, <3>3, <3>4
  <2>2. Max(S) = i
    <3>1. Max(S) \in S /\ \A m \in S : m <= Max(S)
      BY <1>2, <2>1, MaxAmong
    <3> QED
      BY <1>2, <3>1
  <2>3. S \ {i} = 1..(i - 1)
    BY <1>2
  <2>4. iter[S] = IF pays(Max(S)) THEN Append(iter[S \ {Max(S)}], s[Max(S)].value)
                  ELSE iter[S \ {Max(S)}]
    BY <1>9, <2>1
  <2>5. t[i] = iter[S] /\ t[i - 1] = iter[S \ {i}]
    BY <2>1, <2>3
  <2> QED
    BY <2>2, <2>4, <2>5
<1>14. DepositorValues(s) = t[n]
  <2>1. n \in 0..n
    BY <1>2
  <2> QED
    BY <1>1, <1>2, <2>1
<1> HIDE DEF t
<1>15. IsSelection(t, s)
  BY <1>11, <1>12, <1>13 DEF IsSelection, V, pays
<1> QED
  BY <1>14, <1>15

Continues(r, s, d) ==
  /\ Len(r) \in Nat /\ Len(s) \in Nat /\ d + Len(r) <= Len(s)
  /\ \A k \in 1..Len(r) : r[k] = s[d + k]

Agree(u, r, t, d) == \A k \in 0..Len(r) : u[k] = t[d + k]

(* A stretch selects what the whole selects from there on, if nothing was  *)
(* selected before.                                                        *)
LEMMA SelectionsAgree ==
  ASSUME NEW s, NEW t, IsSelection(t, s), NEW r, NEW u, IsSelection(u, r),
         NEW d \in Nat, Continues(r, s, d), t[d] = <<>>
  PROVE  Agree(u, r, t, d)
<1> DEFINE Good == {k \in Nat : k <= Len(r) => u[k] = t[d + k]}
<1>5. /\ Len(s) \in Nat /\ Len(r) \in Nat /\ d + Len(r) <= Len(s)
      /\ \A k \in 1..Len(r) : r[k] = s[d + k]
  BY DEF Continues
<1>1. 0 \in Good
  BY DEF IsSelection
<1>2. ASSUME NEW k \in Good
      PROVE  k + 1 \in Good
  <2> SUFFICES ASSUME k + 1 <= Len(r)
               PROVE  u[k + 1] = t[d + (k + 1)]
    OBVIOUS
  <2>1. /\ k + 1 \in 1..Len(r) /\ d + (k + 1) \in 1..Len(s)
        /\ (k + 1) - 1 = k /\ d + (k + 1) - 1 = d + k
    BY <1>5
  <2>2. u[k] = t[d + k]
    OBVIOUS
  <2>3. u[k + 1] = IF r[k + 1].pays = <<"depositor">> THEN Append(u[k], r[k + 1].value)
                   ELSE u[k]
    BY <2>1 DEF IsSelection
  <2>4. t[d + (k + 1)] = IF s[d + (k + 1)].pays = <<"depositor">>
                         THEN Append(t[d + k], s[d + (k + 1)].value) ELSE t[d + k]
    BY <2>1 DEF IsSelection
  <2>5. r[k + 1] = s[d + (k + 1)]
    BY <1>5, <2>1
  <2> QED  BY <2>2, <2>3, <2>4, <2>5
<1>3. Good \in SUBSET Nat
  OBVIOUS
<1> HIDE DEF Good
<1>4. Nat \subseteq Good
  BY <1>1, <1>2, <1>3, SuccessorsReachAll
<1> QED  BY <1>4, <1>5 DEF Good, Agree

(* The HTLCs come first, one behind the other.                             *)
LEMMA VoutsInOrder ==
  ASSUME GroupsSound, Len(groups) # 0, NEW outputs \in Seq(Output), NEW change_allowed,
         HtlcOutputsAcceptable(outputs), OtherOutputsAcceptable(outputs, change_allowed)
  PROVE  \A i \in 1..Len(groups) : groups[i].htlc_vout = i - 1
<1> DEFINE v(i) == groups[i].htlc_vout
           n == Len(groups)
           X == {i \in 1..n : v(i) # i - 1}
<1>1. n \in Nat /\ n >= 1 /\ DOMAIN groups = 1..n
  BY DEF GroupsSound
<1>2. /\ \A i \in 1..n : v(i) \in Nat
      /\ \A i, j \in 1..n : i < j => v(i) < v(j)
  BY <1>1 DEF GroupsSound, SoundGroup
<1>3. n \in 1..n /\ v(n) < Len(outputs)
  BY <1>1 DEF HtlcOutputsAcceptable
<1>4. ASSUME NEW m \in 0..v(n)
      PROVE  \E j \in 1..n : v(j) = m
  <2> SUFFICES ASSUME ~IsHtlcOutput(m)
               PROVE  FALSE
    BY <1>1 DEF IsHtlcOutput
  <2>1. v(n) \in Nat /\ Len(outputs) \in Nat
    BY <1>2, <1>3
  <2>2. m \in Others(outputs)
    <3> HIDE DEF v
    <3>1. m \in 0..(Len(outputs) - 1)
      BY <1>3, <2>1
    <3> QED  BY <3>1 DEF Others
  <2>3. m > v(n)
    BY <2>2 DEF OtherOutputsAcceptable, BehindHtlcs
  <2> HIDE DEF v
  <2> QED  BY <2>1, <2>3
<1>5. ASSUME NEW x \in X
      PROVE  FALSE
  <2>1. X \in SUBSET Nat
    OBVIOUS
  <2> HIDE DEF X
  <2>2. PICK i \in X : \A m \in X : i <= m
    BY <2>1, LeastExists
  <2> USE DEF X
  <2> HIDE DEF v
  <2>3. i \in 1..n /\ v(i) # i - 1
    BY <2>2
  <2>4. \A k \in 1..n : k < i => v(k) = k - 1
    BY <2>2
  <2>5. v(i) > i - 1
    <3>1. CASE i = 1
      BY <1>2, <2>3, <3>1
    <3>2. CASE i # 1
      <4>1. i - 1 \in 1..n /\ i - 1 < i
        BY <1>1, <2>3, <3>2
      <4>2. v(i - 1) = i - 1 - 1 /\ v(i - 1) < v(i) /\ v(i) \in Nat
        BY <1>2, <2>3, <2>4, <4>1
      <4> QED  BY <2>3, <4>2
    <3> QED  BY <3>1, <3>2
  <2>6. v(i) <= v(n) /\ v(n) \in Nat /\ v(i) \in Nat
    <3>1. CASE i = n
      BY <1>2, <2>3, <3>1
    <3>2. CASE i # n
      <4>1. i < n
        <5>1. i \in 1..n
          BY <2>3
        <5> HIDE DEF X
        <5>2. i <= n /\ i \in Nat
          BY <1>1, <5>1
        <5> HIDE DEF n
        <5> QED  BY <1>1, <3>2, <5>2
      <4>2. v(i) < v(n)
        BY <1>2, <1>3, <2>3, <4>1
      <4>3. v(n) \in Nat /\ v(i) \in Nat
        BY <1>2, <1>3, <2>3
      <4> QED  BY <4>2, <4>3
    <3> QED  BY <3>1, <3>2
  <2>7. PICK j \in 1..n : v(j) = i - 1
    <3>1. i - 1 \in 0..v(n)
      BY <2>3, <2>5, <2>6
    <3> QED  BY <1>4, <3>1
  <2>8. CASE j < i
    BY <2>3, <2>4, <2>7, <2>8
  <2>9. CASE j = i
    BY <2>3, <2>7, <2>9
  <2>10. CASE j > i
    <3>1. v(i) < v(j) /\ v(j) \in Nat
      BY <1>2, <2>3, <2>7, <2>10
    <3> QED  BY <2>3, <2>5, <2>6, <2>7, <3>1
  <2> QED  BY <2>3, <2>7, <2>8, <2>9, <2>10
<1> QED  BY <1>5

PrePegInLaid(outs, change_allowed) ==
  LET rest == SubSeq(outs, Len(groups) + 1, Len(outs))
      to_depositor == DepositorValues(rest)
  IN  /\ \A i \in DOMAIN groups : groups[i].htlc_vout = i - 1 /\ outs[i].pays = <<"htlc", i>>
      /\ Len(rest) - Len(to_depositor)
           = Cardinality({i \in DOMAIN rest : rest[i].pays = <<"auth_anchor">>})
      /\ Len(rest) - Len(to_depositor) \in {0, 1}
      /\ \/ to_depositor \in {<<>>, <<VAULT_DUST_LIMIT>>}
         \/ /\ change_allowed
            /\ Len(to_depositor) = 2
            /\ to_depositor[1] = VAULT_DUST_LIMIT
            /\ to_depositor[2] > VAULT_DUST_LIMIT
      /\ \A i \in DOMAIN rest : ~rest[i].internal

(* What the depositor may have been paid so far.                           *)
PaidSoFar(values, change_allowed) ==
  \/ values \in {<<>>, <<VAULT_DUST_LIMIT>>}
  \/ /\ change_allowed
     /\ Len(values) = 2
     /\ values[1] = VAULT_DUST_LIMIT
     /\ values[2] > VAULT_DUST_LIMIT

LEMMA PaidOnceMore ==
  ASSUME NEW before \in Seq(Amount), NEW change_allowed, PaidSoFar(before, change_allowed),
         NEW value \in Amount, DepositorOutputAcceptable(before, value, change_allowed)
  PROVE  PaidSoFar(Append(before, value), change_allowed)
<1>1. CASE value = VAULT_DUST_LIMIT /\ before = <<>>
  <2>1. Append(before, value) = <<VAULT_DUST_LIMIT>>
    BY <1>1
  <2> QED  BY <2>1 DEF PaidSoFar
<1>2. CASE value > VAULT_DUST_LIMIT /\ change_allowed /\ before = <<VAULT_DUST_LIMIT>>
  <2>1. Len(before) = 1 /\ before[1] = VAULT_DUST_LIMIT
    BY <1>2
  <2> DEFINE after == Append(before, value)
  <2>2. /\ Len(after) = Len(before) + 1
        /\ after[Len(before) + 1] = value
        /\ \A m \in 1..Len(before) : after[m] = before[m]
    OBVIOUS
  <2> HIDE DEF after
  <2>3. Len(after) = 2 /\ after[1] = VAULT_DUST_LIMIT /\ after[2] = value
    BY <2>1, <2>2
  <2>4. PaidSoFar(after, change_allowed)
    BY <1>2, <2>3 DEF PaidSoFar
  <2> QED  BY <2>4 DEF after
<1> QED  BY <1>1, <1>2 DEF DepositorOutputAcceptable

LEMMA HtlcNotDepositor ==
  ASSUME NEW i
  PROVE  <<"htlc", i>> # <<"depositor">> /\ <<"depositor">> # <<"auth_anchor">>
<1>1. Len(<<"htlc", i>>) = 2 /\ Len(<<"depositor">>) = 1
  OBVIOUS
<1>2. <<"depositor">>[1] = "depositor" /\ <<"auth_anchor">>[1] = "auth_anchor"
  OBVIOUS
<1>3. "depositor" # "auth_anchor"
  OBVIOUS
<1> QED  BY <1>1, <1>2, <1>3

LEMMA OutputsLaid ==
  ASSUME GroupsSound, Len(groups) # 0, NEW outs \in Seq(Output), NEW change_allowed,
         HtlcOutputsAcceptable(outs), OtherOutputsAcceptable(outs, change_allowed)
  PROVE  PrePegInLaid(outs, change_allowed)
<1> DEFINE n == Len(groups)
           l == Len(outs) - n
           rest == SubSeq(outs, n + 1, Len(outs))
           anchor == <<"auth_anchor">>
           depositor == <<"depositor">>
<1>1. /\ n \in Nat /\ n >= 1 /\ DOMAIN groups = 1..n
      /\ \A i \in 1..n : groups[i].htlc_vout = i - 1
  BY VoutsInOrder DEF GroupsSound
<1>2. /\ \A i \in 1..n : outs[i].pays = <<"htlc", i>>
      /\ n <= Len(outs) /\ Len(outs) \in Nat /\ l \in Nat
  <2>1. Len(outs) \in Nat
    OBVIOUS
  <2>2. ASSUME NEW i \in 1..n
        PROVE  outs[i].pays = <<"htlc", i>> /\ i <= Len(outs)
    <3>1. /\ groups[i].htlc_vout < Len(outs)
          /\ outs[groups[i].htlc_vout + 1].pays = <<"htlc", i>>
      BY <1>1 DEF HtlcOutputsAcceptable
    <3>2. groups[i].htlc_vout = i - 1 /\ i - 1 + 1 = i
      BY <1>1
    <3> QED  BY <2>1, <3>1, <3>2
  <2>3. n \in 1..n
    BY <1>1
  <2>4. n <= Len(outs)
    BY <2>2, <2>3
  <2> QED  BY <1>1, <2>1, <2>2, <2>4
<1>3. rest \in Seq(Output) /\ Len(rest) = l
  BY <1>1, <1>2, Stretch
<1>4. \A k \in 1..l : rest[k] = outs[n + k]
  BY <1>1, <1>2, Stretch
<1> HIDE DEF rest
<1> PICK t : IsSelection(t, outs)
  BY SelectionExists
<1> PICK u : IsSelection(u, rest) /\ DepositorValues(rest) = u[l]
  BY <1>3, SelectionExists
<1>5. t[n] = <<>>
  <2> DEFINE None == {i \in Nat : i <= n => t[i] = <<>>}
  <2>1. 0 \in None
    BY DEF IsSelection
  <2>2. ASSUME NEW i \in None
        PROVE  i + 1 \in None
    <3> SUFFICES ASSUME i + 1 <= n
                 PROVE  t[i + 1] = <<>>
      OBVIOUS
    <3>1. i + 1 \in 1..n /\ i + 1 \in 1..Len(outs) /\ (i + 1) - 1 = i /\ i <= n
      BY <1>1, <1>2
    <3>2. outs[i + 1].pays # depositor
      BY <1>2, <3>1, HtlcNotDepositor
    <3>3. t[i + 1] = t[i]
      BY <3>1, <3>2 DEF IsSelection
    <3> QED  BY <3>1, <3>3
  <2>3. None \in SUBSET Nat
    OBVIOUS
  <2> HIDE DEF None
  <2>4. n \in None
    BY <1>1, <2>1, <2>2, <2>3, SuccessorsReachAll
  <2> QED  BY <1>1, <2>4 DEF None
<1>6. \A k \in 0..l : u[k] = t[n + k]
  <2>1. Len(outs) \in Nat /\ Len(rest) \in Nat /\ n + Len(rest) <= Len(outs)
    BY <1>1, <1>2, <1>3
  <2>2. \A k \in 1..Len(rest) : rest[k] = outs[n + k]
    BY <1>3, <1>4
  <2>3. Continues(rest, outs, n)
    BY <1>1, <2>1, <2>2 DEF Continues
  <2>4. Agree(u, rest, t, n)
    BY <1>1, <1>5, <2>3, SelectionsAgree
  <2> QED  BY <1>3, <2>4 DEF Agree
<1>7. ASSUME NEW m \in Nat, m <= Len(outs)
      PROVE  DepositorValuesBefore(outs, m) = t[m]
  <2> DEFINE r == SubSeq(outs, 0 + 1, m)
  <2>1. r \in Seq(Output) /\ Len(r) = m - 0
    BY <1>2, <1>7, Stretch
  <2>2. \A k \in 1..(m - 0) : r[k] = outs[0 + k]
    BY <1>2, <1>7, Stretch
  <2>3. DepositorValuesBefore(outs, m) = DepositorValues(r)
    BY DEF DepositorValuesBefore
  <2> HIDE DEF r
  <2>4. PICK w : IsSelection(w, r) /\ DepositorValues(r) = w[Len(r)]
    BY <2>1, SelectionExists
  <2>5. Len(r) = m /\ t[0] = <<>>
    BY <1>7, <2>1 DEF IsSelection
  <2>6. Continues(r, outs, 0)
    BY <1>2, <1>7, <2>2, <2>5 DEF Continues
  <2>7. Agree(w, r, t, 0)
    BY <2>4, <2>5, <2>6, SelectionsAgree
  <2>8. m \in 0..Len(r) /\ 0 + m = m
    BY <2>5
  <2> QED  BY <2>3, <2>4, <2>5, <2>7, <2>8 DEF Agree
<1>8. ASSUME NEW k \in 1..l
      PROVE  n + k - 1 \in Others(outs)
  <2>1. n + k - 1 \in 0..(Len(outs) - 1)
    BY <1>1, <1>2
  <2>2. ~IsHtlcOutput(n + k - 1)
    <3>1. \A i \in 1..n : i - 1 # n + k - 1
      BY <1>1
    <3> QED  BY <1>1, <3>1 DEF IsHtlcOutput
  <2> QED  BY <2>1, <2>2 DEF Others
<1>9. ASSUME NEW k \in 1..l
      PROVE  /\ ~rest[k].internal
             /\ \/ /\ rest[k].pays = anchor
                   /\ \A j \in 1..l : j < k => rest[j].pays # anchor
                \/ /\ rest[k].pays = depositor
                   /\ DepositorOutputAcceptable(u[k - 1], rest[k].value, change_allowed)
  <2> DEFINE m == n + k - 1
  <2>1. m \in Others(outs)
    BY <1>8
  <2>9. /\ m \in Nat /\ m <= Len(outs) /\ m + 1 = n + k /\ k - 1 \in 0..l
        /\ m = n + (k - 1)
    BY <1>1, <1>2
  <2>2. outs[m + 1] = rest[k]
    BY <1>4, <2>9
  <2>3. DepositorValuesBefore(outs, m) = u[k - 1]
    BY <1>6, <1>7, <2>9
  <2> HIDE DEF m
  <2>4. /\ ~outs[m + 1].internal
        /\ \/ /\ outs[m + 1].pays = anchor
              /\ \A j \in Others(outs) : j < m => outs[j + 1].pays # anchor
           \/ /\ outs[m + 1].pays = depositor
              /\ DepositorOutputAcceptable(DepositorValuesBefore(outs, m), outs[m + 1].value,
                                           change_allowed)
    BY <2>1 DEF OtherOutputsAcceptable
  <2>5. ASSUME \A j \in Others(outs) : j < m => outs[j + 1].pays # anchor,
               NEW j \in 1..l, j < k
        PROVE  rest[j].pays # anchor
    <3> DEFINE b == n + j - 1
    <3>1. b \in Others(outs)
      BY <1>8
    <3>2. b < m /\ b + 1 = n + j
      BY <1>1, <2>5 DEF m
    <3> HIDE DEF b
    <3>3. outs[b + 1].pays # anchor
      BY <2>5, <3>1, <3>2
    <3> QED  BY <1>4, <3>2, <3>3
  <2> QED  BY <2>2, <2>3, <2>4, <2>5
<1> DEFINE Anchors(k) == {i \in 1..k : rest[i].pays = anchor}
           Counted(k) == /\ PaidSoFar(u[k], change_allowed)
                         /\ IsFiniteSet(Anchors(k))
                         /\ Cardinality(Anchors(k)) = k - Len(u[k])
           All == {k \in Nat : k <= l => Counted(k)}
<1>10. 0 \in All
  <2>1. u[0] = <<>> /\ Len(<<>>) = 0
    BY DEF IsSelection
  <2>2. Anchors(0) = {} /\ IsFiniteSet({}) /\ Cardinality({}) = 0
    BY FS_EmptySet
  <2> HIDE DEF Anchors
  <2>3. PaidSoFar(u[0], change_allowed)
    BY <2>1 DEF PaidSoFar
  <2>4. IsFiniteSet(Anchors(0)) /\ Cardinality(Anchors(0)) = 0 - Len(u[0])
    <3> DEFINE c == Len(u[0])
    <3>0. c = 0
      BY <2>1, Zenon
    <3> HIDE DEF c
    <3>2. 0 - c = 0
      BY <3>0
    <3>1. 0 - Len(u[0]) = 0
      BY <3>2, Zenon DEF c
    <3> QED  BY <2>2, <3>1
  <2>5. Counted(0)
    BY <2>3, <2>4
  <2> HIDE DEF Counted
  <2> QED  BY <2>5
<1>11. ASSUME NEW k \in Nat, k + 1 <= l, Counted(k)
       PROVE  Counted(k + 1)
  <2>1. k + 1 \in 1..l /\ (k + 1) - 1 = k /\ k \in 0..l
    BY <1>2, <1>11
  <2>2. u[k] \in Seq(Amount) /\ rest[k + 1] \in Output /\ rest[k + 1].value \in Amount
    <3>1. rest[k + 1] \in Output
      BY <1>3, <2>1, ElementOfSeq
    <3>2. u[k] \in Seq(Amount)
      BY <1>3, <2>1 DEF IsSelection
    <3> QED  BY <3>1, <3>2 DEF Output
  <2>3. u[k + 1] = IF rest[k + 1].pays = depositor THEN Append(u[k], rest[k + 1].value)
                   ELSE u[k]
    BY <1>3, <2>1 DEF IsSelection
  <2>4. Len(u[k]) \in Nat
    BY <2>2
  <2>5. CASE rest[k + 1].pays = anchor
    <3>1. u[k + 1] = u[k]
      BY <2>3, <2>5, HtlcNotDepositor
    <3>2. Anchors(k + 1) = Anchors(k) \cup {k + 1}
      BY <2>5
    <3>3. k + 1 \notin Anchors(k)
      OBVIOUS
    <3> HIDE DEF Anchors
    <3>5. /\ PaidSoFar(u[k], change_allowed) /\ IsFiniteSet(Anchors(k))
          /\ Cardinality(Anchors(k)) = k - Len(u[k])
      BY <1>11
    <3>4. /\ IsFiniteSet(Anchors(k + 1))
          /\ Cardinality(Anchors(k + 1)) = Cardinality(Anchors(k)) + 1
      <4> DEFINE A == Anchors(k)
                 B == Anchors(k + 1)
      <4>1. B = A \cup {k + 1} /\ k + 1 \notin A /\ IsFiniteSet(A)
        BY <3>2, <3>3, <3>5
      <4> HIDE DEF A, B
      <4>2. IsFiniteSet(B) /\ Cardinality(B) = Cardinality(A) + 1
        BY <4>1, FS_AddElement
      <4> QED  BY <4>2 DEF A, B
    <3>6. k - Len(u[k]) + 1 = (k + 1) - Len(u[k + 1])
      BY <2>4, <3>1
    <3> QED  BY <3>1, <3>4, <3>5, <3>6
  <2>6. CASE rest[k + 1].pays # anchor
    <3>1. /\ rest[k + 1].pays = depositor
          /\ DepositorOutputAcceptable(u[k], rest[k + 1].value, change_allowed)
      BY <1>9, <2>1, <2>6
    <3>2. u[k + 1] = Append(u[k], rest[k + 1].value)
      BY <2>3, <3>1
    <3>3. Len(u[k + 1]) = Len(u[k]) + 1
      BY <2>2, <3>2
    <3>4. PaidSoFar(u[k + 1], change_allowed)
      BY <1>11, <2>2, <3>1, <3>2, PaidOnceMore
    <3>5. Anchors(k + 1) = Anchors(k)
      BY <2>6
    <3> HIDE DEF Anchors
    <3>6. IsFiniteSet(Anchors(k)) /\ Cardinality(Anchors(k)) = k - Len(u[k])
      BY <1>11
    <3>7. k - Len(u[k]) = (k + 1) - Len(u[k + 1])
      BY <2>4, <3>3
    <3> QED  BY <3>4, <3>5, <3>6, <3>7
  <2> QED  BY <2>5, <2>6
<1>12. Counted(l)
  <2> HIDE DEF Counted
  <2>1. All \in SUBSET Nat /\ \A k \in All : k + 1 \in All
    BY <1>2, <1>11
  <2> HIDE DEF All
  <2>2. l \in All
    BY <1>2, <1>10, <2>1, SuccessorsReachAll
  <2> QED  BY <1>2, <2>2 DEF All
<1>13. Cardinality(Anchors(l)) \in {0, 1}
  <2>1. CASE Anchors(l) = {}
    BY <2>1, FS_EmptySet
  <2>2. CASE Anchors(l) # {}
    <3>1. PICK a \in Anchors(l) : TRUE
      BY <2>2
    <3>2. ASSUME NEW b \in Anchors(l)
          PROVE  b = a
      <4>1. a \in 1..l /\ b \in 1..l /\ rest[a].pays = anchor /\ rest[b].pays = anchor
        BY <3>1
      <4>2. ~(a < b) /\ ~(b < a)
        BY <1>9, <4>1, HtlcNotDepositor
      <4> QED  BY <4>1, <4>2
    <3>3. Anchors(l) = {a}
      BY <3>1, <3>2
    <3> HIDE DEF Anchors
    <3> QED  BY <3>3, FS_Singleton
  <2> QED  BY <2>1, <2>2
<1>14. DOMAIN rest = 1..l
  BY <1>3
<1>15. Anchors(l) = {i \in DOMAIN rest : rest[i].pays = <<"auth_anchor">>}
  BY <1>14
<1>16. /\ Len(rest) - Len(u[l])
            = Cardinality({i \in DOMAIN rest : rest[i].pays = <<"auth_anchor">>})
       /\ Len(rest) - Len(u[l]) \in {0, 1}
       /\ PaidSoFar(u[l], change_allowed)
  <2> HIDE DEF Anchors
  <2> QED  BY <1>3, <1>12, <1>13, <1>15
<1>17. \A i \in DOMAIN rest : ~rest[i].internal
  BY <1>9, <1>14
<1>18. \A i \in DOMAIN groups : groups[i].htlc_vout = i - 1 /\ outs[i].pays = <<"htlc", i>>
  BY <1>1, <1>2
<1> QED  BY <1>16, <1>17, <1>18 DEF PrePegInLaid, PaidSoFar, rest

LEMMA LayoutStep ==
  ASSUME FundsInv, PrePegInLayout, [Next]_vars
  PROVE  PrePegInLayout'
<1>1. CASE Load
  <2>1. accepted'.flow = "none"
    BY <1>1 DEF Load, Nothing
  <2> QED  BY <2>1 DEF PrePegInLayout
<1>2. CASE UNCHANGED vars
  <2>1. accepted' = accepted /\ groups' = groups
    BY <1>2 DEF vars
  <2> QED  BY <2>1 DEF PrePegInLayout
<1>3. CASE phase = "loaded" /\ Sign
  <2>1. ASSUME NEW tx, SignPrePegIn(tx)
        PROVE  PrePegInLayout'
    <3>1. /\ tx.outputs \in Seq(Output)
          /\ HtlcOutputsAcceptable(tx.outputs)
          /\ OtherOutputsAcceptable(tx.outputs, tx.change_allowed)
      BY <2>1 DEF SignPrePegIn, PrePegInAcceptable
    <3>2. Len(groups) # 0
      <4>1. Len(groups) = scalars["vault_count"]
        BY <1>3 DEF FundsInv, LoadPhase
      <4>2. ScalarAcceptable("vault_count", scalars["vault_count"])
        BY <1>3 DEF FundsInv, ScalarsSound, ScalarsComplete, ScalarTags
      <4>3. scalars["vault_count"] \in 1..MaxVaults
        BY <4>2 DEF ScalarAcceptable
      <4> QED  BY <4>1, <4>3
    <3>3. PrePegInLaid(tx.outputs, tx.change_allowed)
      BY <3>1, <3>2, OutputsLaid DEF FundsInv
    <3>4. /\ groups' = groups /\ accepted'.outputs = tx.outputs
          /\ accepted'.change_allowed = tx.change_allowed
      BY <2>1 DEF SignPrePegIn, tlvVars
    <3> QED  BY <3>3, <3>4 DEF PrePegInLayout, PrePegInLaid
  <2>2. ASSUME accepted'.flow # "prepegin"
        PROVE  PrePegInLayout'
    BY <2>2 DEF PrePegInLayout
  <2>3. ASSUME NEW i, NEW htlc_value, SignPegIn(i, htlc_value)
        PROVE  PrePegInLayout'
    BY <2>2, <2>3 DEF SignPegIn
  <2>4. ASSUME NEW i, NEW tx, SignPayout(i, tx)
        PROVE  PrePegInLayout'
    BY <2>2, <2>4 DEF SignPayout
  <2>5. ASSUME NEW tx, SignPayoutFinalize(tx)
        PROVE  PrePegInLayout'
    BY <2>2, <2>5 DEF SignPayoutFinalize
  <2>6. ASSUME NEW tx, SignNoPayout(tx)
        PROVE  PrePegInLayout'
    BY <2>2, <2>6 DEF SignNoPayout
  <2> QED  BY <1>3, <2>1, <2>3, <2>4, <2>5, <2>6 DEF Sign
<1> QED  BY <1>1, <1>2, <1>3 DEF Next

(* An accepted Pre-PegIn holds the HTLCs first, one for each vault and in  *)
(* order; behind them at most one empty anchor, and to the depositor       *)
(* nothing, or the dust anchor, or the anchor and then one change, however *)
(* many vaults and outputs there are.                                      *)
THEOREM PrePegInLayoutKept == Spec => []PrePegInLayout
<1>1. Init => PrePegInLayout
  BY DEF Init, Nothing, PrePegInLayout
<1>2. FundsInv /\ PrePegInLayout /\ [Next]_vars => PrePegInLayout'
  BY LayoutStep
<1> QED  BY <1>1, <1>2, FundsInductive, PTL DEF Spec
=============================================================================
