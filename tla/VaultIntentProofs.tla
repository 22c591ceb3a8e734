-------------------------- MODULE VaultIntentProofs --------------------------
(***************************************************************************)
(* What is in force is what was sent and approved, proved for every value  *)
(* of the constants: the cursors and the hash of a load, the approved      *)
(* intent and its commitments, and that an approved intent is complete and *)
(* unambiguous.  The handler compares a record with the one before it;     *)
(* that this puts all of them in order takes an induction, which is had    *)
(* from the pigeonhole principle.                                          *)
(***************************************************************************)
EXTENDS VaultAppProofs, SequenceLemmas

(* Every record in memory was found acceptable at its place, in a load and *)
(* in an approved intent.                                                  *)
RecordsChecked ==
  approve.scalars_loaded \/ ctx.state = "INTENT_LOADED" =>
    /\ \A i \in 1..Len(intent.groups) : GroupAcceptable(intent.groups, i)
    /\ \A i \in 1..Len(intent.keys) : KeyAcceptable(intent.keys, i)

(* An approved intent has all its records, and the device's key in a role  *)
(* of its own.                                                             *)
IntentComplete ==
  ctx.state = "INTENT_LOADED" =>
    /\ Len(intent.groups) = intent.scalars.vault_count
    /\ Len(intent.keys) = KeysTotal
    /\ DepositorUnique(intent.depositor_pk, intent.keys)

LoadInv ==
  /\ LoadCursor
  /\ RecordsChecked
  /\ IntentComplete
  /\ CommitmentsBound
  /\ ApprovedIntentInForce

-----------------------------------------------------------------------------
(* What grows from each place to the next grows from any place to any      *)
(* later one.                                                              *)
LEMMA Ascending ==
  ASSUME NEW lo \in Nat, NEW hi \in Nat,
         NEW f, \A i \in lo..hi : f[i] \in Nat,
         \A i \in (lo + 1)..hi : f[i] > f[i - 1]
  PROVE  \A i, j \in lo..hi : i < j => f[i] < f[j]
<1> DEFINE S == {d \in Nat : \A i \in lo..hi :
                   i + d + 1 <= hi => f[i] < f[i + d + 1]}
<1>1. 0 \in S
  <2> SUFFICES ASSUME NEW i \in lo..hi, i + 1 <= hi
               PROVE  f[i] < f[i + 1]
    OBVIOUS
  <2>1. i + 1 \in (lo + 1)..hi /\ (i + 1) - 1 = i /\ i + 1 \in lo..hi
    OBVIOUS
  <2>2. f[i + 1] > f[(i + 1) - 1]
    BY <2>1
  <2> QED
    BY <2>1, <2>2
<1>2. \A d \in S : d + 1 \in S
  <2> SUFFICES ASSUME NEW d \in S, NEW i \in lo..hi, i + (d + 1) + 1 <= hi
               PROVE  f[i] < f[i + (d + 1) + 1]
    OBVIOUS
  <2> DEFINE j == i + d + 1
  <2>1. /\ j \in lo..hi /\ j + 1 \in (lo + 1)..hi /\ j + 1 \in lo..hi
        /\ (j + 1) - 1 = j /\ i + (d + 1) + 1 = j + 1
    OBVIOUS
  <2>2. f[i] < f[j]
    BY <2>1
  <2>3. f[j + 1] > f[(j + 1) - 1]
    BY <2>1
  <2> QED
    BY <2>1, <2>2, <2>3
<1>3. Nat \subseteq S
  <2>1. S \in SUBSET Nat
    OBVIOUS
  <2> HIDE DEF S
  <2> QED
    BY <1>1, <1>2, <2>1, SuccessorsReachAll
<1> SUFFICES ASSUME NEW i \in lo..hi, NEW j \in lo..hi, i < j
             PROVE  f[i] < f[j]
  OBVIOUS
<1>4. PICK d \in Nat : j = i + d + 1
  <2>1. (j - i) - 1 \in Nat /\ j = i + ((j - i) - 1) + 1
    OBVIOUS
  <2> QED
    BY <2>1
<1>5. d \in S
  BY <1>3
<1> QED
  BY <1>4, <1>5

-----------------------------------------------------------------------------
(* Steps that leave nothing to say: no load and no approved intent.        *)
LEMMA NothingInForce ==
  ASSUME ctx'.state # "INTENT_LOADED", ~approve'.scalars_loaded
  PROVE  LoadInv'
BY DEF LoadInv, LoadCursor, RecordsChecked, IntentComplete, CommitmentsBound,
  ApprovedIntentInForce

(* A wiped session is one of them.                                         *)
LEMMA InvalidateForgets ==
  ASSUME Invalidate
  PROVE  LoadInv'
BY NothingInForce DEF Invalidate, ZeroCtx, ZeroApprove

(* Steps that leave the load and the intent as they are; the group index   *)
(* is the signer's once an intent is loaded.                               *)
LEMMA LoadUntouched ==
  ASSUME IInv, LoadInv,
         UNCHANGED <<intent, approve, approved, sent>>,
         \/ ctx' = ctx
         \/ /\ ctx.state = "INTENT_LOADED"
            /\ \E g \in 0..MaxVaults : ctx' = [ctx EXCEPT !.vault_group_index = g]
  PROVE  LoadInv'
<1>1. ctx \in Contexts
  BY DEF IInv, TypeOK
<1>2. /\ ctx'.state = ctx.state
      /\ ctx'.context_fp = ctx.context_fp
      /\ ctx'.intent_fp = ctx.intent_fp
      /\ ctx'.htlc_hashlock = ctx.htlc_hashlock
      /\ ctx'.auth_anchor_hash = ctx.auth_anchor_hash
      /\ ctx'.derivation_path = ctx.derivation_path
      /\ ctx.state # "INTENT_LOADED" => ctx' = ctx
  BY <1>1 DEF Contexts
<1>3. LoadCursor'
  BY <1>2 DEF LoadInv, LoadCursor
<1>4. RecordsChecked' /\ IntentComplete'
  BY <1>2 DEF LoadInv, RecordsChecked, IntentComplete, GroupAcceptable, KeyAcceptable,
    KeysTotal, ProviderKeys, DepositorUnique
<1>5. CommitmentsBound'
  BY <1>2 DEF LoadInv, CommitmentsBound, SentRoot
<1>6. ApprovedIntentInForce'
  BY <1>2 DEF LoadInv, ApprovedIntentInForce, EncodeState, SentRoot
<1> QED
  BY <1>3, <1>4, <1>5, <1>6 DEF LoadInv

(* A command that is refused leaves them too.                              *)
LEMMA RefusalKeepsLoad ==
  ASSUME IInv, LoadInv, UNCHANGED <<session, stream, scratch, psbt, history>>
  PROVE  LoadInv'
BY LoadUntouched DEF session, history

-----------------------------------------------------------------------------
(* No step of a derivation leaves a load or an intent behind.              *)
LEMMA DeriveForgets ==
  ASSUME IInv, LoadInv, DeriveNext
  PROVE  LoadInv'
<1>1. CASE DeriveWrongP1P2 \/ ContinuationRefused
  BY <1>1, RefusalKeepsLoad DEF DeriveWrongP1P2, ContinuationRefused, Refuse
<1>2. CASE InitialChunkMalformed
  BY <1>2, CancelledIsZero, NothingInForce DEF InitialChunkMalformed, ZeroCtx, ZeroApprove
<1>3. ASSUME NEW st, NEW sc, Finalize(ZeroCtx, ZeroSigs, ZeroIntent, ZeroApprove, st, sc)
      PROVE  LoadInv'
  <2>1. CASE Invalidate
    BY <2>1, InvalidateForgets
  <2>2. CASE ctx' = ZeroCtx /\ approve' = ZeroApprove
    BY <2>2, NothingInForce DEF ZeroCtx, ZeroApprove
  <2>3. ASSUME NEW root,
               ctx' = [ZeroCtx EXCEPT !.state = "HASH_DERIVED",
                                      !.root = root,
                                      !.context_fp = Fingerprint(root),
                                      !.derivation_path = sc.path,
                                      !.app_name = sc.app_name_buf],
               approve' = ZeroApprove
        PROVE  LoadInv'
    BY <2>3, NothingInForce DEF ZeroCtx, ZeroApprove
  <2> QED
    BY <1>3, <2>1, <2>2, <2>3 DEF Finalize
<1>4. ASSUME NEW silent \in BOOLEAN, NEW h \in Headers, NEW chunk \in Chunks,
             \/ InitialChunkPartial(silent, h, chunk)
             \/ InitialChunkComplete(silent, h, chunk)
      PROVE  LoadInv'
  <2>1. CASE InitialChunkPartial(silent, h, chunk)
    BY <2>1, CancelledIsZero, NothingInForce DEF InitialChunkPartial, ZeroCtx, ZeroApprove
  <2>2. CASE InitialChunkComplete(silent, h, chunk)
    BY <2>2, <1>3, CancelledIsZero DEF InitialChunkComplete
  <2> QED
    BY <1>4, <2>1, <2>2
<1>5. ASSUME NEW chunk \in Chunks,
             \/ ContinuationOverrun(chunk)
             \/ ContinuationPartial(chunk)
             \/ ContinuationComplete(chunk)
      PROVE  LoadInv'
  <2>1. CASE ContinuationOverrun(chunk)
    BY <2>1, InvalidateForgets DEF ContinuationOverrun
  <2>2. stream.streaming_in_progress =>
          /\ ctx = ZeroCtx /\ sigs = ZeroSigs /\ intent = ZeroIntent
          /\ approve = ZeroApprove
    BY DEF IInv, StreamIntact, IdleIsClean
  <2>3. CASE ContinuationPartial(chunk)
    BY <2>2, <2>3, NothingInForce DEF ContinuationPartial, session, ZeroCtx, ZeroApprove
  <2>4. CASE ContinuationComplete(chunk)
    BY <2>2, <2>4, <1>3 DEF ContinuationComplete
  <2> QED
    BY <1>5, <2>1, <2>3, <2>4
<1> QED
  BY <1>1, <1>2, <1>4, <1>5 DEF DeriveNext

-----------------------------------------------------------------------------
(* A load starts: nothing of an earlier one is in memory.                  *)
LEMMA ScalarsLoadedLoad ==
  ASSUME IInv, LoadInv, NEW s \in HostScalars, ScalarsLoaded(s)
  PROVE  LoadInv'
<1>1. /\ ctx'.state = "HASH_DERIVED"
      /\ ctx'.vault_group_index = 0
  BY DEF ScalarsLoaded, DerivationKept, ZeroCtx
<1>2. /\ intent'.scalars = s
      /\ intent'.groups = <<>>
      /\ intent'.keys = <<>>
  BY DEF ScalarsLoaded, ZeroIntent
<1>3. approve'.keys_received = 0 /\ approve'.intent_hash = <<s>>
  BY DEF ScalarsLoaded, LoadBegun
<1>4. LoadCursor'
  <2>1. <<s>> \in Seq(HostScalars)
    OBVIOUS
  <2>2. <<s>> \o <<>> = <<s>>
    BY <2>1, ConcatEmptySeq
  <2>3. <<s>> \o <<>> \o <<>> = <<s>>
    BY <2>2
  <2> QED
    BY <1>1, <1>2, <1>3, <2>3, EmptySeq DEF LoadCursor
<1> QED
  BY <1>1, <1>2, <1>4, EmptySeq
  DEF LoadInv, RecordsChecked, IntentComplete, CommitmentsBound, ApprovedIntentInForce

(* Concatenation within one alphabet. *)
LEMMA ConcatsAssociate ==
  ASSUME NEW S, NEW s \in Seq(S), NEW t \in Seq(S), NEW u \in Seq(S)
  PROVE  (s \o t) \o u = s \o (t \o u)
BY ConcatAssociative

(* A batch of groups, each one compared with the record before it.         *)
LEMMA GroupsLoadedLoad ==
  ASSUME IInv, LoadInv, NEW b \in SeqOf(HostGroups, MaxBatch), GroupsLoaded(b)
  PROVE  LoadInv'
<1>1. approve.scalars_loaded /\ b \in Seq(GroupRecords)
  BY BatchIsSeq, SeqMonotonic, HostAssumption DEF GroupsLoaded
<1>2. PICK n \in Nat : n = Len(b)
  BY <1>1, LenProperties
<1> DEFINE m == Len(intent.groups)
           v == intent.scalars.vault_count
<1>3. /\ m \in Nat
      /\ v \in Nat
      /\ GroupsWith(b) = intent.groups \o b
      /\ Len(intent.groups \o b) = m + n
  <2>1. intent.groups \in Seq(GroupRecords) /\ m \in Nat /\ v \in Nat
    BY <1>1, LoadTyped, LenProperties, BoundsAssumption DEF Scalars
  <2>2. /\ SubSeq(intent.groups, 1, m) \o b = intent.groups \o b
        /\ Len(intent.groups \o b) = m + n
    BY <1>1, <1>2, <2>1, RecordsAppended, ZenonT(20)
  <2> QED
    BY <1>1, <2>1, <2>2, LoadTyped DEF GroupsWith
<1>4. \A i \in 1..m : (intent.groups \o b)[i] = intent.groups[i]
  BY <1>1, LoadTyped, ConcatProperties
<1>5. /\ ctx'.state = "HASH_DERIVED"
      /\ ctx'.vault_group_index = m + n
  <2>1. /\ ctx' = [ctx EXCEPT !.vault_group_index = ctx.vault_group_index + n]
        /\ ctx \in Contexts
    BY <1>2 DEF GroupsLoaded, IInv, TypeOK
  <2> QED
    BY <1>1, <2>1, LoadTyped DEF Contexts
<1>6. /\ intent'.scalars = intent.scalars
      /\ intent'.groups = intent.groups \o b
      /\ intent'.keys = intent.keys
  <2>1. intent' = [intent EXCEPT !.groups = intent.groups \o b] /\ intent \in Intents
    BY <1>3 DEF GroupsLoaded, IInv, TypeOK
  <2> QED
    BY <2>1 DEF Intents
<1>7. /\ approve'.keys_received = approve.keys_received
      /\ approve'.intent_hash = approve.intent_hash \o b
      /\ approve'.scalars_loaded
  BY <1>1 DEF GroupsLoaded, IInv, TypeOK, Approvals
\* Once there are keys, all groups are there.
<1>8. intent.keys # <<>> => b = <<>>
  <2> SUFFICES ASSUME intent.keys # <<>>, n # 0
               PROVE  FALSE
    BY <1>1, <1>2, EmptySeq
  <2>1. GroupAcceptable(GroupsWith(b), m + n)
    <3>1. m + n \in (m + 1)..(m + n) /\ ctx.vault_group_index = m
      BY <1>1, <1>3, LoadTyped
    <3> QED
      BY <1>2, <3>1 DEF GroupsLoaded
  <2>2. m = v
    BY <1>1 DEF LoadInv, LoadCursor
  <2> QED
    BY <1>3, <2>1, <2>2 DEF GroupAcceptable
<1>9. LoadCursor'
  <2>1. approve'.intent_hash = <<intent'.scalars>> \o intent'.groups \o intent'.keys
    <3>1. approve.intent_hash = <<intent.scalars>> \o intent.groups \o intent.keys
      BY <1>1 DEF LoadInv, LoadCursor
    <3> DEFINE A == Scalars \cup GroupRecords \cup KeyEntries
    <3>2. /\ <<intent.scalars>> \in Seq(A) /\ intent.groups \in Seq(A)
          /\ b \in Seq(A) /\ intent.keys \in Seq(A)
      BY <1>1, LoadTyped, SeqMonotonic
    <3> HIDE DEF A
    <3>3. CASE b = <<>>
      <4>1. /\ intent.groups \o b = intent.groups
            /\ approve.intent_hash \in Seq(A)
        BY <3>1, <3>2, <3>3, ConcatEmptySeq, ConcatProperties
      <4> QED
        BY <1>6, <1>7, <3>1, <3>3, <4>1, ConcatEmptySeq
    <3>4. CASE intent.keys = <<>>
      <4>1. <<intent.scalars>> \o intent.groups \in Seq(A)
            /\ intent.groups \o b \in Seq(A)
            /\ <<intent.scalars>> \o (intent.groups \o b) \in Seq(A)
        BY <3>2, ConcatProperties
      <4>2. /\ (<<intent.scalars>> \o intent.groups) \o <<>>
                 = <<intent.scalars>> \o intent.groups
            /\ (<<intent.scalars>> \o (intent.groups \o b)) \o <<>>
                 = <<intent.scalars>> \o (intent.groups \o b)
        BY <4>1, ConcatEmptySeq
      <4>3. (<<intent.scalars>> \o intent.groups) \o b
              = <<intent.scalars>> \o (intent.groups \o b)
        <5>1. \A s, t, u \in Seq(A) : (s \o t) \o u = s \o (t \o u)
          BY ConcatsAssociate
        <5> QED
          BY <3>2, <5>1, Zenon
      <4> QED
        BY <1>6, <1>7, <3>1, <3>4, <4>2, <4>3
    <3> QED
      BY <1>8, <3>3, <3>4
  <2>2. intent'.keys # <<>> => Len(intent'.groups) = intent'.scalars.vault_count
    <3> SUFFICES ASSUME intent.keys # <<>>
                 PROVE  m + n = v
      BY <1>3, <1>6
    <3>1. m = v
      BY <1>1 DEF LoadInv, LoadCursor
    <3> QED
      BY <1>2, <1>3, <1>8, <3>1, EmptySeq
  <2>3. approve'.keys_received = Len(intent'.keys)
    BY <1>1, <1>6, <1>7, LoadTyped
  <2> QED
    BY <1>3, <1>5, <1>6, <2>1, <2>2, <2>3 DEF LoadCursor
<1>10. RecordsChecked'
  <2>1. ASSUME NEW i \in 1..(m + n)
        PROVE  GroupAcceptable(intent.groups \o b, i)
    <3>1. CASE i \in 1..m
      <4>1. GroupAcceptable(intent.groups, i)
        BY <1>1, <3>1 DEF LoadInv, RecordsChecked
      <4>2. i > 1 => i - 1 \in 1..m
        BY <1>3, <3>1
      <4> QED
        BY <1>4, <3>1, <4>1, <4>2 DEF GroupAcceptable
    <3>2. CASE i \in (m + 1)..(m + n)
      BY <1>1, <1>2, <1>3, <3>2, LoadTyped DEF GroupsLoaded
    <3> QED
      BY <1>3, <3>1, <3>2
  <2>2. ASSUME NEW i \in 1..Len(intent.keys)
        PROVE  KeyAcceptable(intent.keys, i)'
    <3>1. KeyAcceptable(intent.keys, i)
      BY <1>1 DEF LoadInv, RecordsChecked
    <3>2. intent'.groups = intent.groups
      BY <1>1, <1>6, <1>8, LoadTyped, ConcatEmptySeq, EmptySeq
    <3> QED
      BY <1>6, <3>1, <3>2 DEF KeyAcceptable, KeysTotal, ProviderKeys
  <2> QED
    BY <1>3, <1>6, <2>1, <2>2 DEF RecordsChecked, GroupAcceptable
<1> QED
  BY <1>5, <1>9, <1>10 DEF LoadInv, IntentComplete, CommitmentsBound, ApprovedIntentInForce

(* A batch of keys, each one compared with those before it and with the    *)
(* providers' keys.                                                        *)
LEMMA KeysChecked ==
  ASSUME IInv, LoadInv, approve.scalars_loaded,
         NEW b \in SeqOf(HostKeys, MaxBatch), KeysAcceptable(b)
  PROVE  \A i \in 1..Len(KeysWith(b)) : KeyAcceptable(KeysWith(b), i)
<1>1. b \in Seq(KeyEntries)
  BY BatchIsSeq, SeqMonotonic, HostAssumption
<1>2. PICK m \in Nat, n \in Nat : m = Len(intent.keys) /\ n = Len(b)
  BY <1>1, LoadTyped, LenProperties
<1>3. KeysWith(b) = intent.keys \o b /\ Len(KeysWith(b)) = m + n
  BY <1>2, KeysAppended
<1>4. \A i \in 1..m : KeysWith(b)[i] = intent.keys[i]
  BY <1>1, <1>2, <1>3, LoadTyped, ConcatProperties
<1> SUFFICES ASSUME NEW i \in 1..(m + n)
             PROVE  KeyAcceptable(KeysWith(b), i)
  BY <1>3
<1>5. CASE i \in 1..m
  <2>1. KeyAcceptable(intent.keys, i)
    BY <1>2, <1>5 DEF LoadInv, RecordsChecked
  <2>2. (i > 1 => i - 1 \in 1..m) /\ (\A j \in 1..(i - 1) : j \in 1..m)
    BY <1>2, <1>5
  <2> QED
    BY <1>4, <1>5, <2>1, <2>2 DEF KeyAcceptable
<1>6. CASE i \in (m + 1)..(m + n)
  BY <1>2, <1>6, LoadTyped DEF KeysAcceptable
<1> QED
  BY <1>5, <1>6

(* The running hash absorbs a batch of keys behind all it has absorbed.    *)
LEMMA KeysHashed ==
  ASSUME IInv, LoadInv, approve.scalars_loaded, NEW b \in SeqOf(HostKeys, MaxBatch)
  PROVE  approve.intent_hash \o b = <<intent.scalars>> \o intent.groups \o KeysWith(b)
<1> DEFINE A == Scalars \cup GroupRecords \cup KeyEntries
<1>1. /\ <<intent.scalars>> \in Seq(A) /\ intent.groups \in Seq(A)
      /\ b \in Seq(A) /\ intent.keys \in Seq(A)
  <2>1. b \in Seq(KeyEntries)
    BY BatchIsSeq, SeqMonotonic, HostAssumption
  <2> QED
    BY <2>1, LoadTyped, SeqMonotonic
<1>2. /\ approve.intent_hash = <<intent.scalars>> \o intent.groups \o intent.keys
      /\ KeysWith(b) = intent.keys \o b
  BY KeysAppended DEF LoadInv, LoadCursor
<1> HIDE DEF A
<1>3. <<intent.scalars>> \o intent.groups \in Seq(A)
  BY <1>1, ConcatProperties
<1>4. \A s, t, u \in Seq(A) : (s \o t) \o u = s \o (t \o u)
  BY ConcatsAssociate
<1>5. ((<<intent.scalars>> \o intent.groups) \o intent.keys) \o b
        = (<<intent.scalars>> \o intent.groups) \o (intent.keys \o b)
  BY <1>1, <1>3, <1>4, Zenon
<1> QED
  BY <1>2, <1>5

(* What makes a key acceptable are the scalars and the providers.          *)
LEMMA KeyAcceptableKept ==
  ASSUME NEW keys, NEW i, KeyAcceptable(keys, i),
         intent'.scalars = intent.scalars, intent'.groups = intent.groups
  PROVE  /\ i <= KeysTotal'
         /\ keys[i].tag = IF i <= intent'.scalars.keeper_count
                          THEN "keeper" ELSE "challenger"
         /\ keys[i].key \in ValidKeys
         /\ i \notin {1, intent'.scalars.keeper_count + 1} =>
              keys[i].key > keys[i - 1].key
         /\ keys[i].key \notin ProviderKeys'
         /\ \A j \in 1..(i - 1) : keys[j].key # keys[i].key
BY DEF KeyAcceptable, KeysTotal, ProviderKeys

(* The records stay checked when a batch of keys has been found in order.  *)
LEMMA RecordsStayChecked ==
  ASSUME IInv, LoadInv, approve.scalars_loaded,
         NEW b \in SeqOf(HostKeys, MaxBatch), KeysAcceptable(b),
         intent'.scalars = intent.scalars, intent'.groups = intent.groups,
         intent'.keys = KeysWith(b)
  PROVE  RecordsChecked'
<1>1. \A i \in 1..Len(intent.groups) : GroupAcceptable(intent.groups, i)
  BY DEF LoadInv, RecordsChecked
<1>2. (\A i \in 1..Len(intent.groups) : GroupAcceptable(intent.groups, i))'
  BY <1>1 DEF GroupAcceptable
<1>3. (\A i \in 1..Len(intent.keys) : KeyAcceptable(intent.keys, i))'
  <2> SUFFICES ASSUME NEW i \in 1..Len(KeysWith(b))
               PROVE  KeyAcceptable(intent.keys, i)'
    OBVIOUS
  <2>1. KeyAcceptable(KeysWith(b), i)
    BY KeysChecked
  <2> QED
    BY <2>1, KeyAcceptableKept DEF KeyAcceptable
<1> QED
  BY <1>2, <1>3 DEF RecordsChecked

(* A batch of keys short of the total.                                     *)
LEMMA KeysLoadedLoad ==
  ASSUME IInv, LoadInv, NEW b \in SeqOf(HostKeys, MaxBatch), KeysLoaded(b)
  PROVE  LoadInv'
<1>1. /\ approve.scalars_loaded /\ KeysExpected /\ KeysAcceptable(b)
      /\ intent \in Intents /\ approve \in Approvals
  BY DEF KeysLoaded, IInv, TypeOK
<1>2. /\ intent'.scalars = intent.scalars
      /\ intent'.groups = intent.groups
      /\ intent'.keys = KeysWith(b)
      /\ ctx' = ctx
  BY <1>1 DEF KeysLoaded, Intents
<1>3. /\ approve'.keys_received = approve.keys_received + Len(b)
      /\ approve'.intent_hash = approve.intent_hash \o b
  BY <1>1 DEF KeysLoaded, Approvals
<1>4. Len(KeysWith(b)) = Len(intent.keys) + Len(b)
  BY <1>1, KeysAppended
<1>5. LoadCursor'
  BY <1>1, <1>2, <1>3, <1>4, KeysHashed, LoadTyped DEF LoadCursor, KeysExpected
<1>6. RecordsChecked'
  BY <1>1, <1>2, RecordsStayChecked
<1> QED
  BY <1>1, <1>2, <1>5, <1>6, LoadTyped
  DEF LoadInv, IntentComplete, CommitmentsBound, ApprovedIntentInForce

(* The user approves: what is in force is what was loaded.                 *)
LEMMA IntentApprovedLoad ==
  ASSUME IInv, LoadInv, NEW b \in SeqOf(HostKeys, MaxBatch), IntentApproved(b)
  PROVE  LoadInv'
<1>1. /\ approve.scalars_loaded /\ KeysExpected /\ KeysAcceptable(b)
      /\ Bindable(KeysWith(b)) /\ approve.keys_received + Len(b) = KeysTotal
      /\ intent \in Intents /\ ctx \in Contexts
  BY DEF IntentApproved, KeysComplete, IInv, TypeOK
<1> DEFINE v == intent.scalars.vault_count
           pk == DepositorKeyAt[intent.scalars.depositor_path]
           hashlocks == [g \in 1..v |-> Hashlock(ctx.root, intent.groups[g].htlc_vout)]
<1>2. /\ intent'.scalars = intent.scalars
      /\ intent'.groups = intent.groups
      /\ intent'.keys = KeysWith(b)
      /\ intent'.depositor_pk = pk
      /\ approved' = intent'
  <2>1. intent' = [intent EXCEPT !.keys = KeysWith(b), !.depositor_pk = pk]
        /\ approved' = intent'
    BY DEF IntentApproved
  <2> QED
    BY <1>1, <2>1 DEF Intents
<1>3. /\ ctx'.state = "INTENT_LOADED"
      /\ ctx'.htlc_hashlock = hashlocks
      /\ ctx'.auth_anchor_hash = AuthAnchor(ctx.root)
      /\ ctx'.intent_fp = Fingerprint(approve.intent_hash \o b)
      /\ ctx'.context_fp = ctx.context_fp
      /\ ctx'.derivation_path = ctx.derivation_path
  <2> HIDE DEF hashlocks
  <2>1. ctx' = [ctx EXCEPT !.state = "INTENT_LOADED",
                           !.root = Zero,
                           !.htlc_hashlock = hashlocks,
                           !.auth_anchor_hash = AuthAnchor(ctx.root),
                           !.intent_fp = Fingerprint(approve.intent_hash \o b)]
    BY DEF IntentApproved, hashlocks
  <2> QED
    BY <1>1, <2>1 DEF Contexts
<1>4. /\ ~approve'.scalars_loaded
      /\ SentRoot' = SentRoot
      /\ ctx.root = SentRoot
      /\ ctx.context_fp = Fingerprint(SentRoot)
  BY <1>1, LoadTyped
  DEF IntentApproved, ZeroApprove, SentRoot, IInv, DerivedFromWhatWasSent
<1>5. Len(intent.groups) = v
  BY <1>1, LoadTyped DEF KeysExpected
<1>6. RecordsChecked'
  BY <1>1, <1>2, RecordsStayChecked
<1>7. IntentComplete'
  <2>1. Len(KeysWith(b)) = KeysTotal
    BY <1>1, KeysAppended, LoadTyped
  <2>2. DepositorUnique(pk, KeysWith(b))
    BY <1>1 DEF Bindable
  <2> QED
    BY <1>2, <1>5, <2>1, <2>2 DEF IntentComplete, DepositorUnique, KeysTotal, ProviderKeys
<1>8. CommitmentsBound'
  <2>1. hashlocks = Commitments(intent, SentRoot)
    <3>1. DOMAIN intent.groups = 1..v
      BY <1>1, <1>5, LoadTyped, LenProperties
    <3> QED
      BY <1>4, <3>1 DEF Commitments
  <2>2. Commitments(intent', SentRoot) = Commitments(intent, SentRoot)
    BY <1>2 DEF Commitments
  <2>3. ctx.derivation_path = intent.scalars.depositor_path
    BY <1>1 DEF Bindable
  <2> HIDE DEF hashlocks
  <2> QED
    BY <1>2, <1>3, <1>4, <2>1, <2>2, <2>3 DEF CommitmentsBound
<1>9. ApprovedIntentInForce'
  <2>1. approve.intent_hash \o b = <<intent.scalars>> \o intent.groups \o KeysWith(b)
    BY <1>1, KeysHashed
  <2> HIDE DEF hashlocks
  <2> QED
    BY <1>2, <1>3, <1>4, <2>1 DEF ApprovedIntentInForce, EncodeState
<1> QED
  BY <1>4, <1>6, <1>7, <1>8, <1>9 DEF LoadInv, LoadCursor

(* Every APPROVE_VAULT_INTENT step preserves LoadInv.                      *)
LEMMA ApproveKeepsLoad ==
  ASSUME IInv, LoadInv, ApproveNext
  PROVE  LoadInv'
<1>1. CASE ApproveWrongP1P2 \/ ScalarsRefused \/ NothingLoading
  BY <1>1, RefusalKeepsLoad DEF ApproveWrongP1P2, ScalarsRefused, NothingLoading, Refuse
<1>2. CASE ScalarsMalformed \/ GroupsRejected \/ KeysTooEarly \/ KeysRejected
  BY <1>2, InvalidateForgets
  DEF ScalarsMalformed, GroupsRejected, KeysTooEarly, KeysRejected, RejectLoad
<1>3. ASSUME NEW b \in SeqOf(HostKeys, MaxBatch), IntentRejected(b)
      PROVE  LoadInv'
  BY <1>3, InvalidateForgets DEF IntentRejected, RejectLoad
<1> QED
  BY <1>1, <1>2, <1>3, ScalarsLoadedLoad, GroupsLoadedLoad, KeysLoadedLoad,
     IntentApprovedLoad
  DEF ApproveNext

-----------------------------------------------------------------------------
(* SIGN_PSBT touches no intent: a step of it either wipes the session or   *)
(* changes nothing of it but the signer's own bookkeeping and group index. *)
LEMMA SigningKeepsIntent ==
  ASSUME IInv, SignNext
  PROVE  \/ Invalidate
         \/ /\ UNCHANGED <<intent, approve, approved, sent>>
            /\ \/ ctx' = ctx
               \/ /\ ctx.state = "INTENT_LOADED"
                  /\ \E g \in 0..MaxVaults : ctx' = [ctx EXCEPT !.vault_group_index = g]
<1> DEFINE Kept ==
      /\ UNCHANGED <<intent, approve, approved, sent>>
      /\ \/ ctx' = ctx
         \/ /\ ctx.state = "INTENT_LOADED"
            /\ \E g \in 0..MaxVaults : ctx' = [ctx EXCEPT !.vault_group_index = g]
<1>1. CASE PsbtUnreadable \/ AbortStream
  BY <1>1 DEF PsbtUnreadable, Refuse, AbortStream, session, history
<1>2. CASE \/ BaseSigns \/ BaseSigningFails \/ SignNothing \/ SignPegIn \/ SignPayout
           \/ SignNoPayout \/ SignStandalone \/ StandaloneSigningFails
  BY <1>2
  DEF BaseSigns, BaseSigningFails, SignNothing, SignPegIn, SignPayout, SignNoPayout,
      SignStandalone, StandaloneSigningFails, SigningFails, EndSigning, session, history
<1>3. CASE \/ PegInSigningFails \/ PegInYieldFails \/ PayoutSigningFails
           \/ PayoutYieldFails \/ NoPayoutSigningFails \/ NoPayoutYieldFails
  BY <1>3
  DEF PegInSigningFails, PegInYieldFails, PayoutSigningFails, PayoutYieldFails,
      NoPayoutSigningFails, NoPayoutYieldFails, InvalidateSigning
<1>4. ASSUME NEW tx \in Psbts, ValidateNext(tx)
      PROVE  Invalidate \/ Kept
  <2>1. ASSUME NEW sw, RejectPsbt(sw)
        PROVE  Kept
    BY <2>1 DEF RejectPsbt, EndSigning, session
  <2>2. ASSUME NEW s, NEW flow, NEW codes,
               RejectPsbtRecorded(codes, ctx, s) \/ Accept(tx, flow, ctx, s)
        PROVE  Kept
    BY <2>2 DEF RejectPsbtRecorded, Accept, EndSigning, history
  <2>3. ASSUME Loaded, NEW g \in 0..MaxVaults, NEW s, NEW flow, NEW codes,
               \/ RejectPsbtRecorded(codes, [ctx EXCEPT !.vault_group_index = g], s)
               \/ Accept(tx, flow, [ctx EXCEPT !.vault_group_index = g], s)
        PROVE  Kept
    BY <2>3 DEF RejectPsbtRecorded, Accept, EndSigning, history, Loaded
  <2>4. ASSUME CapExceeded
        PROVE  Invalidate
    BY <2>4 DEF CapExceeded
  <2> HIDE DEF Kept
  <2>5. CASE NeedsIntent(tx) \/ PegInUnmatched(tx) \/ PayoutUnmatched(tx) \/ MatchesNoFlow(tx)
    BY <2>1, <2>5 DEF NeedsIntent, PegInUnmatched, PayoutUnmatched, MatchesNoFlow
  <2>6. CASE ValidatePrePegIn(tx)
    BY <2>1, <2>2, <2>4, <2>6 DEF ValidatePrePegIn
  <2>7. CASE ValidatePegIn(tx)
    <3>1. \A g \in PegInGroups(tx) : g \in 0..MaxVaults
      BY <2>7, CountsTyped, BoundsAssumption DEF ValidatePegIn, PegInGroups
    <3> QED
      BY <2>3, <2>4, <2>7, <3>1 DEF ValidatePegIn
  <2>8. CASE ValidatePayout(tx)
    <3>1. Loaded
      BY <2>8, PayoutNeedsIntent DEF ValidatePayout, Validating
    <3>2. \A g \in PayoutGroups(tx) : g \in 0..MaxVaults
      BY <3>1, CountsTyped, BoundsAssumption DEF PayoutGroups
    <3>3. PICK g \in PayoutGroups(tx) : \E c \in Claimers(tx, g) :
            \/ CapExceeded
            \/ RejectPsbtRecorded(PayoutRefusals(tx, c),
                                  [ctx EXCEPT !.vault_group_index = g],
                                  [sigs EXCEPT !.payout_index = c])
            \/ Accept(tx, "Payout", [ctx EXCEPT !.vault_group_index = g],
                      [[sigs EXCEPT !.payout_index = c]
                         EXCEPT !.is_payout_signing = TRUE])
      BY <2>8 DEF ValidatePayout
    <3> QED
      BY <2>3, <2>4, <3>1, <3>2, <3>3
  <2>9. CASE ValidateNoPayout(tx)
    BY <2>1, <2>2, <2>4, <2>9 DEF ValidateNoPayout
  <2>10. ASSUME NEW flow \in StandaloneFlows,
                ValidateStandalone(tx, flow) \/ DenyStandalone(tx, flow)
         PROVE  Kept
    <3>1. CASE ValidateStandalone(tx, flow)
      BY <2>2, <3>1 DEF ValidateStandalone
    <3>2. CASE DenyStandalone(tx, flow)
      BY <3>2 DEF DenyStandalone, EndSigning, Kept
    <3> QED
      BY <2>10, <3>1, <3>2
  <2> QED
    BY <1>4, <2>5, <2>6, <2>7, <2>8, <2>9, <2>10 DEF ValidateNext
<1> QED
  BY <1>1, <1>2, <1>3, <1>4 DEF SignNext

-----------------------------------------------------------------------------

(* LoadInv is inductive over IInv.                                         *)
THEOREM LoadInductive == Spec => []LoadInv
<1>1. Init => LoadInv
  BY DEF Init, Boot, ZeroCtx, ZeroApprove, LoadInv, LoadCursor, RecordsChecked,
    IntentComplete, CommitmentsBound, ApprovedIntentInForce
<1>2. IInv /\ LoadInv /\ [Next]_vars => LoadInv'
  <2> SUFFICES ASSUME IInv, LoadInv, [Next]_vars
               PROVE  LoadInv'
    OBVIOUS
  <2>1. CASE UNCHANGED vars
    BY <2>1, RefusalKeepsLoad DEF vars, session, history
  <2>2. CASE PowerCycle
    BY <2>2, NothingInForce DEF PowerCycle, ZeroCtx, ZeroApprove
  <2>3. CASE SignNext
    BY <2>3, SigningKeepsIntent, LoadUntouched, InvalidateForgets
  <2> QED
    BY <2>1, <2>2, <2>3, DeriveForgets, ApproveKeepsLoad DEF Next
<1> QED
  BY <1>1, <1>2, Inductive, PTL DEF Spec

(* The cursors and the running hash describe the records in memory.        *)
THEOREM CursorTrue == Spec => []LoadCursor
<1>1. LoadInv => LoadCursor
  BY DEF LoadInv
<1> QED
  BY <1>1, LoadInductive, PTL

(* The commitments are the approved groups', under the derived root.       *)
THEOREM CommitmentsTrue == Spec => []CommitmentsBound
<1>1. LoadInv => CommitmentsBound
  BY DEF LoadInv
<1> QED
  BY <1>1, LoadInductive, PTL

(* The signer reads the intent the user approved, and its fingerprint is   *)
(* the reported one.                                                       *)
THEOREM ApprovedInForce == Spec => []ApprovedIntentInForce
<1>1. LoadInv => ApprovedIntentInForce
  BY DEF LoadInv
<1> QED
  BY <1>1, LoadInductive, PTL

-----------------------------------------------------------------------------
(* Records compared with the one before them are all in order.             *)
LEMMA WellFormed ==
  ASSUME IInv, LoadInv
  PROVE  ApprovedIntentWellFormed
<1> SUFFICES ASSUME ctx.state = "INTENT_LOADED"
             PROVE  ApprovedIntentWellFormed
  BY DEF ApprovedIntentWellFormed
<1> DEFINE s == intent.scalars
           v == s.vault_count
           k == s.keeper_count
           total == s.keeper_count + s.challenger_count
           groups == intent.groups
           keys == intent.keys
<1>1. /\ v \in Nat /\ k \in Nat /\ total \in Nat /\ k <= total
      /\ groups \in Seq(GroupRecords)
      /\ keys \in Seq(KeyEntries)
  BY BoundsAssumption DEF IInv, TypeOK, IntentPresent, Scalars, Intents
<1>2. /\ Len(groups) = v
      /\ Len(keys) = total
      /\ DepositorUnique(intent.depositor_pk, keys)
  BY DEF LoadInv, IntentComplete, KeysTotal
<1>3. \A g \in 1..v : GroupAcceptable(groups, g)
  BY <1>2 DEF LoadInv, RecordsChecked
<1>4. \A i \in 1..total : KeyAcceptable(keys, i)
  BY <1>2 DEF LoadInv, RecordsChecked
<1>5. /\ \A g \in 1..v : groups[g].htlc_vout \in Nat
      /\ \A i \in 1..total : keys[i].key \in Nat
  <2>1. (\A g \in 1..v : groups[g] \in GroupRecords) /\ (\A i \in 1..total : keys[i] \in KeyEntries)
    BY <1>1, <1>2, ElementOfSeq
  <2> QED
    BY <2>1, KeysAssumption DEF GroupRecords, KeyEntries
<1>6. \A g, h \in 1..v : g < h => groups[g].htlc_vout < groups[h].htlc_vout
  <2> DEFINE f == [g \in 1..v |-> groups[g].htlc_vout]
  <2>1. \A g \in 1..v : f[g] \in Nat
    BY <1>5
  <2>2. \A g \in (1 + 1)..v : f[g] > f[g - 1]
    <3> SUFFICES ASSUME NEW g \in (1 + 1)..v
                 PROVE  f[g] > f[g - 1]
      OBVIOUS
    <3>1. g \in 1..v /\ g - 1 \in 1..v /\ g > 1
      BY <1>1
    <3>2. groups[g].htlc_vout > groups[g - 1].htlc_vout
      BY <1>3, <3>1 DEF GroupAcceptable
    <3> QED
      BY <3>1, <3>2
  <2> HIDE DEF f
  <2>3. \A g, h \in 1..v : g < h => f[g] < f[h]
    BY <1>1, <2>1, <2>2, Ascending
  <2> QED
    BY <2>3 DEF f
<1>7. \A i \in 1..total : keys[i].tag = IF i <= k THEN "keeper" ELSE "challenger"
  BY <1>4 DEF KeyAcceptable
<1>8. ASSUME NEW lo \in 1..(total + 1), NEW hi \in 0..total,
             \A i \in (lo + 1)..hi : i \notin {1, k + 1}
      PROVE  \A i, j \in lo..hi : i < j => keys[i].key < keys[j].key
  <2> DEFINE f == [i \in 1..total |-> keys[i].key]
  <2>1. \A i \in lo..hi : i \in 1..total /\ f[i] = keys[i].key /\ f[i] \in Nat
    BY <1>1, <1>5
  <2>2. \A i \in (lo + 1)..hi : f[i] > f[i - 1]
    <3> SUFFICES ASSUME NEW i \in (lo + 1)..hi
                 PROVE  f[i] > f[i - 1]
      OBVIOUS
    <3>1. i \in 1..total /\ i - 1 \in 1..total
      BY <1>1
    <3>2. keys[i].key > keys[i - 1].key
      BY <1>4, <1>8, <3>1 DEF KeyAcceptable
    <3> QED
      BY <3>1, <3>2
  <2> HIDE DEF f
  <2>3. lo \in Nat /\ hi \in Nat
    BY <1>1
  <2>4. (\A i \in lo..hi : f[i] \in Nat) /\ (\A i \in (lo + 1)..hi : f[i] > f[i - 1])
    BY <2>1, <2>2
  <2>5. \A i, j \in lo..hi : i < j => f[i] < f[j]
    BY <2>3, <2>4, Ascending
  <2> QED
    BY <2>1, <2>5
<1>9. \A i, j \in 1..k : i < j => keys[i].key < keys[j].key
  BY <1>1, <1>8
<1>10. \A i, j \in (k + 1)..total : i < j => keys[i].key < keys[j].key
  BY <1>1, <1>8
<1>11. \A i, j \in 1..total : keys[i].key = keys[j].key => i = j
  <2> SUFFICES ASSUME NEW i \in 1..total, NEW j \in 1..total, j < i
               PROVE  keys[j].key # keys[i].key
    BY <1>1
  <2> QED
    BY <1>1, <1>4 DEF KeyAcceptable
<1>12. \A i, j \in 1..total : i < j /\ keys[i].tag = keys[j].tag => keys[i].key < keys[j].key
  <2> SUFFICES ASSUME NEW i \in 1..total, NEW j \in 1..total, i < j,
                      keys[i].tag = keys[j].tag
               PROVE  keys[i].key < keys[j].key
    OBVIOUS
  <2>1. i <= k <=> j <= k
    BY <1>7
  <2> QED
    BY <1>1, <1>9, <1>10, <2>1
<1>13. \A i \in 1..total : keys[i].key \notin PartyKeys(intent)
  <2>1. DOMAIN groups = 1..v
    BY <1>1, <1>2, LenProperties
  <2> QED
    BY <1>2, <1>4, <2>1
    DEF PartyKeys, KeyAcceptable, ProviderKeys, DepositorUnique, KeysTotal
<1>14. \A g \in 1..v : groups[g].vault_provider_pk # intent.depositor_pk
  BY <1>2 DEF DepositorUnique, ProviderKeys
<1>15. \A i \in 1..total : i <= k <=> keys[i].tag = "keeper"
  BY <1>7
<1> QED
  BY <1>2, <1>6, <1>11, <1>12, <1>13, <1>14, <1>15 DEF ApprovedIntentWellFormed

(* An approved intent is complete and unambiguous.                         *)
THEOREM ApprovedWellFormed == Spec => []ApprovedIntentWellFormed
<1>1. IInv /\ LoadInv => ApprovedIntentWellFormed
  BY WellFormed
<1> QED
  BY <1>1, Inductive, LoadInductive, PTL
-----------------------------------------------------------------------------
(* What a refusal leaves behind. *)

(* While a load is in progress the last answer of APPROVE_VAULT_INTENT was *)
(* no refusal but that of a bad P1/P2.  It matters because SIGN_PSBT       *)
(* leaves the last answer standing until it has one of its own.            *)
Unrefused ==
  approve.scalars_loaded /\ resp.ins = "approve" => resp.sw \in {"OK", "WRONG_P1P2"}

(* DERIVE_CONTEXT_HASH always answers in its own name.                     *)
LEMMA DeriveAnswers ==
  ASSUME DeriveNext
  PROVE  resp'.ins = "derive"
<1>1. ASSUME NEW c, NEW s, NEW i, NEW a, NEW st, NEW sc, Finalize(c, s, i, a, st, sc)
      PROVE  resp'.ins = "derive"
  BY <1>1 DEF Finalize, Respond
<1>2. CASE DeriveWrongP1P2 \/ ContinuationRefused \/ InitialChunkMalformed
  BY <1>2 DEF DeriveWrongP1P2, ContinuationRefused, InitialChunkMalformed, Refuse, Respond
<1>3. ASSUME NEW silent, NEW h, NEW chunk,
             \/ InitialChunkPartial(silent, h, chunk)
             \/ ContinuationOverrun(chunk)
             \/ ContinuationPartial(chunk)
      PROVE  resp'.ins = "derive"
  BY <1>3 DEF InitialChunkPartial, ContinuationOverrun, ContinuationPartial, Respond
<1>4. ASSUME NEW silent, NEW h, NEW chunk,
             InitialChunkComplete(silent, h, chunk) \/ ContinuationComplete(chunk)
      PROVE  resp'.ins = "derive"
  BY <1>1, <1>4 DEF InitialChunkComplete, ContinuationComplete
<1> QED
  BY <1>2, <1>3, <1>4 DEF DeriveNext

(* SIGN_PSBT answers in its own name, or not yet.                          *)
LEMMA SigningAnswers ==
  ASSUME SignNext
  PROVE  resp' = resp \/ resp'.ins = "sign"
<1>1. ASSUME NEW sw, EndSigning(sw)
      PROVE  resp'.ins = "sign"
  BY <1>1 DEF EndSigning, Respond
<1>2. CASE PsbtUnreadable \/ AbortStream \/ BaseSigns
  BY <1>2 DEF PsbtUnreadable, Refuse, AbortStream, BaseSigns, Respond
<1>3. CASE \/ BaseSigningFails \/ SignNothing \/ SignPegIn \/ SignPayout
           \/ SignNoPayout \/ SignStandalone \/ StandaloneSigningFails
  BY <1>1, <1>3
  DEF BaseSigningFails, SignNothing, SignPegIn, SignPayout, SignNoPayout,
      SignStandalone, StandaloneSigningFails, SigningFails
<1>4. CASE \/ PegInSigningFails \/ PegInYieldFails \/ PayoutSigningFails
           \/ PayoutYieldFails \/ NoPayoutSigningFails \/ NoPayoutYieldFails
  BY <1>1, <1>4
  DEF PegInSigningFails, PegInYieldFails, PayoutSigningFails, PayoutYieldFails,
      NoPayoutSigningFails, NoPayoutYieldFails, InvalidateSigning
<1>5. ASSUME NEW tx \in Psbts, ValidateNext(tx)
      PROVE  resp' = resp \/ resp'.ins = "sign"
  <2>1. ASSUME NEW sw, NEW codes, NEW c, NEW s, NEW flow,
               \/ RejectPsbt(sw)
               \/ RejectPsbtRecorded(codes, c, s)
               \/ CapExceeded
               \/ Accept(tx, flow, c, s)
        PROVE  resp' = resp \/ resp'.ins = "sign"
    BY <1>1, <2>1 DEF RejectPsbt, RejectPsbtRecorded, CapExceeded, Accept
  <2>2. CASE NeedsIntent(tx) \/ PegInUnmatched(tx) \/ PayoutUnmatched(tx) \/ MatchesNoFlow(tx)
    BY <2>1, <2>2 DEF NeedsIntent, PegInUnmatched, PayoutUnmatched, MatchesNoFlow
  <2>3. CASE ValidatePrePegIn(tx)
    BY <2>1, <2>3 DEF ValidatePrePegIn
  <2>4. CASE ValidatePegIn(tx)
    BY <2>1, <2>4 DEF ValidatePegIn
  <2>5. CASE ValidatePayout(tx)
    BY <2>1, <2>5 DEF ValidatePayout
  <2>6. CASE ValidateNoPayout(tx)
    BY <2>1, <2>6 DEF ValidateNoPayout
  <2>7. ASSUME NEW flow \in StandaloneFlows,
               ValidateStandalone(tx, flow) \/ DenyStandalone(tx, flow)
        PROVE  resp' = resp \/ resp'.ins = "sign"
    BY <1>1, <2>1, <2>7 DEF ValidateStandalone, DenyStandalone
  <2> QED
    BY <1>5, <2>2, <2>3, <2>4, <2>5, <2>6, <2>7 DEF ValidateNext
<1> QED
  BY <1>2, <1>3, <1>4, <1>5 DEF SignNext

(* APPROVE_VAULT_INTENT agrees, or finds no load to refuse, or wipes.      *)
LEMMA ApproveAnswers ==
  ASSUME IInv, ApproveNext
  PROVE  \/ resp'.sw \in {"OK", "WRONG_P1P2"}
         \/ ~approve.scalars_loaded /\ approve' = approve
         \/ ctx' = ZeroCtx /\ intent' = ZeroIntent /\ approve' = ZeroApprove
<1>1. CASE ApproveWrongP1P2
  BY <1>1 DEF ApproveWrongP1P2, Refuse, Respond
<1>2. CASE ScalarsRefused \/ NothingLoading
  BY <1>2 DEF ScalarsRefused, NothingLoading, Refuse, session, IInv, LoadUnderWay
<1>3. ASSUME NEW sw, RejectLoad(sw)
      PROVE  ctx' = ZeroCtx /\ intent' = ZeroIntent /\ approve' = ZeroApprove
  BY <1>3 DEF RejectLoad, Invalidate
<1>4. CASE ScalarsMalformed \/ GroupsRejected \/ KeysTooEarly \/ KeysRejected
  BY <1>3, <1>4 DEF ScalarsMalformed, GroupsRejected, KeysTooEarly, KeysRejected
<1>5. ASSUME NEW s, ScalarsLoaded(s)
      PROVE  resp'.sw = "OK"
  BY <1>5 DEF ScalarsLoaded, Respond
<1>6. ASSUME NEW b, GroupsLoaded(b) \/ KeysLoaded(b) \/ IntentApproved(b)
      PROVE  resp'.sw = "OK"
  BY <1>6 DEF GroupsLoaded, KeysLoaded, IntentApproved, Respond
<1>7. ASSUME NEW b, IntentRejected(b)
      PROVE  ctx' = ZeroCtx /\ intent' = ZeroIntent /\ approve' = ZeroApprove
  BY <1>3, <1>7 DEF IntentRejected
<1> QED
  BY <1>1, <1>2, <1>4, <1>5, <1>6, <1>7 DEF ApproveNext

(* So once a load has begun, every refusal other than a bad P1/P2 ends the *)
(* session: the error table of APPROVE_VAULT_INTENT.                       *)
THEOREM RefusalEnds == Spec => RefusalEndsSession
<1> DEFINE Wiped == ctx' = ZeroCtx /\ intent' = ZeroIntent /\ approve' = ZeroApprove
           Refused == /\ approve.scalars_loaded
                      /\ resp'.ins = "approve"
                      /\ resp'.sw \notin {"OK", "WRONG_P1P2"}
<1>1. Init => Unrefused
  BY DEF Init, Boot, ZeroApprove, Unrefused
<1>2. ASSUME IInv, Unrefused, [Next]_vars
      PROVE  Unrefused' /\ (Refused => Wiped \/ UNCHANGED vars)
  <2>1. CASE UNCHANGED vars
    BY <1>2, <2>1 DEF vars, session, history, Unrefused
  <2>2. CASE PowerCycle
    BY <2>2 DEF PowerCycle, ZeroApprove, Unrefused
  <2>3. CASE DeriveNext
    BY <2>3, DeriveAnswers DEF Unrefused
  <2>4. CASE ApproveNext
    BY <1>2, <2>4, ApproveAnswers DEF Unrefused, ZeroApprove
  <2>5. CASE SignNext
    <3>1. approve' = approve \/ approve' = ZeroApprove
      BY <1>2, <2>5, SigningKeepsIntent DEF Invalidate
    <3> QED
      BY <1>2, <2>5, <3>1, SigningAnswers DEF Unrefused, ZeroApprove
  <2> QED
    BY <1>2, <2>1, <2>2, <2>3, <2>4, <2>5 DEF Next
<1>3. Unrefused /\ IInv /\ [Next]_vars => Unrefused'
  BY <1>2
<1>4. Unrefused /\ IInv /\ [Next]_vars => [Refused => Wiped]_vars
  BY <1>2
<1> QED
  BY <1>1, <1>3, <1>4, Inductive, PTL DEF Spec, RefusalEndsSession
==============================================================================
