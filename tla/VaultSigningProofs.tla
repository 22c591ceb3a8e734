------------------------- MODULE VaultSigningProofs -------------------------
(***************************************************************************)
(* The signer's bookkeeping, proved for every value of the constants: it   *)
(* signs what the validator accepted, each approval is spent within its    *)
(* allowance over any history of replays, failures and aborts, and the app *)
(* implements SigningBudget.                                               *)
(***************************************************************************)
EXTENDS VaultIntentProofs

(* There is no bookkeeping without an approved intent.                     *)
NothingBooked == ctx.state # "INTENT_LOADED" => sigs = ZeroSigs

(* An accepted PSBT has an intent, and what it spends is still there.      *)
SlotFree ==
  psbt.phase # "none" =>
    /\ psbt.flow = "PrePegIn" =>
         /\ Loaded
         /\ sigs.pre_pegin_signed >= 1
         /\ psbt.phase = "validated" => released[PrePegInSlot] = 0
    /\ psbt.flow = "PegIn" =>
         Loaded /\ ctx.vault_group_index \notin sigs.pegin_group_mask
    /\ psbt.flow = "Payout" =>
         /\ Loaded
         /\ ctx.vault_group_index \in 0..(V - 1)
         /\ PayoutSlot(ctx.vault_group_index, sigs.payout_index)
              \notin sigs.payout_claimer_mask
    /\ psbt.flow = "NoPayout" =>
         Loaded /\ sigs.nopayout_signed < V * (N + M)

(* An accepted Assert was checked against the approved parties.            *)
AssertChecked ==
  psbt.phase # "none" /\ psbt.flow = "Assert" =>
    /\ Loaded
    /\ psbt.tx.signers = [depositor_pk |-> approved.depositor_pk,
                          keys |-> approved.keys]

BudgetInv ==
  /\ NothingBooked
  /\ SignerFollowsValidator
  /\ RecordedForThisPsbt
  /\ SlotFree
  /\ AssertChecked
  /\ MasksMatchSignatures
  /\ WithinAllowance

-----------------------------------------------------------------------------
(* Slots and allowances. *)

(* Each group and claimer of an intent has its slot.                       *)
LEMMA SlotsCounted ==
  ASSUME NEW v \in 1..MaxVaults, NEW n \in 1..MaxKeepers
  PROVE  /\ PrePegInSlot \in SignatureSlots
         /\ NoPayoutSlot \in SignatureSlots
         /\ \A g \in 0..(v - 1) : PegInSlot(g) \in SignatureSlots
         /\ \A g \in 0..(v - 1), c \in 0..(n + 1) : PayoutClaimSlot(g, c) \in SignatureSlots
BY BoundsAssumption DEF SignatureSlots

(* What an approved intent allows.                                         *)
LEMMA AllowanceOfApproved ==
  ASSUME IInv, LoadInv, Loaded
  PROVE  /\ Allowance(approved)[PrePegInSlot] = 1
         /\ Allowance(approved)[NoPayoutSlot] = V * (N + M)
         /\ \A g \in 0..(V - 1) : Allowance(approved)[PegInSlot(g)] = 1
         /\ \A g \in 0..(V - 1), c \in 0..(N + 1) :
              Allowance(approved)[PayoutClaimSlot(g, c)] = 1
<1>1. intent.scalars \in Scalars /\ V \in 1..MaxVaults /\ N \in 1..MaxKeepers /\ M \in Nat
  BY BoundsAssumption DEF Loaded, IInv, IntentPresent, Scalars, V, N, M
<1>2. intent = approved /\ intent # ZeroIntent
  <2>1. Len(intent.groups) = V /\ V > 0
    BY <1>1, BoundsAssumption DEF LoadInv, IntentComplete, Loaded, V
  <2> QED
    BY <2>1, EmptySeq DEF LoadInv, ApprovedIntentInForce, Loaded, ZeroIntent
<1>3. /\ PrePegInSlot \in SignatureSlots
      /\ NoPayoutSlot \in SignatureSlots
      /\ \A g \in 0..(V - 1) : PegInSlot(g) \in SignatureSlots
      /\ \A g \in 0..(V - 1), c \in 0..(N + 1) : PayoutClaimSlot(g, c) \in SignatureSlots
  BY <1>1, SlotsCounted
<1>4. /\ PrePegInSlot[1] = "prepegin" /\ NoPayoutSlot[1] = "nopayout"
      /\ \A g : PegInSlot(g)[1] = "pegin" /\ PegInSlot(g)[2] = g
      /\ \A g, c : /\ PayoutClaimSlot(g, c)[1] = "payout"
                   /\ PayoutClaimSlot(g, c)[2] = g
                   /\ PayoutClaimSlot(g, c)[3] = c
  BY DEF PrePegInSlot, NoPayoutSlot, PegInSlot, PayoutClaimSlot
<1>5. /\ approved.scalars.vault_count = V
      /\ approved.scalars.keeper_count = N
      /\ approved.scalars.challenger_count = M
      /\ approved # ZeroIntent
  BY <1>2 DEF V, N, M
<1>6. Allowance(approved)[PrePegInSlot] = 1
  BY <1>3, <1>4, <1>5 DEF Allowance
<1>7. Allowance(approved)[NoPayoutSlot] = V * (N + M)
  BY <1>3, <1>4, <1>5 DEF Allowance
<1>8. \A g \in 0..(V - 1) : Allowance(approved)[PegInSlot(g)] = 1
  <2> SUFFICES ASSUME NEW g \in 0..(V - 1)
               PROVE  Allowance(approved)[PegInSlot(g)] = 1
    OBVIOUS
  <2>1. g < V
    BY <1>1
  <2> QED
    BY <1>3, <1>4, <1>5, <2>1 DEF Allowance
<1>9. \A g \in 0..(V - 1), c \in 0..(N + 1) : Allowance(approved)[PayoutClaimSlot(g, c)] = 1
  <2> SUFFICES ASSUME NEW g \in 0..(V - 1), NEW c \in 0..(N + 1)
               PROVE  Allowance(approved)[PayoutClaimSlot(g, c)] = 1
    OBVIOUS
  <2>1. g < V /\ c < N + 2
    BY <1>1
  <2> QED
    BY <1>3, <1>4, <1>5, <2>1 DEF Allowance
<1> QED
  BY <1>6, <1>7, <1>8, <1>9

(* An allowance is a natural number.                                       *)
LEMMA AllowanceTyped ==
  ASSUME NEW i, i = ZeroIntent \/ i.scalars \in Scalars
  PROVE  Allowance(i) \in [SignatureSlots -> Nat]
<1>1. CASE i = ZeroIntent
  BY <1>1 DEF Allowance
<1>2. CASE i # ZeroIntent
  <2>1. /\ i.scalars.vault_count \in Nat
        /\ i.scalars.keeper_count \in Nat
        /\ i.scalars.challenger_count \in Nat
    BY <1>2, BoundsAssumption DEF Scalars
  <2>2. i.scalars.vault_count * (i.scalars.keeper_count + i.scalars.challenger_count) \in Nat
    BY <2>1
  <2>3. \A slot \in SignatureSlots :
          slot[1] \in {"prepegin", "nopayout", "pegin", "payout"}
    BY DEF SignatureSlots, PrePegInSlot, NoPayoutSlot, PegInSlot, PayoutClaimSlot
  <2> QED
    BY <1>2, <2>2, <2>3 DEF Allowance
<1> QED
  BY <1>1, <1>2

(* No two groups share a payout slot, whoever claims.                      *)
LEMMA PayoutSlotsApart ==
  ASSUME IInv, Loaded,
         NEW g \in 0..(V - 1), NEW c \in 0..(N + 1),
         NEW h \in 0..(V - 1), NEW d \in 0..(N + 1)
  PROVE  /\ PayoutSlot(g, c) = PayoutSlot(h, d) => g = h /\ c = d
         /\ PayoutSlot(g, c) \in 0..(V * (N + 2) - 1)
<1>1. V \in Nat /\ N \in Nat
  BY CountsTyped
<1>2. \A k \in Nat, a, b \in Nat : a < b => a * k + k <= b * k
  <2> SUFFICES ASSUME NEW k \in Nat, NEW a \in Nat, NEW b \in Nat, a < b
               PROVE  a * k + k <= b * k
    OBVIOUS
  <2>1. PICK e \in Nat : b = a + 1 + e
    <3>1. b - (a + 1) \in Nat /\ b = a + 1 + (b - (a + 1))
      OBVIOUS
    <3> QED
      BY <3>1
  <2>2. b * k = a * k + k + e * k
    BY <2>1
  <2>3. e * k >= 0 /\ e * k \in Nat /\ a * k \in Nat
    OBVIOUS
  <2> QED
    BY <2>2, <2>3
<1>3. g < h => g * (N + 2) + (N + 2) <= h * (N + 2)
  BY <1>1, <1>2
<1>4. h < g => h * (N + 2) + (N + 2) <= g * (N + 2)
  BY <1>1, <1>2
<1>5. g * (N + 2) + (N + 2) <= V * (N + 2)
  BY <1>1, <1>2
<1>6. g * (N + 2) \in Nat /\ h * (N + 2) \in Nat /\ V * (N + 2) \in Nat
  BY <1>1
<1> QED
  BY <1>1, <1>3, <1>4, <1>5, <1>6 DEF PayoutSlot

(* A leaf has one claimer: no key is in two roles.                         *)
LEMMA OneClaimer ==
  ASSUME IInv, LoadInv, Loaded, NEW tx, NEW g \in 0..(V - 1),
         NEW c \in Claimers(tx, g), NEW d \in Claimers(tx, g)
  PROVE  c = d
<1>1. ApprovedIntentWellFormed
  BY WellFormed
<1>2. V \in Nat /\ N \in Nat /\ M \in Nat
  BY CountsTyped
<1>3. /\ Len(intent.keys) = N + M
      /\ \A i, j \in 1..(N + M) : intent.keys[i].key = intent.keys[j].key => i = j
      /\ \A i \in 1..(N + M) : intent.keys[i].key \notin PartyKeys(intent)
      /\ \A h \in 1..V : intent.groups[h].vault_provider_pk # intent.depositor_pk
      /\ Len(intent.groups) = V
  BY <1>1 DEF ApprovedIntentWellFormed, Loaded, V, N, M
<1>4. g + 1 \in 1..V /\ DOMAIN intent.groups = 1..V
  BY <1>2, <1>3, LenProperties DEF IInv, TypeOK, Intents
<1>5. /\ GroupAt(g).vault_provider_pk \in PartyKeys(intent)
      /\ intent.depositor_pk \in PartyKeys(intent)
      /\ GroupAt(g).vault_provider_pk # intent.depositor_pk
  BY <1>3, <1>4 DEF GroupAt, PartyKeys
<1>6. \A i \in 1..N : i \in 1..(N + M) /\ KeeperPk(i - 1) = intent.keys[i].key
  BY <1>2 DEF KeeperPk
<1>7. ASSUME NEW e \in Claimers(tx, g)
      PROVE  \/ e = 0 /\ tx.key = GroupAt(g).vault_provider_pk
             \/ e = N + 1 /\ tx.key = intent.depositor_pk
             \/ e \in 1..N /\ tx.key = intent.keys[e].key
  <2>1. /\ e \in 0..(N + 1)
        /\ tx.key = CASE e = 0     -> GroupAt(g).vault_provider_pk
                     [] e = N + 1 -> intent.depositor_pk
                     [] OTHER     -> KeeperPk(e - 1)
    BY <1>7 DEF Claimers
  <2>2. CASE e = 0
    BY <1>2, <2>1, <2>2
  <2>3. CASE e = N + 1
    BY <1>2, <2>1, <2>3
  <2>4. CASE e \in 1..N
    BY <1>2, <1>6, <2>1, <2>4
  <2> QED
    BY <1>2, <2>1, <2>2, <2>3, <2>4
<1>8. ASSUME NEW e \in Claimers(tx, g), e \in 1..N
      PROVE  tx.key \notin PartyKeys(intent)
  <2>1. e # 0 /\ e # N + 1 /\ e \in 1..(N + M)
    BY <1>2, <1>8
  <2>2. tx.key = intent.keys[e].key
    BY <1>7, <2>1
  <2> QED
    BY <1>3, <2>1, <2>2
<1>9. \A e \in Claimers(tx, g) : tx.key \in PartyKeys(intent) => e \in {0, N + 1}
  BY <1>7, <1>8
<1> QED
  <2>1. CASE tx.key \in PartyKeys(intent)
    <3>1. c \in {0, N + 1} /\ d \in {0, N + 1}
      BY <1>9, <2>1
    <3>2. ASSUME NEW e \in Claimers(tx, g)
          PROVE  /\ e = 0 => tx.key = GroupAt(g).vault_provider_pk
                 /\ e = N + 1 => tx.key = intent.depositor_pk
      <4>1. 0 # N + 1 /\ 0 \notin 1..N /\ N + 1 \notin 1..N
        BY <1>2
      <4>2. CASE e = 0
        BY <1>7, <4>1, <4>2
      <4>3. CASE e = N + 1
        BY <1>7, <4>1, <4>3
      <4> QED
        BY <4>2, <4>3
    <3>3. c = 0 /\ d = N + 1 => FALSE
      BY <1>5, <3>2
    <3>4. c = N + 1 /\ d = 0 => FALSE
      BY <1>5, <3>2
    <3> QED
      BY <3>1, <3>3, <3>4
  <2>2. CASE tx.key \notin PartyKeys(intent)
    <3>1. \A e \in Claimers(tx, g) : e \in 1..N /\ tx.key = intent.keys[e].key
      BY <1>5, <1>7, <2>2
    <3>2. c \in 1..(N + M) /\ d \in 1..(N + M) /\ intent.keys[c].key = intent.keys[d].key
      BY <1>2, <3>1
    <3> QED
      BY <1>3, <3>2
  <2> QED
    BY <2>1, <2>2

-----------------------------------------------------------------------------
(* The two dispatchers. *)

(* The branch the signer will take is the validated flow's.                *)
LEMMA BranchOfFlow ==
  ASSUME NEW tx, NEW flow \in Flows, Route(tx) = flow,
         ctx'.state = ctx.state,
         flow \in {"PrePegIn", "PegIn", "NoPayout"} => Loaded,
         flow = "Payout" => sigs'.is_payout_signing,
         flow = "PayoutFinalize" => ~sigs'.is_payout_signing,
         flow \in StandaloneFlows => StandaloneValid(tx, flow)
  PROVE  SignerBranch(tx)' = FlowBranch(flow)
<1>1. Loaded' <=> Loaded
  BY DEF Loaded
<1> USE DEF Route, PolicyFreeRoute, LeafRoute, TwoInputRoute, SignerBranch,
            PolicyFreeBranch, PayoutFamily, PayoutBranch, FlowBranch, Shape
<1>2. CASE flow \in {"PoP", "PrePegIn"}
  BY <1>1, <1>2
<1>3. CASE flow \in {"PegIn", "NoPayout", "Payout"}
  BY <1>1, <1>3
<1>4. CASE flow = "PayoutFinalize"
  BY <1>1, <1>4 DEF StandaloneFlows, StandaloneValid, PayoutFinalizeValid
<1>5. CASE flow = "WC"
  BY <1>1, <1>5 DEF StandaloneFlows, StandaloneValid, WCValid
<1>6. CASE flow \in {"Claim", "Reclaim", "Assert", "Refund"}
  <2>1. ~tx.v0 /\ tx.nwp /\ PolicyFreeRoute(tx) = flow
    BY <1>6
  <2>2. ~Shape(tx, 1, 3)
    BY <1>6, <2>1
  <2>3. tx.nin = 1
    <3>1. StandaloneValid(tx, flow)
      BY <1>6 DEF StandaloneFlows
    <3> QED
      BY <1>6, <3>1 DEF StandaloneValid, ClaimValid, ReclaimValid, AssertValid, RefundValid
  <2>4. SignerBranch(tx)' = PolicyFreeBranch(tx)'
    BY <2>1
  <2>5. PolicyFreeBranch(tx)' = "Standalone"
    BY <2>2, <2>3
  <2> QED
    BY <1>6, <2>4, <2>5
<1> QED
  BY <1>2, <1>3, <1>4, <1>5, <1>6 DEF Flows

(* Only the flow itself is signed on its own branch.                       *)
LEMMA FlowOfBranch ==
  ASSUME NEW flow \in Flows, NEW b \in {"PegIn", "Payout", "NoPayout"}, FlowBranch(flow) = b
  PROVE  flow = b
BY DEF Flows, FlowBranch

-----------------------------------------------------------------------------
(* Steps that release nothing. *)

(* No PSBT in progress: nothing to say of one.                             *)
LEMMA Quiet ==
  ASSUME psbt'.phase = "none"
  PROVE  SignerFollowsValidator' /\ RecordedForThisPsbt' /\ SlotFree' /\ AssertChecked'
BY DEF SignerFollowsValidator, RecordedForThisPsbt, SlotFree, AssertChecked

(* Without an approved intent the books are empty.                         *)
LEMMA EmptyBooks ==
  ASSUME ctx'.state # "INTENT_LOADED", sigs' = ZeroSigs, psbt'.phase = "none",
         WithinAllowance'
  PROVE  BudgetInv'
BY Quiet DEF BudgetInv, NothingBooked, MasksMatchSignatures

(* An allowance is kept while nothing is released or approved.             *)
LEMMA AllowanceStands ==
  ASSUME BudgetInv, UNCHANGED <<approved, released>>
  PROVE  WithinAllowance'
BY DEF BudgetInv, WithinAllowance, Allowance

(* A wiped session, with nothing released since.                           *)
LEMMA WipedBooks ==
  ASSUME BudgetInv, UNCHANGED <<approved, released>>, Invalidate, psbt'.phase = "none"
  PROVE  BudgetInv'
BY EmptyBooks, AllowanceStands DEF Invalidate, ZeroCtx

(* The books while they are only added to by a Pre-PegIn reserving its     *)
(* slot, an index or the payout flag.                                      *)
LEMMA BooksStand ==
  ASSUME IInv, BudgetInv,
         UNCHANGED <<intent, approved, released>>,
         ctx'.state = ctx.state,
         sigs'.pegin_group_mask = sigs.pegin_group_mask,
         sigs'.payout_claimer_mask = sigs.payout_claimer_mask,
         sigs'.pegin_signed = sigs.pegin_signed,
         sigs'.payout_signed = sigs.payout_signed,
         sigs'.nopayout_signed = sigs.nopayout_signed,
         sigs'.pre_pegin_signed \in Nat,
         sigs'.pre_pegin_signed >= sigs.pre_pegin_signed,
         Loaded \/ sigs' = ZeroSigs
  PROVE  NothingBooked' /\ MasksMatchSignatures' /\ WithinAllowance'
<1>1. NothingBooked'
  BY DEF NothingBooked, Loaded
<1>2. MasksMatchSignatures'
  <2>1. sigs.pre_pegin_signed \in Nat
    BY DEF IInv, TypeOK, Bookkeeping
  <2>2. released[PrePegInSlot] \in Nat
    BY DEF IInv, TypeOK, SignatureSlots
  <2>3. MasksMatchSignatures
    BY DEF BudgetInv
  <2>4. V' = V /\ N' = N
    BY DEF V, N
  <2> SUFFICES ASSUME ctx.state = "INTENT_LOADED"
               PROVE  MasksMatchSignatures'
    BY DEF MasksMatchSignatures
  <2>5. sigs'.pegin_group_mask = {g \in 0..(V - 1) : released[PegInSlot(g)] > 0}
    BY <2>3 DEF MasksMatchSignatures
  <2>6. \A g \in 0..(V - 1), c \in 0..(N + 1) :
          PayoutSlot(g, c) \in sigs'.payout_claimer_mask
            <=> released[PayoutClaimSlot(g, c)] > 0
    BY <2>3 DEF MasksMatchSignatures
  <2>7. \A g, c : PayoutSlot(g, c)' = PayoutSlot(g, c)
    BY <2>4 DEF PayoutSlot
  <2>8. /\ sigs'.payout_claimer_mask \subseteq 0..(V * (N + 2) - 1)
        /\ sigs'.pegin_signed = Cardinality(sigs'.pegin_group_mask)
        /\ sigs'.payout_signed = Cardinality(sigs'.payout_claimer_mask)
        /\ sigs'.nopayout_signed = released[NoPayoutSlot]
        /\ released[PrePegInSlot] <= sigs'.pre_pegin_signed
    BY <2>1, <2>2, <2>3 DEF MasksMatchSignatures
  <2> HIDE DEF PayoutSlot
  <2> QED
    BY <2>4, <2>5, <2>6, <2>7, <2>8 DEF MasksMatchSignatures
<1> QED
  BY <1>1, <1>2, AllowanceStands

(* A step that touches neither the session nor the history.                *)
LEMMA BudgetUntouched ==
  ASSUME BudgetInv, UNCHANGED <<ctx, sigs, intent, psbt, approved, released>>
  PROVE  BudgetInv'
<1>1. NothingBooked' /\ AssertChecked' /\ WithinAllowance'
  BY AllowanceStands DEF BudgetInv, NothingBooked, AssertChecked, Loaded
<1>2. SlotFree'
  BY DEF BudgetInv, SlotFree, Loaded, PayoutSlot, V, N, M
<1>3. MasksMatchSignatures'
  BY DEF BudgetInv, MasksMatchSignatures, PayoutSlot, V, N
<1>4. SignerFollowsValidator'
  BY DEF BudgetInv, SignerFollowsValidator, SignerBranch, PolicyFreeBranch, PayoutFamily,
    PayoutBranch, Loaded
<1>5. RecordedForThisPsbt'
  BY DEF BudgetInv, RecordedForThisPsbt, PegInGroups, Claimers, Challengers, ChallengerAt,
    KeeperPk, ChallengerPk, GroupAt, V, N, M
<1> QED
  BY <1>1, <1>2, <1>3, <1>4, <1>5 DEF BudgetInv

(* DERIVE_CONTEXT_HASH books nothing and ends what was approved.           *)
LEMMA DeriveKeepsBudget ==
  ASSUME IInv, BudgetInv, DeriveNext
  PROVE  BudgetInv'
<1>1. CASE DeriveWrongP1P2 \/ ContinuationRefused
  BY <1>1, BudgetUntouched DEF DeriveWrongP1P2, ContinuationRefused, Refuse, session, history
<1>2. CASE InitialChunkMalformed
  <2>1. ctx' = ZeroCtx /\ sigs' = ZeroSigs
    BY <1>2, CancelledIsZero DEF InitialChunkMalformed
  <2> QED
    BY <1>2, <2>1, EmptyBooks, AllowanceStands DEF InitialChunkMalformed, Dispatching, ZeroCtx
<1>3. ASSUME NEW st, NEW sc, Finalize(ZeroCtx, ZeroSigs, ZeroIntent, ZeroApprove, st, sc),
             Dispatching, UNCHANGED <<psbt, approved, released>>
      PROVE  BudgetInv'
  <2>1. CASE Invalidate
    BY <1>3, <2>1, WipedBooks DEF Dispatching
  <2>2. CASE ctx' = ZeroCtx /\ sigs' = ZeroSigs
    BY <1>3, <2>2, EmptyBooks, AllowanceStands DEF Dispatching, ZeroCtx
  <2>3. ASSUME NEW root,
               ctx' = [ZeroCtx EXCEPT !.state = "HASH_DERIVED",
                                      !.root = root,
                                      !.context_fp = Fingerprint(root),
                                      !.derivation_path = sc.path,
                                      !.app_name = sc.app_name_buf],
               sigs' = ZeroSigs
        PROVE  BudgetInv'
    BY <1>3, <2>3, EmptyBooks, AllowanceStands DEF Dispatching, ZeroCtx
  <2> QED
    BY <1>3, <2>1, <2>2, <2>3 DEF Finalize
<1>4. ASSUME NEW silent \in BOOLEAN, NEW h \in Headers, NEW chunk \in Chunks,
             \/ InitialChunkPartial(silent, h, chunk)
             \/ InitialChunkComplete(silent, h, chunk)
      PROVE  BudgetInv'
  <2>1. CASE InitialChunkPartial(silent, h, chunk)
    <3>1. ctx' = ZeroCtx /\ sigs' = ZeroSigs
      BY <2>1, CancelledIsZero DEF InitialChunkPartial
    <3> QED
      BY <2>1, <3>1, EmptyBooks, AllowanceStands DEF InitialChunkPartial, Dispatching, ZeroCtx
  <2>2. CASE InitialChunkComplete(silent, h, chunk)
    BY <2>2, <1>3, CancelledIsZero DEF InitialChunkComplete
  <2> QED
    BY <1>4, <2>1, <2>2
<1>5. ASSUME NEW chunk \in Chunks,
             \/ ContinuationOverrun(chunk)
             \/ ContinuationPartial(chunk)
             \/ ContinuationComplete(chunk)
      PROVE  BudgetInv'
  <2>1. CASE ContinuationOverrun(chunk)
    BY <2>1, WipedBooks DEF ContinuationOverrun, Dispatching, history
  <2>2. stream.streaming_in_progress =>
          /\ ctx = ZeroCtx /\ sigs = ZeroSigs /\ intent = ZeroIntent
          /\ approve = ZeroApprove
    BY DEF IInv, StreamIntact, IdleIsClean
  <2>3. CASE ContinuationPartial(chunk)
    BY <2>2, <2>3, EmptyBooks, AllowanceStands
    DEF ContinuationPartial, session, Dispatching, ZeroCtx
  <2>4. CASE ContinuationComplete(chunk)
    BY <2>2, <2>4, <1>3 DEF ContinuationComplete
  <2> QED
    BY <1>5, <2>1, <2>3, <2>4
<1> QED
  BY <1>1, <1>2, <1>4, <1>5 DEF DeriveNext

(* An approval opens fresh books.                                          *)
LEMMA ApprovalOpensBooks ==
  ASSUME IInv, IInv', BudgetInv, NEW b \in SeqOf(HostKeys, MaxBatch), IntentApproved(b)
  PROVE  BudgetInv'
<1>1. /\ sigs' = ZeroSigs
      /\ psbt'.phase = "none"
      /\ released' = NoneReleased
      /\ approved' = intent'
      /\ ctx'.state = "INTENT_LOADED"
  BY DEF IntentApproved, CanTransition, BudgetInv, NothingBooked, Dispatching, IInv, TypeOK,
    Contexts
<1>2. \A slot \in SignatureSlots : released'[slot] = 0
  BY <1>1 DEF NoneReleased
<1>3. WithinAllowance'
  <2>1. Allowance(intent') \in [SignatureSlots -> Nat]
    BY <1>1, AllowanceTyped DEF IInv, IntentPresent
  <2>2. Allowance(approved)' = Allowance(intent')
    BY <1>1 DEF Allowance
  <2> QED
    BY <1>2, <2>1, <2>2 DEF WithinAllowance
<1>4. MasksMatchSignatures'
  <2>1. V' \in 1..MaxVaults /\ N' \in 1..MaxKeepers
    BY <1>1 DEF IInv, IntentPresent, Scalars, V, N
  <2>2. /\ PrePegInSlot \in SignatureSlots
        /\ NoPayoutSlot \in SignatureSlots
        /\ \A g \in 0..(V' - 1) : PegInSlot(g) \in SignatureSlots
        /\ \A g \in 0..(V' - 1), c \in 0..(N' + 1) : PayoutClaimSlot(g, c) \in SignatureSlots
    BY <2>1, SlotsCounted
  <2>3. /\ sigs'.pegin_group_mask = {} /\ sigs'.payout_claimer_mask = {}
        /\ sigs'.pegin_signed = 0 /\ sigs'.payout_signed = 0
        /\ sigs'.nopayout_signed = 0 /\ sigs'.pre_pegin_signed = 0
    BY <1>1 DEF ZeroSigs
  <2>4. \A g \in 0..(V' - 1) : ~(released'[PegInSlot(g)] > 0)
    BY <1>2, <2>2
  <2>5. \A g \in 0..(V' - 1), c \in 0..(N' + 1) : ~(released'[PayoutClaimSlot(g, c)] > 0)
    BY <1>2, <2>2
  <2> QED
    BY <1>2, <2>2, <2>3, <2>4, <2>5, FS_EmptySet DEF MasksMatchSignatures
<1> QED
  BY <1>1, <1>3, <1>4, Quiet DEF BudgetInv, NothingBooked

(* Every APPROVE_VAULT_INTENT step keeps the books.                        *)
LEMMA ApproveKeepsBudget ==
  ASSUME IInv, IInv', BudgetInv, ApproveNext
  PROVE  BudgetInv'
<1>1. CASE ApproveWrongP1P2 \/ ScalarsRefused \/ NothingLoading
  BY <1>1, BudgetUntouched
  DEF ApproveWrongP1P2, ScalarsRefused, NothingLoading, Refuse, session, history
<1>2. ASSUME NEW sw, Dispatching, RejectLoad(sw)
      PROVE  BudgetInv'
  BY <1>2, WipedBooks DEF RejectLoad, Dispatching, history
<1>3. CASE ScalarsMalformed \/ GroupsRejected \/ KeysTooEarly \/ KeysRejected
  BY <1>2, <1>3 DEF ScalarsMalformed, GroupsRejected, KeysTooEarly, KeysRejected
<1>4. ASSUME NEW b \in SeqOf(HostKeys, MaxBatch), IntentRejected(b)
      PROVE  BudgetInv'
  BY <1>2, <1>4 DEF IntentRejected
<1>5. ASSUME ctx.state = "HASH_DERIVED", ctx'.state = ctx.state,
             sigs' = sigs \/ sigs' = ZeroSigs,
             Dispatching, UNCHANGED <<psbt, approved, released>>
      PROVE  BudgetInv'
  <2>1. sigs' = ZeroSigs
    BY <1>5 DEF BudgetInv, NothingBooked
  <2> QED
    BY <1>5, <2>1, EmptyBooks, AllowanceStands DEF Dispatching
<1>6. ASSUME NEW s \in HostScalars, ScalarsLoaded(s)
      PROVE  BudgetInv'
  BY <1>5, <1>6 DEF ScalarsLoaded, DerivationKept, ZeroCtx, history
<1>7. ASSUME NEW b \in SeqOf(HostGroups, MaxBatch), GroupsLoaded(b)
      PROVE  BudgetInv'
  BY <1>5, <1>7, LoadTyped DEF GroupsLoaded, history, IInv, TypeOK, Contexts
<1>8. ASSUME NEW b \in SeqOf(HostKeys, MaxBatch), KeysLoaded(b)
      PROVE  BudgetInv'
  BY <1>5, <1>8, LoadTyped DEF KeysLoaded, history
<1> QED
  BY <1>1, <1>3, <1>4, <1>6, <1>7, <1>8, ApprovalOpensBooks DEF ApproveNext

-----------------------------------------------------------------------------
(* Steps that release a signature. *)

(* One signature goes out, covered by what was approved.                   *)
Spends(slot) ==
  /\ Loaded
  /\ slot \in SignatureSlots
  /\ released[slot] < Allowance(approved)[slot]
  /\ released' = [released EXCEPT ![slot] = @ + 1]
  /\ approved' = approved
  /\ ctx'.state \in {"INTENT_LOADED", "IDLE"}

(* It leaves every slot within its allowance.                              *)
LEMMA SpendWithin ==
  ASSUME IInv, LoadInv, BudgetInv, NEW slot, Spends(slot)
  PROVE  WithinAllowance'
<1>1. Allowance(approved)' = Allowance(approved)
  BY DEF Spends, Allowance
<1>2. released \in [SignatureSlots -> Nat]
  BY DEF IInv, TypeOK
<1>3. Allowance(approved)[slot] \in Nat
  <2>1. approved.scalars \in Scalars
    BY DEF Spends, Loaded, LoadInv, ApprovedIntentInForce, IInv, IntentPresent
  <2> QED
    BY <2>1, AllowanceTyped DEF Spends
<1> QED
  BY <1>1, <1>2, <1>3 DEF Spends, BudgetInv, WithinAllowance

(* The base app's Pre-PegIn signature takes the slot the validator left.   *)
LEMMA PrePegInSpends ==
  ASSUME IInv, LoadInv, BudgetInv, psbt.phase = "validated", psbt.flow = "PrePegIn",
         released' = PrePegInReleased, UNCHANGED <<ctx, approved>>
  PROVE  Spends(PrePegInSlot)
<1>1. Loaded /\ released[PrePegInSlot] = 0
  BY DEF BudgetInv, SlotFree
<1>2. Allowance(approved)[PrePegInSlot] = 1
  BY <1>1, AllowanceOfApproved
<1> QED
  BY <1>1, <1>2 DEF Spends, PrePegInReleased, SignatureSlots, Loaded

(* What the signer is about to sign on an intent-bound branch.             *)
LEMMA SigningOf ==
  ASSUME IInv, BudgetInv, NEW b \in {"PegIn", "Payout", "NoPayout"}, Signing(b)
  PROVE  Loaded /\ psbt.flow = b /\ psbt.phase # "none"
<1>1. psbt \in Commands /\ psbt.phase = "internal"
  BY DEF IInv, TypeOK, Signing
<1>2. psbt.flow \in Flows
  BY <1>1 DEF Commands, NoPsbt
<1>3. FlowBranch(psbt.flow) = b
  BY <1>1 DEF BudgetInv, SignerFollowsValidator, Signing
<1> QED
  BY <1>1, <1>2, <1>3, FlowOfBranch, BranchNeedsIntent DEF Signing

(* A PegIn goes out for a group that had none.                             *)
LEMMA PegInSpends ==
  ASSUME IInv, LoadInv, BudgetInv, Signing("PegIn"),
         released' = PegInReleased, approved' = approved,
         ctx'.state \in {"INTENT_LOADED", "IDLE"}
  PROVE  /\ ctx.vault_group_index \in 0..(V - 1)
         /\ ctx.vault_group_index \notin sigs.pegin_group_mask
         /\ Spends(PegInSlot(ctx.vault_group_index))
<1> DEFINE g == ctx.vault_group_index
<1>1. Loaded /\ psbt.flow = "PegIn" /\ psbt.phase # "none"
  BY SigningOf
<1>2. g \in 0..(V - 1)
  BY <1>1 DEF BudgetInv, RecordedForThisPsbt, PegInGroups
<1>3. g \notin sigs.pegin_group_mask
  BY <1>1 DEF BudgetInv, SlotFree
<1>4. ~(released[PegInSlot(g)] > 0)
  BY <1>1, <1>2, <1>3 DEF BudgetInv, MasksMatchSignatures, Loaded
<1>5. Allowance(approved)[PegInSlot(g)] = 1
  BY <1>1, <1>2, AllowanceOfApproved
<1>6. PegInSlot(g) \in SignatureSlots
  <2>1. V \in 1..MaxVaults /\ N \in 1..MaxKeepers
    BY <1>1 DEF IInv, IntentPresent, Scalars, V, N, Loaded
  <2> QED
    BY <1>2, <2>1, SlotsCounted
<1>7. released[PegInSlot(g)] < 1
  <2>1. released[PegInSlot(g)] \in Nat
    BY <1>6 DEF IInv, TypeOK
  <2> QED
    BY <1>4, <2>1
<1> QED
  BY <1>1, <1>2, <1>3, <1>5, <1>6, <1>7 DEF Spends, PegInReleased

(* A Payout goes out for a group and claimer that had none.                *)
LEMMA PayoutSpends ==
  ASSUME IInv, LoadInv, BudgetInv, Signing("Payout"),
         released' = PayoutReleased, approved' = approved,
         ctx'.state \in {"INTENT_LOADED", "IDLE"}
  PROVE  /\ ctx.vault_group_index \in 0..(V - 1)
         /\ sigs.payout_index \in 0..(N + 1)
         /\ PayoutSlot(ctx.vault_group_index, sigs.payout_index) \notin sigs.payout_claimer_mask
         /\ Spends(PayoutClaimSlot(ctx.vault_group_index, sigs.payout_index))
<1> DEFINE g == ctx.vault_group_index
           c == sigs.payout_index
<1>1. Loaded /\ psbt.flow = "Payout" /\ psbt.phase # "none"
  BY SigningOf
<1>2. g \in 0..(V - 1) /\ PayoutSlot(g, c) \notin sigs.payout_claimer_mask
  BY <1>1 DEF BudgetInv, SlotFree
<1>3. g = psbt.tx.spends /\ c \in Claimers(psbt.tx, g)
  BY <1>1 DEF BudgetInv, RecordedForThisPsbt
<1>4. c \in 0..(N + 1)
  BY <1>3 DEF Claimers
<1>5. ~(released[PayoutClaimSlot(g, c)] > 0)
  BY <1>1, <1>2, <1>4 DEF BudgetInv, MasksMatchSignatures, Loaded
<1>6. Allowance(approved)[PayoutClaimSlot(g, c)] = 1
  BY <1>1, <1>2, <1>4, AllowanceOfApproved
<1>7. PayoutClaimSlot(g, c) \in SignatureSlots
  <2>1. V \in 1..MaxVaults /\ N \in 1..MaxKeepers
    BY <1>1 DEF IInv, IntentPresent, Scalars, V, N, Loaded
  <2> QED
    BY <1>2, <1>4, <2>1, SlotsCounted
<1>8. released[PayoutClaimSlot(g, c)] < 1
  <2>1. released[PayoutClaimSlot(g, c)] \in Nat
    BY <1>7 DEF IInv, TypeOK
  <2> QED
    BY <1>5, <2>1
<1>9. \A d \in Claimers(psbt.tx, g) : d = c
  BY <1>1, <1>2, <1>3, OneClaimer
<1>10. released' = [released EXCEPT ![PayoutClaimSlot(g, c)] = @ + 1]
  <2>1. released' = [slot \in SignatureSlots |->
                       IF slot = PayoutClaimSlot(g, c) THEN released[slot] + 1
                                                       ELSE released[slot]]
    BY <1>3, <1>9 DEF PayoutReleased
  <2>2. released \in [SignatureSlots -> Nat]
    BY DEF IInv, TypeOK
  <2> HIDE DEF g, c
  <2> QED
    BY <2>1, <2>2
<1> HIDE DEF g, c
<1>11. Spends(PayoutClaimSlot(g, c))
  BY <1>1, <1>6, <1>7, <1>8, <1>10 DEF Spends
<1> QED
  BY <1>2, <1>4, <1>11 DEF g, c

(* A NoPayout goes out while the flat cap leaves one.                      *)
LEMMA NoPayoutSpends ==
  ASSUME IInv, LoadInv, BudgetInv, Signing("NoPayout"),
         released' = NoPayoutReleased, approved' = approved,
         ctx'.state \in {"INTENT_LOADED", "IDLE"}
  PROVE  Spends(NoPayoutSlot)
<1>1. Loaded /\ psbt.flow = "NoPayout" /\ psbt.phase # "none"
  BY SigningOf
<1>2. sigs.nopayout_signed < V * (N + M)
  BY <1>1 DEF BudgetInv, SlotFree
<1>3. released[NoPayoutSlot] = sigs.nopayout_signed
  BY <1>1 DEF BudgetInv, MasksMatchSignatures, Loaded
<1>4. Allowance(approved)[NoPayoutSlot] = V * (N + M)
  BY <1>1, AllowanceOfApproved
<1> QED
  BY <1>1, <1>2, <1>3, <1>4 DEF Spends, NoPayoutReleased, SignatureSlots

(* A branch that fails costs the session, whatever went out before.        *)
LEMMA FailureKeepsBudget ==
  ASSUME IInv, LoadInv, BudgetInv, NEW r, InvalidateSigning(r),
         r = released \/ \E slot : Spends(slot)
  PROVE  BudgetInv'
<1>1. /\ psbt'.phase = "none" /\ sigs' = ZeroSigs /\ ctx'.state # "INTENT_LOADED"
      /\ approved' = approved /\ released' = r
  BY DEF InvalidateSigning, EndSigning, Invalidate, NoPsbt, ZeroCtx
<1>2. WithinAllowance'
  BY <1>1, AllowanceStands, SpendWithin
<1> QED
  BY <1>1, <1>2, EmptyBooks

(* A signed PegIn sets its group's bit and counts once.                    *)
LEMMA SignPegInKeepsBudget ==
  ASSUME IInv, LoadInv, BudgetInv, SignPegIn
  PROVE  BudgetInv'
<1> DEFINE g == ctx.vault_group_index
<1>1. /\ Signing("PegIn") /\ released' = PegInReleased
      /\ UNCHANGED <<ctx, intent, approved>>
      /\ psbt'.phase = "none"
      /\ Loaded
  BY BranchNeedsIntent DEF SignPegIn, EndSigning, NoPsbt, Signing
<1>2. /\ g \in 0..(V - 1) /\ g \notin sigs.pegin_group_mask
      /\ Spends(PegInSlot(g))
  BY <1>1, PegInSpends DEF Loaded
<1>3. /\ sigs \in Bookkeeping /\ released \in [SignatureSlots -> Nat]
      /\ MasksMatchSignatures
      /\ V' = V /\ N' = N /\ V \in Nat /\ N \in Nat
  BY <1>1, CountsTyped DEF IInv, TypeOK, BudgetInv, V, N
<1>4. /\ sigs'.pegin_group_mask = sigs.pegin_group_mask \cup {g}
      /\ sigs'.pegin_signed = sigs.pegin_signed + 1
      /\ sigs'.payout_claimer_mask = sigs.payout_claimer_mask
      /\ sigs'.payout_signed = sigs.payout_signed
      /\ sigs'.nopayout_signed = sigs.nopayout_signed
      /\ sigs'.pre_pegin_signed = sigs.pre_pegin_signed
  BY <1>3 DEF SignPegIn, MaskWith, Bookkeeping
<1> HIDE DEF g
<1>5. \A slot \in SignatureSlots :
        released'[slot] = IF slot = PegInSlot(g) THEN released[slot] + 1 ELSE released[slot]
  BY <1>2, <1>3 DEF Spends
<1>6. /\ PrePegInSlot # PegInSlot(g) /\ NoPayoutSlot # PegInSlot(g)
      /\ \A h : PegInSlot(h) = PegInSlot(g) => h = g
      /\ \A h, d : PayoutClaimSlot(h, d) # PegInSlot(g)
  BY DEF PrePegInSlot, NoPayoutSlot, PegInSlot, PayoutClaimSlot
<1>7. /\ PrePegInSlot \in SignatureSlots
      /\ NoPayoutSlot \in SignatureSlots
      /\ \A h \in 0..(V - 1) : PegInSlot(h) \in SignatureSlots
      /\ \A h \in 0..(V - 1), d \in 0..(N + 1) : PayoutClaimSlot(h, d) \in SignatureSlots
  <2>1. V \in 1..MaxVaults /\ N \in 1..MaxKeepers
    BY <1>1 DEF IInv, IntentPresent, Scalars, V, N, Loaded
  <2> QED
    BY <2>1, SlotsCounted
<1>8. sigs'.pegin_group_mask = {h \in 0..(V - 1) : released'[PegInSlot(h)] > 0}
  <2>1. sigs.pegin_group_mask = {h \in 0..(V - 1) : released[PegInSlot(h)] > 0}
    BY <1>1, <1>3 DEF MasksMatchSignatures, Loaded
  <2>2. \A h \in 0..(V - 1) : released'[PegInSlot(h)] > 0 <=>
                               h = g \/ released[PegInSlot(h)] > 0
    BY <1>2, <1>3, <1>5, <1>6, <1>7
  <2> QED
    BY <1>2, <1>4, <2>1, <2>2
<1>9. sigs'.pegin_signed = Cardinality(sigs'.pegin_group_mask)
  <2>1. sigs.pegin_group_mask \in SUBSET (0..(V - 1))
    BY <1>1, <1>3 DEF MasksMatchSignatures, Loaded
  <2>2. IsFiniteSet(sigs.pegin_group_mask)
    <3>1. V - 1 \in Int
      BY <1>3
    <3>2. IsFiniteSet(0..(V - 1))
      BY <3>1, FS_Interval
    <3> QED
      BY <2>1, <3>2, FS_Subset
  <2>3. sigs.pegin_signed = Cardinality(sigs.pegin_group_mask)
    BY <1>1, <1>3 DEF MasksMatchSignatures, Loaded
  <2> QED
    BY <1>2, <1>4, <2>2, <2>3, FS_AddElement
<1>10. MasksMatchSignatures'
  <2>1. \A h \in 0..(V - 1), d \in 0..(N + 1) :
          PayoutSlot(h, d) \in sigs'.payout_claimer_mask
            <=> released'[PayoutClaimSlot(h, d)] > 0
    BY <1>1, <1>3, <1>4, <1>5, <1>6, <1>7 DEF MasksMatchSignatures, Loaded
  <2>2. /\ sigs'.payout_claimer_mask \subseteq 0..(V * (N + 2) - 1)
        /\ sigs'.payout_signed = Cardinality(sigs'.payout_claimer_mask)
        /\ sigs'.nopayout_signed = released'[NoPayoutSlot]
        /\ released'[PrePegInSlot] <= sigs'.pre_pegin_signed
    BY <1>1, <1>3, <1>4, <1>5, <1>6, <1>7 DEF MasksMatchSignatures, Loaded
  <2>3. \A h, d : PayoutSlot(h, d)' = PayoutSlot(h, d)
    BY <1>3 DEF PayoutSlot
  <2> QED
    BY <1>3, <1>8, <1>9, <2>1, <2>2, <2>3 DEF MasksMatchSignatures
<1>11. NothingBooked' /\ WithinAllowance'
  BY <1>1, <1>2, SpendWithin DEF NothingBooked, Loaded
<1> QED
  BY <1>1, <1>10, <1>11, Quiet DEF BudgetInv

(* A signed Payout sets the bit of its group and claimer and counts once.  *)
LEMMA SignPayoutKeepsBudget ==
  ASSUME IInv, LoadInv, BudgetInv, SignPayout
  PROVE  BudgetInv'
<1> DEFINE g == ctx.vault_group_index
           c == sigs.payout_index
           bit == PayoutSlot(g, c)
<1>1. /\ Signing("Payout") /\ released' = PayoutReleased
      /\ UNCHANGED <<ctx, intent, approved>>
      /\ psbt'.phase = "none"
      /\ Loaded
  BY BranchNeedsIntent DEF SignPayout, EndSigning, NoPsbt, Signing
<1>2. /\ g \in 0..(V - 1) /\ c \in 0..(N + 1)
      /\ bit \notin sigs.payout_claimer_mask
      /\ Spends(PayoutClaimSlot(g, c))
  BY <1>1, PayoutSpends DEF Loaded
<1>3. /\ sigs \in Bookkeeping /\ released \in [SignatureSlots -> Nat]
      /\ MasksMatchSignatures
      /\ V' = V /\ N' = N /\ V \in Nat /\ N \in Nat
  BY <1>1, CountsTyped DEF IInv, TypeOK, BudgetInv, V, N
<1>4. /\ sigs'.payout_claimer_mask = sigs.payout_claimer_mask \cup {bit}
      /\ sigs'.payout_signed = sigs.payout_signed + 1
      /\ sigs'.pegin_group_mask = sigs.pegin_group_mask
      /\ sigs'.pegin_signed = sigs.pegin_signed
      /\ sigs'.nopayout_signed = sigs.nopayout_signed
      /\ sigs'.pre_pegin_signed = sigs.pre_pegin_signed
  <2>1. sigs' = [sigs EXCEPT !.payout_claimer_mask = @ \cup {bit},
                             !.payout_signed = @ + 1]
    BY DEF SignPayout, MaskWith
  <2> HIDE DEF bit
  <2> QED
    BY <1>3, <2>1 DEF Bookkeeping
<1>5. /\ bit \in 0..(V * (N + 2) - 1)
      /\ \A h \in 0..(V - 1), d \in 0..(N + 1) :
           PayoutSlot(h, d) = bit => h = g /\ d = c
  BY <1>1, <1>2, PayoutSlotsApart
<1>6. PayoutSlot(g, c) = bit
  OBVIOUS
<1> HIDE DEF g, c, bit
<1>7. \A slot \in SignatureSlots :
        released'[slot] = IF slot = PayoutClaimSlot(g, c) THEN released[slot] + 1
                                                         ELSE released[slot]
  BY <1>2, <1>3 DEF Spends
<1>8. /\ PrePegInSlot # PayoutClaimSlot(g, c) /\ NoPayoutSlot # PayoutClaimSlot(g, c)
      /\ \A h : PegInSlot(h) # PayoutClaimSlot(g, c)
      /\ \A h, d : PayoutClaimSlot(h, d) = PayoutClaimSlot(g, c) => h = g /\ d = c
  BY DEF PrePegInSlot, NoPayoutSlot, PegInSlot, PayoutClaimSlot
<1>9. /\ PrePegInSlot \in SignatureSlots
      /\ NoPayoutSlot \in SignatureSlots
      /\ \A h \in 0..(V - 1) : PegInSlot(h) \in SignatureSlots
      /\ \A h \in 0..(V - 1), d \in 0..(N + 1) : PayoutClaimSlot(h, d) \in SignatureSlots
  <2>1. V \in 1..MaxVaults /\ N \in 1..MaxKeepers
    BY <1>1 DEF IInv, IntentPresent, Scalars, V, N, Loaded
  <2> QED
    BY <2>1, SlotsCounted
<1>10. \A h \in 0..(V - 1), d \in 0..(N + 1) :
         PayoutSlot(h, d) \in sigs'.payout_claimer_mask
           <=> released'[PayoutClaimSlot(h, d)] > 0
  <2> SUFFICES ASSUME NEW h \in 0..(V - 1), NEW d \in 0..(N + 1)
               PROVE  PayoutSlot(h, d) \in sigs'.payout_claimer_mask
                        <=> released'[PayoutClaimSlot(h, d)] > 0
    OBVIOUS
  <2>1. PayoutClaimSlot(h, d) \in SignatureSlots /\ released[PayoutClaimSlot(h, d)] \in Nat
    BY <1>3, <1>9
  <2>2. PayoutSlot(h, d) \in sigs.payout_claimer_mask
          <=> released[PayoutClaimSlot(h, d)] > 0
    BY <1>1, <1>3 DEF MasksMatchSignatures, Loaded
  <2>3. CASE h = g /\ d = c
    BY <1>4, <1>6, <1>7, <2>1, <2>3
  <2>4. CASE ~(h = g /\ d = c)
    <3>1. PayoutSlot(h, d) # bit /\ PayoutClaimSlot(h, d) # PayoutClaimSlot(g, c)
      BY <1>5, <1>8, <2>4
    <3> QED
      BY <1>4, <1>7, <2>1, <2>2, <3>1
  <2> QED
    BY <2>3, <2>4
<1>11. sigs'.payout_signed = Cardinality(sigs'.payout_claimer_mask)
  <2>1. sigs.payout_claimer_mask \in SUBSET (0..(V * (N + 2) - 1))
    BY <1>1, <1>3 DEF MasksMatchSignatures, Loaded
  <2>2. IsFiniteSet(0..(V * (N + 2) - 1))
    <3>1. V * (N + 2) - 1 \in Int
      BY <1>3
    <3> QED
      BY <3>1, FS_Interval
  <2>3. IsFiniteSet(sigs.payout_claimer_mask)
    BY <2>1, <2>2, FS_Subset
  <2>4. sigs.payout_signed = Cardinality(sigs.payout_claimer_mask)
    BY <1>1, <1>3 DEF MasksMatchSignatures, Loaded
  <2> QED
    BY <1>2, <1>4, <2>3, <2>4, FS_AddElement
<1>12. MasksMatchSignatures'
  <2>1. sigs'.pegin_group_mask = {h \in 0..(V - 1) : released'[PegInSlot(h)] > 0}
    <3>1. sigs.pegin_group_mask = {h \in 0..(V - 1) : released[PegInSlot(h)] > 0}
      BY <1>1, <1>3 DEF MasksMatchSignatures, Loaded
    <3>2. \A h \in 0..(V - 1) : released'[PegInSlot(h)] = released[PegInSlot(h)]
      BY <1>7, <1>8, <1>9
    <3> QED
      BY <1>4, <3>1, <3>2
  <2>2. /\ sigs'.payout_claimer_mask \subseteq 0..(V * (N + 2) - 1)
        /\ sigs'.pegin_signed = Cardinality(sigs'.pegin_group_mask)
        /\ sigs'.nopayout_signed = released'[NoPayoutSlot]
        /\ released'[PrePegInSlot] <= sigs'.pre_pegin_signed
    BY <1>1, <1>3, <1>4, <1>5, <1>7, <1>8, <1>9 DEF MasksMatchSignatures, Loaded
  <2>3. \A h, d : PayoutSlot(h, d)' = PayoutSlot(h, d)
    BY <1>3 DEF PayoutSlot
  <2> QED
    BY <1>3, <1>10, <1>11, <2>1, <2>2, <2>3 DEF MasksMatchSignatures
<1>13. NothingBooked' /\ WithinAllowance'
  BY <1>1, <1>2, SpendWithin DEF NothingBooked, Loaded
<1> QED
  BY <1>1, <1>12, <1>13, Quiet DEF BudgetInv

(* A signed NoPayout counts once.                                          *)
LEMMA SignNoPayoutKeepsBudget ==
  ASSUME IInv, LoadInv, BudgetInv, SignNoPayout
  PROVE  BudgetInv'
<1>1. /\ Signing("NoPayout") /\ released' = NoPayoutReleased
      /\ UNCHANGED <<ctx, intent, approved>>
      /\ psbt'.phase = "none"
      /\ Loaded
  BY BranchNeedsIntent DEF SignNoPayout, EndSigning, NoPsbt, Signing
<1>2. Spends(NoPayoutSlot)
  BY <1>1, NoPayoutSpends DEF Loaded
<1>3. /\ sigs \in Bookkeeping /\ released \in [SignatureSlots -> Nat]
      /\ MasksMatchSignatures
      /\ V' = V /\ N' = N /\ V \in Nat /\ N \in Nat
  BY <1>1, CountsTyped DEF IInv, TypeOK, BudgetInv, V, N
<1>4. sigs' = [sigs EXCEPT !.nopayout_signed = @ + 1]
  BY DEF SignNoPayout
<1>5. \A slot \in SignatureSlots :
        released'[slot] = IF slot = NoPayoutSlot THEN released[slot] + 1 ELSE released[slot]
  BY <1>2, <1>3 DEF Spends
<1>6. /\ PrePegInSlot # NoPayoutSlot
      /\ \A h : PegInSlot(h) # NoPayoutSlot
      /\ \A h, d : PayoutClaimSlot(h, d) # NoPayoutSlot
  BY DEF PrePegInSlot, NoPayoutSlot, PegInSlot, PayoutClaimSlot
<1>7. /\ PrePegInSlot \in SignatureSlots
      /\ NoPayoutSlot \in SignatureSlots
      /\ \A h \in 0..(V - 1) : PegInSlot(h) \in SignatureSlots
      /\ \A h \in 0..(V - 1), d \in 0..(N + 1) : PayoutClaimSlot(h, d) \in SignatureSlots
  <2>1. V \in 1..MaxVaults /\ N \in 1..MaxKeepers
    BY <1>1 DEF IInv, IntentPresent, Scalars, V, N, Loaded
  <2> QED
    BY <2>1, SlotsCounted
<1>8. MasksMatchSignatures'
  <2>1. sigs'.pegin_group_mask = {h \in 0..(V - 1) : released'[PegInSlot(h)] > 0}
    <3>1. sigs.pegin_group_mask = {h \in 0..(V - 1) : released[PegInSlot(h)] > 0}
      BY <1>1, <1>3 DEF MasksMatchSignatures, Loaded
    <3>2. \A h \in 0..(V - 1) : released'[PegInSlot(h)] = released[PegInSlot(h)]
      BY <1>5, <1>6, <1>7
    <3> QED
      BY <1>3, <1>4, <3>1, <3>2 DEF Bookkeeping
  <2>2. \A h \in 0..(V - 1), d \in 0..(N + 1) :
          PayoutSlot(h, d) \in sigs'.payout_claimer_mask
            <=> released'[PayoutClaimSlot(h, d)] > 0
    <3>1. sigs'.payout_claimer_mask = sigs.payout_claimer_mask
      BY <1>3, <1>4 DEF Bookkeeping
    <3> QED
      BY <1>1, <1>3, <1>5, <1>6, <1>7, <3>1 DEF MasksMatchSignatures, Loaded
  <2>3. /\ sigs'.payout_claimer_mask \subseteq 0..(V * (N + 2) - 1)
        /\ sigs'.pegin_signed = Cardinality(sigs'.pegin_group_mask)
        /\ sigs'.payout_signed = Cardinality(sigs'.payout_claimer_mask)
    BY <1>1, <1>3, <1>4 DEF MasksMatchSignatures, Loaded, Bookkeeping
  <2>4. /\ sigs'.nopayout_signed = released'[NoPayoutSlot]
        /\ released'[PrePegInSlot] <= sigs'.pre_pegin_signed
    BY <1>1, <1>3, <1>4, <1>5, <1>6, <1>7 DEF MasksMatchSignatures, Loaded, Bookkeeping
  <2>5. \A h, d : PayoutSlot(h, d)' = PayoutSlot(h, d)
    BY <1>3 DEF PayoutSlot
  <2> QED
    BY <1>3, <2>1, <2>2, <2>3, <2>4, <2>5 DEF MasksMatchSignatures
<1>9. NothingBooked' /\ WithinAllowance'
  BY <1>1, <1>2, SpendWithin DEF NothingBooked, Loaded
<1> QED
  BY <1>1, <1>8, <1>9, Quiet DEF BudgetInv

(* The base app signs, or fails after it has: for a Pre-PegIn the slot was *)
(* reserved before.                                                        *)
LEMMA PrePegInKeepsBooks ==
  ASSUME IInv, LoadInv, BudgetInv, psbt.phase = "validated", psbt.flow = "PrePegIn",
         released' = PrePegInReleased, UNCHANGED <<session, approved>>
  PROVE  NothingBooked' /\ MasksMatchSignatures' /\ WithinAllowance'
<1>1. Spends(PrePegInSlot) /\ UNCHANGED <<ctx, sigs, intent>>
  BY PrePegInSpends DEF session
<1>2. /\ Loaded /\ released[PrePegInSlot] = 0 /\ sigs.pre_pegin_signed >= 1
  BY DEF BudgetInv, SlotFree
<1>3. /\ sigs \in Bookkeeping /\ released \in [SignatureSlots -> Nat]
      /\ MasksMatchSignatures
      /\ V' = V /\ N' = N /\ V \in Nat /\ N \in Nat
  BY <1>1, <1>2, CountsTyped DEF IInv, TypeOK, BudgetInv, V, N
<1>4. \A slot \in SignatureSlots :
        released'[slot] = IF slot = PrePegInSlot THEN 1 ELSE released[slot]
  BY <1>1, <1>2, <1>3 DEF Spends
<1>5. /\ NoPayoutSlot # PrePegInSlot
      /\ \A h : PegInSlot(h) # PrePegInSlot
      /\ \A h, d : PayoutClaimSlot(h, d) # PrePegInSlot
  BY DEF PrePegInSlot, NoPayoutSlot, PegInSlot, PayoutClaimSlot
<1>6. /\ PrePegInSlot \in SignatureSlots
      /\ NoPayoutSlot \in SignatureSlots
      /\ \A h \in 0..(V - 1) : PegInSlot(h) \in SignatureSlots
      /\ \A h \in 0..(V - 1), d \in 0..(N + 1) : PayoutClaimSlot(h, d) \in SignatureSlots
  <2>1. V \in 1..MaxVaults /\ N \in 1..MaxKeepers
    BY <1>2 DEF IInv, IntentPresent, Scalars, V, N, Loaded
  <2> QED
    BY <2>1, SlotsCounted
<1>7. MasksMatchSignatures'
  <2>1. sigs'.pegin_group_mask = {h \in 0..(V - 1) : released'[PegInSlot(h)] > 0}
    <3>1. sigs.pegin_group_mask = {h \in 0..(V - 1) : released[PegInSlot(h)] > 0}
      BY <1>2, <1>3 DEF MasksMatchSignatures, Loaded
    <3>2. \A h \in 0..(V - 1) : released'[PegInSlot(h)] = released[PegInSlot(h)]
      BY <1>4, <1>5, <1>6
    <3> QED
      BY <1>1, <3>1, <3>2
  <2>2. \A h \in 0..(V - 1), d \in 0..(N + 1) :
          PayoutSlot(h, d) \in sigs'.payout_claimer_mask
            <=> released'[PayoutClaimSlot(h, d)] > 0
    BY <1>1, <1>2, <1>3, <1>4, <1>5, <1>6 DEF MasksMatchSignatures, Loaded
  <2>3. /\ sigs'.payout_claimer_mask \subseteq 0..(V * (N + 2) - 1)
        /\ sigs'.pegin_signed = Cardinality(sigs'.pegin_group_mask)
        /\ sigs'.payout_signed = Cardinality(sigs'.payout_claimer_mask)
        /\ sigs'.nopayout_signed = released'[NoPayoutSlot]
        /\ released'[PrePegInSlot] <= sigs'.pre_pegin_signed
    BY <1>1, <1>2, <1>3, <1>4, <1>5, <1>6 DEF MasksMatchSignatures, Loaded
  <2>4. \A h, d : PayoutSlot(h, d)' = PayoutSlot(h, d)
    BY <1>3 DEF PayoutSlot
  <2> QED
    BY <1>3, <2>1, <2>2, <2>3, <2>4 DEF MasksMatchSignatures
<1> QED
  BY <1>1, <1>2, <1>7, SpendWithin DEF NothingBooked, Loaded

(* Both ways the base app's part can end.                                  *)
LEMMA BaseKeepsBudget ==
  ASSUME IInv, LoadInv, BudgetInv, BaseSigns \/ BaseSigningFails
  PROVE  BudgetInv'
<1>1. psbt.phase = "validated" /\ UNCHANGED <<ctx, sigs, intent, approve, approved>>
  BY DEF BaseSigns, BaseSigningFails, EndSigning, session
<1>2. \/ released' = released
      \/ psbt.flow = "PrePegIn" /\ released' = PrePegInReleased
  <2>1. released' = released \/ released' = PrePegInReleased
    <3>1. CASE BaseSigns
      BY <3>1 DEF BaseSigns
    <3>2. CASE BaseSigningFails
      BY <3>2 DEF BaseSigningFails
    <3> QED
      BY <3>1, <3>2
  <2>2. psbt.flow # "PrePegIn" => PrePegInReleased = released
    BY DEF PrePegInReleased
  <2> QED
    BY <2>1, <2>2
<1>3. NothingBooked' /\ MasksMatchSignatures' /\ WithinAllowance'
  <2>1. CASE released' = released
    <3>1. sigs.pre_pegin_signed \in Nat /\ (Loaded \/ sigs = ZeroSigs)
      BY DEF IInv, TypeOK, Bookkeeping, BudgetInv, NothingBooked, Loaded
    <3> QED
      BY <1>1, <2>1, <3>1, BooksStand
  <2>2. CASE psbt.flow = "PrePegIn" /\ released' = PrePegInReleased
    BY <1>1, <2>2, PrePegInKeepsBooks DEF session
  <2> QED
    BY <1>2, <2>1, <2>2
<1>4. CASE BaseSigningFails
  BY <1>3, <1>4, Quiet DEF BaseSigningFails, EndSigning, NoPsbt, BudgetInv
<1>5. CASE BaseSigns
  <2>1. /\ psbt'.phase = "internal" /\ psbt'.tx = psbt.tx /\ psbt'.flow = psbt.flow
    <3>1. psbt \in [phase: {"validated", "internal"}, tx: Psbts, flow: Flows]
      BY <1>1 DEF IInv, TypeOK, Commands, NoPsbt
    <3> QED
      BY <1>5, <3>1 DEF BaseSigns
  <2>2. SlotFree' /\ AssertChecked'
    BY <1>1, <2>1 DEF BudgetInv, SlotFree, AssertChecked, Loaded, PayoutSlot, V, N, M
  <2>3. SignerFollowsValidator'
    BY <1>1, <2>1
    DEF BudgetInv, SignerFollowsValidator, SignerBranch, PolicyFreeBranch, PayoutFamily,
        PayoutBranch, Loaded
  <2>4. RecordedForThisPsbt'
    BY <1>1, <2>1
    DEF BudgetInv, RecordedForThisPsbt, PegInGroups, Claimers, Challengers, ChallengerAt,
        KeeperPk, ChallengerPk, GroupAt, V, N, M
  <2> QED
    BY <1>3, <2>2, <2>3, <2>4 DEF BudgetInv
<1> QED
  BY <1>4, <1>5

-----------------------------------------------------------------------------
(* Validation. *)

(* What a validator leaves of the books: counts and masks as they are, but *)
(* for a Pre-PegIn slot it may have taken.                                 *)
SameBooks(s) ==
  /\ s.pegin_group_mask = sigs.pegin_group_mask
  /\ s.payout_claimer_mask = sigs.payout_claimer_mask
  /\ s.pegin_signed = sigs.pegin_signed
  /\ s.payout_signed = sigs.payout_signed
  /\ s.nopayout_signed = sigs.nopayout_signed
  /\ s.pre_pegin_signed \in Nat
  /\ s.pre_pegin_signed >= sigs.pre_pegin_signed
  /\ Loaded \/ s = ZeroSigs

(* Every value a validator gives the bookkeeping is such.                  *)
LEMMA BooksOfValidators ==
  ASSUME IInv, BudgetInv
  PROVE  /\ SameBooks(sigs)
         /\ \A flow : SameBooks(StandaloneSigs(flow))
         /\ Loaded => /\ SameBooks(PrePegInReserved)
                      /\ \A i : SameBooks(ChallengerRecorded(i))
                      /\ \A c : SameBooks([sigs EXCEPT !.payout_index = c])
                      /\ \A c : SameBooks([[sigs EXCEPT !.payout_index = c]
                                             EXCEPT !.is_payout_signing = TRUE])
<1>1. sigs \in Bookkeeping /\ (Loaded \/ sigs = ZeroSigs)
  BY DEF IInv, TypeOK, BudgetInv, NothingBooked, Loaded
<1>2. SameBooks(sigs)
  BY <1>1 DEF SameBooks, Bookkeeping
<1>3. SameBooks([sigs EXCEPT !.is_payout_signing = FALSE])
  <2>1. sigs = ZeroSigs => [sigs EXCEPT !.is_payout_signing = FALSE] = ZeroSigs
    <3>1. ASSUME NEW s, NEW t, s = ZeroSigs, t = [s EXCEPT !.is_payout_signing = FALSE]
          PROVE  t = ZeroSigs
      BY <3>1 DEF ZeroSigs
    <3> QED
      BY <3>1
  <2>2. SameBooks([sigs EXCEPT !.is_payout_signing = FALSE])
          <=> \/ Loaded
              \/ [sigs EXCEPT !.is_payout_signing = FALSE] = ZeroSigs
    BY <1>1 DEF SameBooks, Bookkeeping
  <2> QED
    BY <1>1, <2>1, <2>2
<1>4. Loaded => SameBooks(PrePegInReserved)
  BY <1>1 DEF SameBooks, Bookkeeping, PrePegInReserved
<1>5. Loaded => \A i : SameBooks(ChallengerRecorded(i))
  BY <1>1 DEF SameBooks, Bookkeeping, ChallengerRecorded
<1>6. Loaded => \A c : /\ SameBooks([sigs EXCEPT !.payout_index = c])
                       /\ SameBooks([[sigs EXCEPT !.payout_index = c]
                                       EXCEPT !.is_payout_signing = TRUE])
  BY <1>1 DEF SameBooks, Bookkeeping
<1> QED
  BY <1>2, <1>3, <1>4, <1>5, <1>6 DEF StandaloneSigs

(* A rejected PSBT leaves the books.                                       *)
LEMMA RejectionKeepsBudget ==
  ASSUME IInv, BudgetInv, ctx'.state = ctx.state, SameBooks(sigs'),
         UNCHANGED <<intent, released>>, NEW sw, EndSigning(sw)
  PROVE  BudgetInv'
<1>1. psbt'.phase = "none" /\ approved' = approved
  BY DEF EndSigning, NoPsbt
<1> QED
  BY <1>1, BooksStand, Quiet DEF BudgetInv, SameBooks

(* An accepted PSBT: what is left to show is that the session is about it. *)
LEMMA AcceptanceKeepsBudget ==
  ASSUME IInv, BudgetInv, NEW tx, NEW flow \in Flows, NEW c, NEW s,
         Route(tx) = flow, Accept(tx, flow, c, s),
         c.state = ctx.state, SameBooks(s),
         flow \in {"PrePegIn", "PegIn", "NoPayout"} => Loaded,
         flow = "Payout" => s.is_payout_signing,
         flow = "PayoutFinalize" => ~s.is_payout_signing,
         flow \in StandaloneFlows => StandaloneValid(tx, flow),
         RecordedForThisPsbt', SlotFree', AssertChecked'
  PROVE  BudgetInv'
<1>1. /\ psbt'.tx = tx /\ psbt'.flow = flow /\ ctx' = c /\ sigs' = s
      /\ UNCHANGED <<intent, approved, released>>
  BY DEF Accept, history
<1>2. NothingBooked' /\ MasksMatchSignatures' /\ WithinAllowance'
  BY <1>1, BooksStand DEF SameBooks
<1>3. SignerBranch(tx)' = FlowBranch(flow)
  BY <1>1, BranchOfFlow
<1>4. SignerFollowsValidator'
  BY <1>1, <1>3 DEF SignerFollowsValidator, SignerBranch, PolicyFreeBranch, PayoutFamily,
    PayoutBranch, Shape
<1> QED
  BY <1>2, <1>4 DEF BudgetInv

(* _validate_prepegin takes the slot it found free.                        *)
LEMMA PrePegInAccepted ==
  ASSUME IInv, LoadInv, BudgetInv, NEW tx, Route(tx) = "PrePegIn", Loaded,
         sigs.pre_pegin_signed < 1,
         Accept(tx, "PrePegIn", ctx, PrePegInReserved)
  PROVE  BudgetInv'
<1>1. /\ psbt'.tx = tx /\ psbt'.flow = "PrePegIn" /\ ctx' = ctx
      /\ sigs' = PrePegInReserved
      /\ UNCHANGED <<intent, approved, released>>
  BY DEF Accept, history
<1>2. sigs \in Bookkeeping /\ released \in [SignatureSlots -> Nat]
  BY DEF IInv, TypeOK
<1>3. released[PrePegInSlot] = 0
  <2>1. released[PrePegInSlot] <= sigs.pre_pegin_signed
    BY DEF BudgetInv, MasksMatchSignatures, Loaded
  <2>2. released[PrePegInSlot] \in Nat /\ sigs.pre_pegin_signed \in Nat
    BY <1>2 DEF SignatureSlots, Bookkeeping
  <2> QED
    BY <2>1, <2>2
<1>4. sigs'.pre_pegin_signed >= 1
  BY <1>1, <1>2 DEF PrePegInReserved, Bookkeeping
<1>5. RecordedForThisPsbt' /\ SlotFree' /\ AssertChecked'
  BY <1>1, <1>3, <1>4 DEF RecordedForThisPsbt, SlotFree, AssertChecked, Loaded
<1> QED
  BY <1>5, BooksOfValidators, AcceptanceKeepsBudget DEF Flows, StandaloneFlows

(* _validate_pegin records the group it matched, whose bit is clear.       *)
LEMMA PegInAccepted ==
  ASSUME IInv, LoadInv, BudgetInv, NEW tx, Route(tx) = "PegIn", Loaded,
         NEW g \in PegInGroups(tx), ~PegInSpent(g),
         Accept(tx, "PegIn", [ctx EXCEPT !.vault_group_index = g], sigs)
  PROVE  BudgetInv'
<1>1. /\ psbt'.tx = tx /\ psbt'.flow = "PegIn" /\ sigs' = sigs
      /\ UNCHANGED <<intent, approved, released>>
      /\ ctx' = [ctx EXCEPT !.vault_group_index = g]
  BY DEF Accept, history
<1>2. ctx'.state = ctx.state /\ ctx'.vault_group_index = g
  BY <1>1 DEF IInv, TypeOK, Contexts
<1>3. RecordedForThisPsbt'
  BY <1>1, <1>2 DEF RecordedForThisPsbt, PegInGroups, GroupAt, V
<1>4. SlotFree' /\ AssertChecked'
  BY <1>1, <1>2 DEF SlotFree, AssertChecked, Loaded, PegInSpent
<1>5. [ctx EXCEPT !.vault_group_index = g].state = ctx.state
  BY <1>1, <1>2
<1> QED
  BY <1>3, <1>4, <1>5, BooksOfValidators, AcceptanceKeepsBudget DEF Flows, StandaloneFlows

(* _validate_payout records the group and claimer it matched, whose bit is *)
(* clear, and sets the payout flag.                                        *)
LEMMA PayoutAccepted ==
  ASSUME IInv, LoadInv, BudgetInv, NEW tx, Route(tx) = "Payout", Loaded,
         NEW g \in PayoutGroups(tx), NEW c \in Claimers(tx, g),
         PayoutSlot(g, c) \notin sigs.payout_claimer_mask,
         Accept(tx, "Payout", [ctx EXCEPT !.vault_group_index = g],
                [[sigs EXCEPT !.payout_index = c] EXCEPT !.is_payout_signing = TRUE])
  PROVE  BudgetInv'
<1> DEFINE s == [[sigs EXCEPT !.payout_index = c] EXCEPT !.is_payout_signing = TRUE]
<1>1. /\ psbt'.tx = tx /\ psbt'.flow = "Payout"
      /\ UNCHANGED <<intent, approved, released>>
      /\ ctx' = [ctx EXCEPT !.vault_group_index = g]
      /\ sigs' = s
  BY DEF Accept, history
<1>2. ctx'.state = ctx.state /\ ctx'.vault_group_index = g
  BY <1>1 DEF IInv, TypeOK, Contexts
<1>3. /\ s.payout_index = c /\ s.is_payout_signing
      /\ s.payout_claimer_mask = sigs.payout_claimer_mask
  BY DEF IInv, TypeOK, Bookkeeping
<1>4. SameBooks(s)
  BY BooksOfValidators
<1> HIDE DEF s
<1>5. g = tx.spends /\ g \in 0..(V - 1)
  BY DEF PayoutGroups
<1>6. RecordedForThisPsbt'
  BY <1>1, <1>2, <1>3, <1>5 DEF RecordedForThisPsbt, Claimers, GroupAt, KeeperPk, N
<1>7. SlotFree'
  <2>1. PayoutSlot(g, c)' = PayoutSlot(g, c) /\ V' = V
    BY <1>1 DEF PayoutSlot, V, N
  <2> HIDE DEF PayoutSlot
  <2> QED
    BY <1>1, <1>2, <1>3, <1>5, <2>1 DEF SlotFree, Loaded
<1>8. AssertChecked'
  BY <1>1 DEF AssertChecked
<1>9. [ctx EXCEPT !.vault_group_index = g].state = ctx.state
  BY <1>1, <1>2
<1>10. Accept(tx, "Payout", [ctx EXCEPT !.vault_group_index = g], s)
  BY DEF s
<1> QED
  BY <1>3, <1>4, <1>6, <1>7, <1>8, <1>9, <1>10, AcceptanceKeepsBudget
  DEF Flows, StandaloneFlows

(* _validate_nopayout records the challenger; the flat cap leaves one.     *)
LEMMA NoPayoutAccepted ==
  ASSUME IInv, LoadInv, BudgetInv, NEW tx, Route(tx) = "NoPayout", Loaded,
         NEW i \in Challengers(tx), ~(sigs.nopayout_signed >= V * (N + M)),
         Accept(tx, "NoPayout", ctx, ChallengerRecorded(i))
  PROVE  BudgetInv'
<1>1. /\ psbt'.tx = tx /\ psbt'.flow = "NoPayout" /\ ctx' = ctx
      /\ sigs' = ChallengerRecorded(i)
      /\ UNCHANGED <<intent, approved, released>>
  BY DEF Accept, history
<1>2. /\ sigs'.nopayout_challenger_index = i
      /\ sigs'.nopayout_signed = sigs.nopayout_signed
      /\ sigs.nopayout_signed \in Nat
  BY <1>1 DEF ChallengerRecorded, IInv, TypeOK, Bookkeeping
<1>3. RecordedForThisPsbt'
  BY <1>1, <1>2
  DEF RecordedForThisPsbt, Challengers, ChallengerAt, KeeperPk, ChallengerPk, N, M
<1>4. SlotFree'
  <2>1. V' = V /\ N' = N /\ M' = M /\ V \in Nat /\ N \in Nat /\ M \in Nat
    BY <1>1, CountsTyped DEF V, N, M
  <2>2. sigs'.nopayout_signed < V * (N + M)
    <3>1. V * (N + M) \in Nat
      BY <2>1
    <3> QED
      BY <1>2, <3>1
  <2> QED
    BY <1>1, <2>1, <2>2 DEF SlotFree, Loaded
<1>5. AssertChecked'
  BY <1>1 DEF AssertChecked
<1> QED
  BY <1>3, <1>4, <1>5, BooksOfValidators, AcceptanceKeepsBudget DEF Flows, StandaloneFlows

(* A standalone flow needs no room in the books; an Assert's leaf begins   *)
(* with the parties of the intent, which is the approved one.              *)
LEMMA StandaloneAccepted ==
  ASSUME IInv, LoadInv, BudgetInv, NEW tx, NEW flow \in StandaloneFlows,
         Route(tx) = flow, StandaloneValid(tx, flow),
         Accept(tx, flow, ctx, StandaloneSigs(flow))
  PROVE  BudgetInv'
<1>1. /\ psbt'.tx = tx /\ psbt'.flow = flow /\ ctx' = ctx
      /\ UNCHANGED <<intent, approved, released>>
  BY DEF Accept, history
<1>2. flow \in Flows /\ flow \notin {"PrePegIn", "PegIn", "Payout", "NoPayout"}
  BY DEF StandaloneFlows, Flows
<1>3. flow = "PayoutFinalize" => ~StandaloneSigs(flow).is_payout_signing
  BY DEF StandaloneSigs, IInv, TypeOK, Bookkeeping
<1>4. RecordedForThisPsbt' /\ SlotFree'
  BY <1>1, <1>2 DEF RecordedForThisPsbt, SlotFree
<1>5. AssertChecked'
  <2>1. flow = "Assert" => AssertPrefixOk(tx)
    BY DEF Route, PolicyFreeRoute, TwoInputRoute, LeafRoute
  <2>2. Loaded => intent = approved
    BY DEF LoadInv, ApprovedIntentInForce, Loaded
  <2> QED
    BY <1>1, <2>1, <2>2 DEF AssertChecked, AssertPrefixOk, Loaded
<1> QED
  BY <1>2, <1>3, <1>4, <1>5, BooksOfValidators, AcceptanceKeepsBudget

(* Every way a PSBT is validated keeps the books.                          *)
LEMMA ValidateKeepsBudget ==
  ASSUME IInv, LoadInv, BudgetInv, NEW tx \in Psbts, ValidateNext(tx)
  PROVE  BudgetInv'
<1>1. ASSUME NEW sw, RejectPsbt(sw)
      PROVE  BudgetInv'
  <2>1. UNCHANGED <<ctx, sigs, intent, released>> /\ EndSigning(sw)
    BY <1>1 DEF RejectPsbt, session
  <2> QED
    BY <2>1, BooksOfValidators, RejectionKeepsBudget
<1>2. ASSUME CapExceeded
      PROVE  BudgetInv'
  BY <1>2, WipedBooks DEF CapExceeded, EndSigning, NoPsbt
<1>3. ASSUME NEW codes, NEW c, NEW s, RejectPsbtRecorded(codes, c, s),
             c.state = ctx.state, SameBooks(s)
      PROVE  BudgetInv'
  BY <1>3, RejectionKeepsBudget DEF RejectPsbtRecorded
<1>4. \A g : [ctx EXCEPT !.vault_group_index = g].state = ctx.state
  BY DEF IInv, TypeOK, Contexts
<1>5. CASE NeedsIntent(tx) \/ PegInUnmatched(tx) \/ PayoutUnmatched(tx) \/ MatchesNoFlow(tx)
  BY <1>1, <1>5 DEF NeedsIntent, PegInUnmatched, PayoutUnmatched, MatchesNoFlow
<1>6. CASE ValidatePrePegIn(tx)
  <2>1. \/ RejectPsbt("BAD_STATE")
        \/ RejectPsbt("INCORRECT_DATA")
        \/ CapExceeded
        \/ ~(sigs.pre_pegin_signed >= 1) /\ Accept(tx, "PrePegIn", ctx, PrePegInReserved)
    BY <1>6 DEF ValidatePrePegIn
  <2>2. sigs.pre_pegin_signed \in Nat
    BY DEF IInv, TypeOK, Bookkeeping
  <2>3. Loaded /\ Route(tx) = "PrePegIn"
    BY <1>6 DEF ValidatePrePegIn, Validating
  <2> QED
    BY <1>1, <1>2, <2>1, <2>2, <2>3, PrePegInAccepted
<1>7. CASE ValidatePegIn(tx)
  <2>1. Loaded /\ Route(tx) = "PegIn"
    BY <1>7 DEF ValidatePegIn, Validating
  <2>2. PICK g \in PegInGroups(tx) :
          \/ RejectPsbtRecorded({"INCORRECT_DATA"}, [ctx EXCEPT !.vault_group_index = g], sigs)
          \/ CapExceeded
          \/ ~PegInSpent(g) /\ Accept(tx, "PegIn", [ctx EXCEPT !.vault_group_index = g], sigs)
    BY <1>7 DEF ValidatePegIn
  <2> QED
    BY <1>2, <1>3, <1>4, <2>1, <2>2, BooksOfValidators, PegInAccepted
<1>8. CASE ValidatePayout(tx)
  <2>1. Loaded /\ Route(tx) = "Payout"
    BY <1>8, PayoutNeedsIntent DEF ValidatePayout, Validating
  <2>2. PICK g \in PayoutGroups(tx) : \E c \in Claimers(tx, g) :
          \/ CapExceeded
          \/ RejectPsbtRecorded(PayoutRefusals(tx, c),
                                [ctx EXCEPT !.vault_group_index = g],
                                [sigs EXCEPT !.payout_index = c])
          \/ /\ PayoutSlot(g, c) \notin sigs.payout_claimer_mask
             /\ Accept(tx, "Payout", [ctx EXCEPT !.vault_group_index = g],
                       [[sigs EXCEPT !.payout_index = c]
                          EXCEPT !.is_payout_signing = TRUE])
    BY <1>8 DEF ValidatePayout
  <2>3. PICK c \in Claimers(tx, g) :
          \/ CapExceeded
          \/ RejectPsbtRecorded(PayoutRefusals(tx, c),
                                [ctx EXCEPT !.vault_group_index = g],
                                [sigs EXCEPT !.payout_index = c])
          \/ /\ PayoutSlot(g, c) \notin sigs.payout_claimer_mask
             /\ Accept(tx, "Payout", [ctx EXCEPT !.vault_group_index = g],
                       [[sigs EXCEPT !.payout_index = c]
                          EXCEPT !.is_payout_signing = TRUE])
    BY <2>2
  <2>4. SameBooks([sigs EXCEPT !.payout_index = c])
    BY <2>1, BooksOfValidators
  <2>5. CASE CapExceeded
    BY <1>2, <2>5
  <2>6. CASE RejectPsbtRecorded(PayoutRefusals(tx, c),
                                [ctx EXCEPT !.vault_group_index = g],
                                [sigs EXCEPT !.payout_index = c])
    <3> DEFINE c1 == [ctx EXCEPT !.vault_group_index = g]
               s1 == [sigs EXCEPT !.payout_index = c]
               codes == PayoutRefusals(tx, c)
    <3>1. c1.state = ctx.state /\ SameBooks(s1) /\ RejectPsbtRecorded(codes, c1, s1)
      BY <1>4, <2>4, <2>6
    <3> HIDE DEF c1, s1, codes
    <3> QED
      BY <1>3, <3>1
  <2>7. CASE /\ PayoutSlot(g, c) \notin sigs.payout_claimer_mask
             /\ Accept(tx, "Payout", [ctx EXCEPT !.vault_group_index = g],
                       [[sigs EXCEPT !.payout_index = c]
                          EXCEPT !.is_payout_signing = TRUE])
    BY <2>1, <2>7, PayoutAccepted
  <2> QED
    BY <2>3, <2>5, <2>6, <2>7
<1>9. CASE ValidateNoPayout(tx)
  <2>1. Loaded /\ Route(tx) = "NoPayout"
    BY <1>9 DEF ValidateNoPayout, Validating
  <2>2. \/ RejectPsbt("INCORRECT_DATA")
        \/ CapExceeded
        \/ /\ ~(sigs.nopayout_signed >= V * (N + M))
           /\ \E i \in Challengers(tx) : Accept(tx, "NoPayout", ctx, ChallengerRecorded(i))
    BY <1>9 DEF ValidateNoPayout
  <2> QED
    BY <1>1, <1>2, <2>1, <2>2, NoPayoutAccepted
<1>10. ASSUME NEW flow \in StandaloneFlows,
              ValidateStandalone(tx, flow) \/ DenyStandalone(tx, flow)
       PROVE  BudgetInv'
  <2>1. SameBooks(StandaloneSigs(flow))
    BY BooksOfValidators
  <2>2. CASE ValidateStandalone(tx, flow)
    <3>1. \/ RejectPsbtRecorded({"INCORRECT_DATA"}, ctx, StandaloneSigs(flow))
          \/ StandaloneValid(tx, flow) /\ Accept(tx, flow, ctx, StandaloneSigs(flow))
      BY <2>2 DEF ValidateStandalone
    <3>2. Route(tx) = flow
      BY <2>2 DEF ValidateStandalone, Validating
    <3> QED
      BY <1>3, <2>1, <3>1, <3>2, StandaloneAccepted
  <2>3. CASE DenyStandalone(tx, flow)
    BY <2>1, <2>3, RejectionKeepsBudget DEF DenyStandalone
  <2> QED
    BY <1>10, <2>2, <2>3
<1> QED
  BY <1>5, <1>6, <1>7, <1>8, <1>9, <1>10 DEF ValidateNext

(* Every SIGN_PSBT step keeps the books.                                   *)
LEMMA SignKeepsBudget ==
  ASSUME IInv, LoadInv, BudgetInv, SignNext
  PROVE  BudgetInv'
<1>1. CASE PsbtUnreadable \/ AbortStream
  BY <1>1, BudgetUntouched DEF PsbtUnreadable, Refuse, AbortStream, session, history
<1>2. CASE BaseSigns \/ BaseSigningFails
  BY <1>2, BaseKeepsBudget
<1>3. CASE SignNothing \/ SignStandalone \/ StandaloneSigningFails
  <2>1. UNCHANGED <<ctx, sigs, intent, released>> /\ \E sw : EndSigning(sw)
    BY <1>3 DEF SignNothing, SignStandalone, StandaloneSigningFails, SigningFails, session
  <2> QED
    BY <2>1, BooksOfValidators, RejectionKeepsBudget
<1>4. CASE PegInSigningFails \/ PayoutSigningFails \/ NoPayoutSigningFails
  BY <1>4, FailureKeepsBudget
  DEF PegInSigningFails, PayoutSigningFails, NoPayoutSigningFails
<1>5. ASSUME NEW r, InvalidateSigning(r)
      PROVE  released' = r /\ approved' = approved /\ ctx'.state \in {"INTENT_LOADED", "IDLE"}
  BY <1>5 DEF InvalidateSigning, EndSigning, Invalidate, ZeroCtx
<1>6. CASE PegInYieldFails
  BY <1>5, <1>6, PegInSpends, FailureKeepsBudget DEF PegInYieldFails
<1>7. CASE PayoutYieldFails
  BY <1>5, <1>7, PayoutSpends, FailureKeepsBudget DEF PayoutYieldFails
<1>8. CASE NoPayoutYieldFails
  BY <1>5, <1>8, NoPayoutSpends, FailureKeepsBudget DEF NoPayoutYieldFails
<1> QED
  BY <1>1, <1>2, <1>3, <1>4, <1>6, <1>7, <1>8, ValidateKeepsBudget, SignPegInKeepsBudget,
     SignPayoutKeepsBudget, SignNoPayoutKeepsBudget
  DEF SignNext

-----------------------------------------------------------------------------
(* What follows. *)

(* BudgetInv is inductive over IInv and LoadInv.                           *)
THEOREM BudgetInductive == Spec => []BudgetInv
<1>1. Init => BudgetInv
  <2> SUFFICES ASSUME Init
               PROVE  BudgetInv
    OBVIOUS
  <2>1. /\ ctx.state # "INTENT_LOADED" /\ sigs = ZeroSigs /\ psbt.phase = "none"
        /\ approved = ZeroIntent /\ released = NoneReleased
    BY DEF Init, Boot, ZeroCtx, NoPsbt
  <2>2. WithinAllowance
    BY <2>1 DEF WithinAllowance, Allowance, NoneReleased
  <2> QED
    BY <2>1, <2>2 DEF BudgetInv, NothingBooked, SignerFollowsValidator, RecordedForThisPsbt,
      SlotFree, AssertChecked, MasksMatchSignatures
<1>2. IInv /\ IInv' /\ LoadInv /\ BudgetInv /\ [Next]_vars => BudgetInv'
  <2> SUFFICES ASSUME IInv, IInv', LoadInv, BudgetInv, [Next]_vars
               PROVE  BudgetInv'
    OBVIOUS
  <2>1. CASE UNCHANGED vars
    BY <2>1, BudgetUntouched DEF vars
  <2>2. CASE PowerCycle
    <3>1. WithinAllowance'
      BY <2>2 DEF PowerCycle, WithinAllowance, Allowance, NoneReleased
    <3> QED
      BY <2>2, <3>1, EmptyBooks DEF PowerCycle, ZeroCtx, NoPsbt
  <2> QED
    BY <2>1, <2>2, DeriveKeepsBudget, ApproveKeepsBudget, SignKeepsBudget DEF Next
<1> QED
  BY <1>1, <1>2, Inductive, LoadInductive, PTL DEF Spec

(* The signer takes the branch of the flow the validator accepted.         *)
THEOREM SignerFollows == Spec => []SignerFollowsValidator
<1>1. BudgetInv => SignerFollowsValidator
  BY DEF BudgetInv
<1> QED
  BY <1>1, BudgetInductive, PTL

(* The indices in the session are those of the PSBT at hand.               *)
THEOREM Recorded == Spec => []RecordedForThisPsbt
<1>1. BudgetInv => RecordedForThisPsbt
  BY DEF BudgetInv
<1> QED
  BY <1>1, BudgetInductive, PTL

(* A bit is set exactly if its signature went out, and the counters agree. *)
THEOREM MasksTrue == Spec => []MasksMatchSignatures
<1>1. BudgetInv => MasksMatchSignatures
  BY DEF BudgetInv
<1> QED
  BY <1>1, BudgetInductive, PTL

(* No approval is ever overdrawn.                                          *)
THEOREM NeverOverdrawn == Spec => []WithinAllowance
<1>1. BudgetInv => WithinAllowance
  BY DEF BudgetInv
<1> QED
  BY <1>1, BudgetInductive, PTL

(* An Assert goes out only for a leaf of the approved parties.             *)
THEOREM AssertForApproved == Spec => AssertOnlyForApproved
<1>1. IInv /\ BudgetInv => (psbt.flow = "Assert" =>
        /\ ctx.state = "INTENT_LOADED"
        /\ psbt.tx.signers = [depositor_pk |-> approved.depositor_pk,
                              keys |-> approved.keys])
  <2> SUFFICES ASSUME IInv, BudgetInv, psbt.flow = "Assert"
               PROVE  /\ ctx.state = "INTENT_LOADED"
                      /\ psbt.tx.signers = [depositor_pk |-> approved.depositor_pk,
                                            keys |-> approved.keys]
    OBVIOUS
  <2>1. psbt.phase # "none"
    BY DEF IInv, TypeOK, Commands, NoPsbt
  <2> QED
    BY <2>1 DEF BudgetInv, AssertChecked, Loaded
<1> QED
  BY <1>1, Inductive, BudgetInductive, PTL DEF AssertOnlyForApproved

-----------------------------------------------------------------------------
(* Used-up allowance. *)

(* No derivation touches the books of an intent that stays in force.       *)
LEMMA DeriveBooksNothing ==
  ASSUME IInv, DeriveNext
  PROVE  /\ sigs' = sigs \/ ctx'.state # "INTENT_LOADED"
         /\ UNCHANGED <<approved, released>>
         /\ ctx'.state \in {ctx.state, "IDLE", "HASH_DERIVED"}
<1>1. CASE DeriveWrongP1P2 \/ ContinuationRefused
  BY <1>1 DEF DeriveWrongP1P2, ContinuationRefused, Refuse, session, history
<1>2. CASE InitialChunkMalformed
  BY <1>2, CancelledIsZero DEF InitialChunkMalformed, ZeroCtx
<1>3. ASSUME NEW s, NEW i, NEW a, NEW st, NEW sc, Finalize(ZeroCtx, s, i, a, st, sc)
      PROVE  ctx'.state \in {"IDLE", "HASH_DERIVED"}
  <2>1. CASE Invalidate \/ ctx' = ZeroCtx
    BY <2>1 DEF Invalidate, ZeroCtx
  <2>2. ASSUME NEW root,
               ctx' = [ZeroCtx EXCEPT !.state = "HASH_DERIVED",
                                      !.root = root,
                                      !.context_fp = Fingerprint(root),
                                      !.derivation_path = sc.path,
                                      !.app_name = sc.app_name_buf]
        PROVE  ctx'.state = "HASH_DERIVED"
    BY <2>2 DEF ZeroCtx
  <2> QED
    BY <1>3, <2>1, <2>2 DEF Finalize
<1>4. ASSUME NEW silent \in BOOLEAN, NEW h \in Headers, NEW chunk \in Chunks,
             \/ InitialChunkPartial(silent, h, chunk)
             \/ InitialChunkComplete(silent, h, chunk)
      PROVE  ctx'.state \in {"IDLE", "HASH_DERIVED"} /\ UNCHANGED <<approved, released>>
  <2>1. CASE InitialChunkPartial(silent, h, chunk)
    BY <2>1, CancelledIsZero DEF InitialChunkPartial, ZeroCtx
  <2>2. CASE InitialChunkComplete(silent, h, chunk)
    BY <2>2, <1>3, CancelledIsZero DEF InitialChunkComplete
  <2> QED
    BY <1>4, <2>1, <2>2
<1>5. ASSUME NEW chunk \in Chunks,
             \/ ContinuationOverrun(chunk)
             \/ ContinuationPartial(chunk)
             \/ ContinuationComplete(chunk)
      PROVE  ctx'.state \in {"IDLE", "HASH_DERIVED"} /\ UNCHANGED <<approved, released>>
  <2>1. CASE ContinuationOverrun(chunk)
    BY <2>1 DEF ContinuationOverrun, Invalidate, history, ZeroCtx
  <2>2. stream.streaming_in_progress => ctx = ZeroCtx
    BY DEF IInv, StreamIntact, IdleIsClean
  <2>3. CASE ContinuationPartial(chunk)
    BY <2>2, <2>3 DEF ContinuationPartial, session, ZeroCtx
  <2>4. CASE ContinuationComplete(chunk)
    BY <2>2, <2>4, <1>3 DEF ContinuationComplete
  <2> QED
    BY <1>5, <2>1, <2>3, <2>4
<1> QED
  BY <1>1, <1>2, <1>4, <1>5 DEF DeriveNext

(* Nor does a load, short of the approval that ends it.                    *)
LEMMA ApproveBooksNothing ==
  ASSUME IInv, ApproveNext, \A b \in SeqOf(HostKeys, MaxBatch) : ~IntentApproved(b)
  PROVE  /\ sigs' = sigs \/ ctx'.state # "INTENT_LOADED"
         /\ UNCHANGED <<approved, released>>
         /\ ctx'.state \in {ctx.state, "IDLE", "HASH_DERIVED"}
<1>1. CASE ApproveWrongP1P2 \/ ScalarsRefused \/ NothingLoading
  BY <1>1
  DEF ApproveWrongP1P2, ScalarsRefused, NothingLoading, Refuse, session, history
<1>2. ASSUME NEW sw, RejectLoad(sw)
      PROVE  ctx'.state = "IDLE" /\ UNCHANGED <<approved, released>>
  BY <1>2 DEF RejectLoad, Invalidate, ZeroCtx, history
<1>3. CASE ScalarsMalformed \/ GroupsRejected \/ KeysTooEarly \/ KeysRejected
  BY <1>2, <1>3 DEF ScalarsMalformed, GroupsRejected, KeysTooEarly, KeysRejected
<1>4. ASSUME NEW b \in SeqOf(HostKeys, MaxBatch), IntentRejected(b)
      PROVE  ctx'.state = "IDLE" /\ UNCHANGED <<approved, released>>
  BY <1>2, <1>4 DEF IntentRejected
<1>5. ASSUME NEW s \in HostScalars, ScalarsLoaded(s)
      PROVE  ctx'.state = "HASH_DERIVED" /\ UNCHANGED <<approved, released>>
  BY <1>5 DEF ScalarsLoaded, DerivationKept, ZeroCtx, history
<1>6. ASSUME NEW b \in SeqOf(HostGroups, MaxBatch), GroupsLoaded(b)
      PROVE  ctx'.state = ctx.state /\ UNCHANGED <<sigs, approved, released>>
  BY <1>6 DEF GroupsLoaded, history, IInv, TypeOK, Contexts
<1>7. ASSUME NEW b \in SeqOf(HostKeys, MaxBatch), KeysLoaded(b)
      PROVE  UNCHANGED <<ctx, sigs, approved, released>>
  BY <1>7 DEF KeysLoaded, history
<1> QED
  BY <1>1, <1>3, <1>4, <1>5, <1>6, <1>7 DEF ApproveNext

(* The books of an intent only grow.                                       *)
BooksGrow ==
  /\ sigs.pegin_group_mask \subseteq sigs'.pegin_group_mask
  /\ sigs.payout_claimer_mask \subseteq sigs'.payout_claimer_mask
  /\ sigs.pre_pegin_signed <= sigs'.pre_pegin_signed
  /\ sigs.nopayout_signed <= sigs'.nopayout_signed

(* A step of SIGN_PSBT adds to the books or wipes the session, and what it *)
(* releases is covered.                                                    *)
LEMMA SignBooks ==
  ASSUME IInv, LoadInv, BudgetInv, SignNext
  PROVE  /\ BooksGrow \/ ctx'.state # "INTENT_LOADED"
         /\ \/ /\ UNCHANGED <<approved, released>>
               /\ ctx'.state \in {ctx.state, "IDLE"}
            \/ \E slot : Spends(slot)
<1>1. sigs \in Bookkeeping
  BY DEF IInv, TypeOK
<1>2. SameBooks(sigs') => BooksGrow
  BY <1>1 DEF SameBooks, BooksGrow, Bookkeeping
<1>3. SameBooks(sigs)
  BY BooksOfValidators
<1>4. CASE PsbtUnreadable \/ AbortStream
  BY <1>2, <1>3, <1>4 DEF PsbtUnreadable, Refuse, AbortStream, session, history
<1>5. CASE \E tx \in Psbts : ValidateNext(tx)
  <2>1. PICK tx \in Psbts : ValidateNext(tx)
    BY <1>5
  <2>2. \/ Invalidate
        \/ ctx' = ctx
        \/ \E g \in 0..MaxVaults : ctx' = [ctx EXCEPT !.vault_group_index = g]
    BY <1>5, SigningKeepsIntent DEF SignNext
  <2>3. ctx'.state \in {ctx.state, "IDLE"}
    BY <2>2 DEF Invalidate, ZeroCtx, IInv, TypeOK, Contexts
  <2>4. UNCHANGED <<approved, released>> /\ (SameBooks(sigs') \/ Invalidate)
    <3>1. ASSUME NEW sw, RejectPsbt(sw)
          PROVE  UNCHANGED <<sigs, approved, released>>
      BY <3>1 DEF RejectPsbt, EndSigning, session
    <3>2. ASSUME NEW flow, NEW codes, NEW c, NEW s,
                 RejectPsbtRecorded(codes, c, s) \/ Accept(tx, flow, c, s)
          PROVE  sigs' = s /\ UNCHANGED <<approved, released>>
      BY <3>2 DEF RejectPsbtRecorded, Accept, EndSigning, history
    <3>3. CapExceeded => Invalidate /\ UNCHANGED <<approved, released>>
      BY DEF CapExceeded, EndSigning
    <3>4. CASE NeedsIntent(tx) \/ PegInUnmatched(tx) \/ PayoutUnmatched(tx) \/ MatchesNoFlow(tx)
      BY <1>3, <3>1, <3>4 DEF NeedsIntent, PegInUnmatched, PayoutUnmatched, MatchesNoFlow
    <3>5. CASE ValidatePrePegIn(tx)
      BY <1>3, <3>1, <3>2, <3>3, <3>5, BooksOfValidators DEF ValidatePrePegIn
    <3>6. CASE ValidatePegIn(tx)
      BY <1>3, <3>1, <3>2, <3>3, <3>6 DEF ValidatePegIn
    <3>7. CASE ValidatePayout(tx)
      <4>1. Loaded
        BY <3>7, PayoutNeedsIntent DEF ValidatePayout, Validating
      <4>2. PICK g \in PayoutGroups(tx) : \E c \in Claimers(tx, g) :
              \/ CapExceeded
              \/ RejectPsbtRecorded(PayoutRefusals(tx, c),
                                    [ctx EXCEPT !.vault_group_index = g],
                                    [sigs EXCEPT !.payout_index = c])
              \/ Accept(tx, "Payout", [ctx EXCEPT !.vault_group_index = g],
                        [[sigs EXCEPT !.payout_index = c]
                           EXCEPT !.is_payout_signing = TRUE])
        BY <3>7 DEF ValidatePayout
      <4>3. PICK c \in Claimers(tx, g) :
              \/ CapExceeded
              \/ RejectPsbtRecorded(PayoutRefusals(tx, c),
                                    [ctx EXCEPT !.vault_group_index = g],
                                    [sigs EXCEPT !.payout_index = c])
              \/ Accept(tx, "Payout", [ctx EXCEPT !.vault_group_index = g],
                        [[sigs EXCEPT !.payout_index = c]
                           EXCEPT !.is_payout_signing = TRUE])
        BY <4>2
      <4> DEFINE indexed == [sigs EXCEPT !.payout_index = c]
                 flagged == [indexed EXCEPT !.is_payout_signing = TRUE]
      <4>4. SameBooks(indexed) /\ SameBooks(flagged)
        BY <4>1, BooksOfValidators
      <4>5. \/ CapExceeded
            \/ RejectPsbtRecorded(PayoutRefusals(tx, c),
                                  [ctx EXCEPT !.vault_group_index = g], indexed)
            \/ Accept(tx, "Payout", [ctx EXCEPT !.vault_group_index = g], flagged)
        BY <4>3
      <4> HIDE DEF indexed, flagged
      <4> QED
        BY <3>2, <3>3, <4>4, <4>5
    <3>8. CASE ValidateNoPayout(tx)
      <4>1. Loaded
        BY <3>8 DEF ValidateNoPayout
      <4>2. \/ RejectPsbt("INCORRECT_DATA")
            \/ CapExceeded
            \/ \E i \in Challengers(tx) : Accept(tx, "NoPayout", ctx, ChallengerRecorded(i))
        BY <3>8 DEF ValidateNoPayout
      <4>3. \A i : SameBooks(ChallengerRecorded(i))
        BY <4>1, BooksOfValidators
      <4>4. CASE \E i \in Challengers(tx) : Accept(tx, "NoPayout", ctx, ChallengerRecorded(i))
        BY <3>2, <4>3, <4>4
      <4> QED
        BY <1>3, <3>1, <3>3, <4>2, <4>4
    <3>9. ASSUME NEW flow \in StandaloneFlows,
                 ValidateStandalone(tx, flow) \/ DenyStandalone(tx, flow)
          PROVE  SameBooks(sigs') /\ UNCHANGED <<approved, released>>
      <4>1. SameBooks(StandaloneSigs(flow))
        BY BooksOfValidators
      <4>2. sigs' = StandaloneSigs(flow) /\ UNCHANGED <<approved, released>>
        BY <3>2, <3>9 DEF ValidateStandalone, DenyStandalone, EndSigning
      <4> QED
        BY <4>1, <4>2
    <3> QED
      BY <2>1, <3>4, <3>5, <3>6, <3>7, <3>8, <3>9 DEF ValidateNext
  <2>5. Invalidate => ctx'.state # "INTENT_LOADED"
    BY DEF Invalidate, ZeroCtx
  <2> QED
    BY <1>2, <2>3, <2>4, <2>5
<1>6. CASE BaseSigns \/ BaseSigningFails
  <2>1. psbt.phase = "validated" /\ UNCHANGED <<ctx, sigs, approved>>
    BY <1>6 DEF BaseSigns, BaseSigningFails, EndSigning, session
  <2>2. \/ released' = released
        \/ psbt.flow = "PrePegIn" /\ released' = PrePegInReleased
    <3>1. released' = released \/ released' = PrePegInReleased
      <4>1. CASE BaseSigns
        BY <4>1 DEF BaseSigns
      <4>2. CASE BaseSigningFails
        BY <4>2 DEF BaseSigningFails
      <4> QED
        BY <1>6, <4>1, <4>2
    <3>2. psbt.flow # "PrePegIn" => PrePegInReleased = released
      BY DEF PrePegInReleased
    <3> QED
      BY <3>1, <3>2
  <2> QED
    BY <1>2, <1>3, <2>1, <2>2, PrePegInSpends
<1>7. CASE SignNothing \/ SignStandalone \/ StandaloneSigningFails
  BY <1>2, <1>3, <1>7
  DEF SignNothing, SignStandalone, StandaloneSigningFails, SigningFails, EndSigning, session
<1>8. ASSUME NEW r, InvalidateSigning(r)
      PROVE  released' = r /\ approved' = approved /\ ctx'.state = "IDLE"
  BY <1>8 DEF InvalidateSigning, EndSigning, Invalidate, ZeroCtx
<1>9. CASE PegInSigningFails \/ PayoutSigningFails \/ NoPayoutSigningFails
  BY <1>8, <1>9 DEF PegInSigningFails, PayoutSigningFails, NoPayoutSigningFails
<1>10. CASE PegInYieldFails
  BY <1>8, <1>10, PegInSpends DEF PegInYieldFails
<1>11. CASE PayoutYieldFails
  BY <1>8, <1>11, PayoutSpends DEF PayoutYieldFails
<1>12. CASE NoPayoutYieldFails
  BY <1>8, <1>12, NoPayoutSpends DEF NoPayoutYieldFails
<1>13. CASE SignPegIn
  <2>1. /\ Signing("PegIn") /\ released' = PegInReleased
        /\ UNCHANGED <<ctx, approved>>
    BY <1>13 DEF SignPegIn, EndSigning
  <2>2. Loaded
    BY <2>1, SigningOf
  <2>3. BooksGrow
    BY <1>1, <1>13 DEF SignPegIn, MaskWith, BooksGrow, Bookkeeping
  <2> QED
    BY <2>1, <2>2, <2>3, PegInSpends DEF Loaded
<1>14. CASE SignPayout
  <2>1. /\ Signing("Payout") /\ released' = PayoutReleased
        /\ UNCHANGED <<ctx, approved>>
    BY <1>14 DEF SignPayout, EndSigning
  <2>2. Loaded
    BY <2>1, SigningOf
  <2>3. BooksGrow
    <3> DEFINE bit == PayoutSlot(ctx.vault_group_index, sigs.payout_index)
    <3>1. sigs' = [sigs EXCEPT !.payout_claimer_mask = @ \cup {bit},
                               !.payout_signed = @ + 1]
      BY <1>14 DEF SignPayout, MaskWith
    <3> HIDE DEF bit
    <3> QED
      BY <1>1, <3>1 DEF BooksGrow, Bookkeeping
  <2> QED
    BY <2>1, <2>2, <2>3, PayoutSpends DEF Loaded
<1>15. CASE SignNoPayout
  <2>1. /\ Signing("NoPayout") /\ released' = NoPayoutReleased
        /\ UNCHANGED <<ctx, approved>>
    BY <1>15 DEF SignNoPayout, EndSigning
  <2>2. Loaded
    BY <2>1, SigningOf
  <2>3. BooksGrow
    BY <1>1, <1>15 DEF SignNoPayout, BooksGrow, Bookkeeping
  <2> QED
    BY <2>1, <2>2, <2>3, NoPayoutSpends DEF Loaded
<1> QED
  BY <1>4, <1>5, <1>6, <1>7, <1>9, <1>10, <1>11, <1>12, <1>13, <1>14, <1>15 DEF SignNext

(* Used-up allowance comes back only with a new approval.                  *)
THEOREM NeverRestored == Spec => BudgetNeverRestored
<1>1. IInv /\ LoadInv /\ BudgetInv /\ [Next]_vars =>
        (ctx.state = "INTENT_LOADED" /\ ctx'.state = "INTENT_LOADED" => BooksGrow)
  <2> SUFFICES ASSUME IInv, LoadInv, BudgetInv, [Next]_vars,
                      ctx.state = "INTENT_LOADED", ctx'.state = "INTENT_LOADED"
               PROVE  BooksGrow
    OBVIOUS
  <2>1. sigs' = sigs => BooksGrow
    BY DEF IInv, TypeOK, Bookkeeping, BooksGrow
  <2>2. CASE UNCHANGED vars
    BY <2>1, <2>2 DEF vars
  <2>3. CASE PowerCycle
    BY <2>3 DEF PowerCycle, ZeroCtx
  <2>4. CASE DeriveNext
    BY <2>1, <2>4, DeriveBooksNothing
  <2>5. CASE ApproveNext
    <3>1. \A b \in SeqOf(HostKeys, MaxBatch) : ~IntentApproved(b)
      BY DEF IntentApproved, CanTransition
    <3> QED
      BY <2>1, <2>5, <3>1, ApproveBooksNothing
  <2>6. CASE SignNext
    BY <2>6, SignBooks
  <2> QED
    BY <2>2, <2>3, <2>4, <2>5, <2>6 DEF Next
<1>2. [](IInv /\ LoadInv /\ BudgetInv) /\ [][Next]_vars => BudgetNeverRestored
  BY <1>1, PTL DEF BudgetNeverRestored, BooksGrow
<1> QED
  BY <1>2, Inductive, LoadInductive, BudgetInductive, PTL DEF Spec

-----------------------------------------------------------------------------
(* Refinement. *)

(* The app starts with nothing granted.                                    *)
LEMMA BudgetStarts == Init => Budget!Init
BY DEF Init, Boot, ZeroCtx, Allowance, NoneReleased, Budget!Init, Budget!Nothing

(* Every step of the app is one of the budget's, or none.                  *)
LEMMA BudgetSteps ==
  ASSUME IInv, IInv', LoadInv, BudgetInv, [Next]_vars
  PROVE  [Budget!Next]_(Budget!budgetVars)
<1>1. approved' = approved => Allowance(approved)' = Allowance(approved)
  BY DEF Allowance
<1>2. ASSUME UNCHANGED <<approved, released>>,
             ctx'.state \in {ctx.state, "IDLE", "HASH_DERIVED"}
      PROVE  [Budget!Next]_(Budget!budgetVars)
  BY <1>1, <1>2 DEF Budget!Next, Budget!Derive, Budget!Drop, Budget!budgetVars
<1>3. CASE UNCHANGED vars
  BY <1>2, <1>3 DEF vars
<1>4. CASE PowerCycle
  <2>1. Allowance(approved)' = NoneReleased
    BY <1>4 DEF PowerCycle, Allowance, NoneReleased
  <2> QED
    BY <1>4, <2>1 DEF PowerCycle, ZeroCtx, NoneReleased, Budget!Next, Budget!Reset, Budget!Nothing
<1>5. CASE DeriveNext
  BY <1>2, <1>5, DeriveBooksNothing
<1>6. CASE ApproveNext
  <2>1. CASE \A b \in SeqOf(HostKeys, MaxBatch) : ~IntentApproved(b)
    BY <1>2, <1>6, <2>1, ApproveBooksNothing
  <2>2. ASSUME NEW b \in SeqOf(HostKeys, MaxBatch), IntentApproved(b)
        PROVE  Budget!Approve
    <3>1. /\ ctx.state = "HASH_DERIVED" /\ ctx'.state = "INTENT_LOADED"
          /\ released' = NoneReleased /\ approved' = intent'
      BY <2>2 DEF IntentApproved, CanTransition, IInv, TypeOK, Contexts
    <3>2. Allowance(approved)' \in [SignatureSlots -> Nat]
      <4>1. Allowance(intent') \in [SignatureSlots -> Nat]
        BY <3>1, AllowanceTyped DEF IInv, IntentPresent
      <4> QED
        BY <3>1, <4>1 DEF Allowance
    <3> QED
      BY <3>1, <3>2 DEF Budget!Approve, Budget!Nothing, NoneReleased
  <2> QED
    BY <2>1, <2>2 DEF Budget!Next
<1>7. CASE SignNext
  <2>1. ASSUME NEW slot, Spends(slot)
        PROVE  Budget!Next
    <3>1. Budget!Release(slot) /\ slot \in SignatureSlots
      BY <1>1, <2>1 DEF Spends, Loaded, Budget!Release
    <3> QED
      BY <3>1 DEF Budget!Next
  <2> QED
    BY <1>2, <1>7, <2>1, SignBooks
<1> QED
  BY <1>3, <1>4, <1>5, <1>6, <1>7 DEF Next

(* The app implements SigningBudget.                                       *)
THEOREM ImplementsBudget == Spec => KeepsBudget
<1>1. IInv /\ IInv' /\ LoadInv /\ BudgetInv /\ [Next]_vars => [Budget!Next]_(Budget!budgetVars)
  BY BudgetSteps
<1> QED
  BY <1>1, BudgetStarts, Inductive, LoadInductive, BudgetInductive, PTL
  DEF Spec, KeepsBudget, Budget!Spec
=============================================================================
