# Babylon Vault app for Ledger: TLA+ models and proofs

The app turns a hardware signer into the depositor's half of the Babylon vault protocol.
A session is derived (`DERIVE_CONTEXT_HASH`), an intent is loaded and approved
(`APPROVE_VAULT_INTENT`), and the PSBTs of the ceremony are then signed without further
questions, within a budget the intent fixes (`SIGN_PSBT`). All of it lives in RAM that
five handlers share. This directory models three things and checks each with TLC: that
session; the way a validator learns what tapscript leaf a PSBT spends, from a stream the
host cuts into chunks; and the money, from the bytes of the intent to the fee of the
payout. What it can, it proves with TLAPS for every value of the constants.

Paths below are relative to the repository's `src/` directory.

## The system

| Component | State it keeps | Operations | Correct when |
|---|---|---|---|
| Session context (`vault_context.c/.h`, `globals.h`, `vault_intent.h`) | `G_vault_context` (state, root, commitments, fingerprints, counters, masks, indices), `G_vault_intent` | transition, invalidate, encode | nothing of one session is visible in the next; the root is gone when it has been used |
| `DERIVE_CONTEXT_HASH` (`handler/derive_context_hash.c`) | `G_derive_streaming`, `G_scratch.derive_ctx` | first chunk, continuation, finalize | the root is that of the bytes the host sent, all of them, in order |
| `APPROVE_VAULT_INTENT` (`handler/approve_vault_intent.c`) | `G_approve_intent_state`, and the group cursor in the context | scalars, groups, keys, approve | what is in force is what the user saw; a refusal ends the session |
| `GET_VAULT_STATE` (`handler/get_vault_state.c`) | none | report | fingerprints are those of the session's root and intent |
| APDU dispatcher (`apdu_handler.c`) | none | route an INS | |
| `SIGN_PSBT` validator (`sign_psbt_validate.c`) | counters and detected indices in the context, `G_leaf_meta`, `G_scratch` | eleven flows | each PSBT reaches the validator of its flow; budgets hold |
| `SIGN_PSBT` signer (`sign_custom_inputs.c`) | masks and counters in the context | per-branch signing | signs exactly what was validated, once |
| Base app (a submodule, external) | PSBT state on the stack | preprocessing, `sign_internal_inputs`, the command loop | |
| Leaf reader (`vault_read_refund_leaf_script`, `vault_read_payout_leaf_script` and their callbacks in `sign_psbt_validate.c`) | `G_scratch.tls`, `G_leaf_meta`, a stream context on the stack | walk the keys, announce, deliver, end | it tells its caller the one committed leaf or nothing, wherever the chunks are cut |
| Leaf parsers and claimer detection (`sign_psbt_validate.c`, `..._helpers.c`) | `G_scratch.leaf_check`, which overlaps `tls` | recognise, parse, compare | a leaf is accepted in its own flow only, for the parties it names |
| Script builders (`vault_script.c`) | none | leaf and output scripts, the Assert prefix, the PegIn txid | what is built here is what is read back, and what the other parties build |
| TLV parser (`vault_tlv.c`) | a bit set of tags, a read position | scalars, one group record | what is stored is what was sent, within bounds |
| Output and fee checks (`sign_psbt_validate.c`) | none | one verdict per flow | fees stay in bounds, and no vault is locked up that cannot be released |
| BIP-322, screens | none | pure functions | not modelled |

The handlers never run at the same time, but they interact in four ways that no single
handler shows:

- **Commands interleave between the APDUs of one operation.** A derivation takes several
  APDUs, a load takes at least three, and any other command may come in between. They
  share the scratch union, `vault_group_index` and the approval state.
- **`SIGN_PSBT` is three steps, not one**: the app's validator, the base app's signer,
  the app's signer. The third works out afresh which flow it is in, from the shape of
  the transaction, the session state and a flag; only the session carries the
  validator's verdict over. The host can abandon the exchange at each callback.
- **Two members of one union hold one leaf.** The reader fills `tls`, and the Payout
  validator rebuilds the leaf it expects into `leaf_check`, over the top of it.
- **Failures come late.** Records are stored before they are checked, a mask bit is set
  before the signature is yielded, a slot is reserved before it is used. Power may go at
  any moment.

`PROJECT.json` lists each of these hazards at its line, with the properties aimed at it.

## The modules

| Module | Models | Extends |
|---|---|---|
| `VaultContext` | the globals as records, the transition table, `vault_context_invalidate` (`Invalidate`), what `GET_VAULT_STATE` reports (`EncodeState`), power-up (`Boot`) and power loss (`PowerCycle`) | |
| `DeriveContextHash` | INS 0x81: P1=0x00 and P1=0x01, every rejection, `_finalize` | `VaultContext` |
| `ApproveVaultIntent` | INS 0x80: the three payload kinds, the binding to the root, Screen 2, the commitments | `VaultContext` |
| `SignPsbt` | INS 0x04: dispatch, the intent-bound validators and their bookkeeping, the standalone validators, the base signer, the signer's branches | `VaultContext` |
| `VaultApp` | the app: any command in any order; all properties | the three above |
| `SigningBudget` | an abstract specification: an approval grants an allowance, signatures use it up, only a new approval renews it | |
| `MCVaultApp` | small instances for TLC: intents, keys, PSBTs | `VaultApp` |
| `MCDocClaims` | sentences of the documentation that the code does not bear out | `MCVaultApp` |
| `LeafRead` | an abstract specification: a read answers once, with the exact description of the one leaf, or fails | |
| `LeafReader` | the key walk, `_leaf_stream_len_cb`, `_leaf_stream_data_cb`, `_stream_tap_leaf_value`, byte by byte | |
| `VaultScript` | the builders of `vault_script.c`, as operators on byte sequences | |
| `LeafShapes` | the parsers: which of the protocol's leaves a script is, and what it says | `VaultScript` |
| `LeafDispatch` | validators that read a leaf, judge it by its shape, and detect who it is for; the reader's and the builders' properties | `LeafReader`, `LeafShapes` |
| `MCLeaf` | two intents, every leaf of theirs and near misses of them | `LeafDispatch` |
| `VaultTlv` | `vault_tlv_parse`, `vault_tlv_parse_group` and the loop around it, one field per step | |
| `VaultFunds` | amounts, fees and output layouts, from the Pre-PegIn to the payouts | `VaultTlv` |
| `MCFunds` | values at every bound and just beyond it | `VaultFunds` |
| `VaultAppProofs` | theorems on memory and derivation | `VaultApp` |
| `VaultIntentProofs` | theorems on loading | `VaultAppProofs` |
| `VaultSigningProofs` | theorems on the budget and the two dispatchers, and the refinement of `SigningBudget` | `VaultIntentProofs` |
| `LeafReaderProofs` | theorems on the reader alone, and the refinement of `LeafRead` | `LeafReader` |
| `VaultScriptProofs` | lemmas on every leaf: how long it is, what it begins and ends with, what is read out of it | `LeafShapes` |
| `LeafDispatchProofs` | theorems on the reader in a session, the builders and the judgements | `LeafDispatch`, and the two above |
| `VaultFundsProofs` | theorems on the parsers, the amounts, the fees and the layout of a Pre-PegIn | `VaultFunds` |
| `SequenceLemmas` | what the proofs need about sequences, folds and concatenations | |

The session, the leaf and the money meet in one place: `SignPsbt` is told the outcome of
reading a leaf (`leaf`, `key`, `signers`) and of the checks on values (`fault`), and
what those outcomes are for which bytes and amounts is what the other two models are
about. They are checked apart because their state spaces would only multiply: nothing of
a stream or of a fee survives a command but what `SignPsbt` records.

### The session: how the state corresponds

- `ctx` and `sigs` are the two halves of `G_vault_context`: the session itself, and the
  signing bookkeeping (counters, masks, `payout_index`, `nopayout_challenger_index`,
  `is_payout_signing`). A bit mask is the set of its bits.
- `intent` is `G_vault_intent`. Its arrays are sequences; an entry that was stored and
  then rejected is not kept, because the rejection wipes the struct.
- `approve`, `stream`, `scratch` are `G_approve_intent_state`, `G_derive_streaming` and
  the `derive_ctx` member of `G_scratch`. The running intent hash is the sequence of
  records it has absorbed.
- `psbt` is the `SIGN_PSBT` command in progress and how far it has got: `validated` (the
  base app signs next), `internal` (the app's signer is next), or none.
- `resp` is the last status word, as a name.
- `sent`, `approved`, `released` are history: the header and chunks of the current
  derivation, the intent the user last said yes to, and the number of signatures that
  left the device since. Guards never read them; properties do.

A zeroed buffer holds `Zero`. Hashes, HKDF and commitments are free constructors: equal
exactly when their inputs are, which is what the code relies on.

### The session: how the actions correspond

A handler is atomic, because the app is single-threaded and reads no further APDU until
it answers; so one action is one path through a handler, with every write on it: a
refusal of a group that had already been stored is one action with the wipe that
follows. `SIGN_PSBT` is the exception, split where control passes to the base app: an
action of `ValidateNext`, `BaseSigns` or `BaseSigningFails`, and one of the signer's
branches. The failures of the signer are actions of their own, before the signature went
out (`...SigningFails`) and after (`...YieldFails`). A failed `LEDGER_ASSERT` resets the
app: `PowerCycle`.

A PSBT is a record of what the routing and the bookkeeping read; `SignPsbt` lists the
fields. Two need a word:

- `spends` is the vault group that Input 0's previous txid matches, *given the intent in
  memory*; the code recomputes PegIn txids from that intent and compares. A PSBT whose
  txid matches no group has a number that is no group's.
- `fault` stands for the checks that read values (amounts, fees, sequences, sighash
  types, scripts, keys in derivation records). `early` is found before the validator
  records which group and claimer the PSBT is for, `late` afterwards; what differs
  between them is what the session looks like after the rejection. Some of those checks
  also read the session (a PoP must be by the depositor once an intent is loaded); a
  faultless PSBT is one that passes them in the state it is submitted in.

### The leaf: how it corresponds

`request` is the input map under the reader's hand, `cursor` the number of keys the base
app has passed to `_tap_leaf_script_cb`. `stream` is the value in flight as the host
sends it, `rd`, `tls` and `meta` are `leaf_stream_ctx_t`, `G_scratch.tls` and
`G_leaf_meta`, field by field. One chunk is one action, `Deliver(k)`. The chunks' sizes
are the host's, the value may be another than the committed one (`Lies`), and the
exchange may fail between any two steps; the base app's promise is the one the code
relies on, that bytes which do not hash to the committed value are reported
(`StreamRefused`). A validator's judgement is one action on the finished read: with the
PSBT's Payout group when one matches, `_detect_payout_claimer` overwrites the bytes of
`tls.leaf_script` that lie behind `leaf_check.actual_buf`'s start (`Overlaid`), and only
then compares.

The code streams a leaf again for a second look (the signer re-reads what the validator
read). The model's one read stands for each: they run the same code on the same
committed map from a zeroed start, and `ReaderImplementsRead` says the answer depends on
nothing else.

`VaultScript` and `LeafShapes` work on sequences of bytes. A key is `KeyLen` bytes, and
every length and offset is written in terms of it, as in the code. Hashes and tweaks are
free constructors; a parser is the set of readings a script has under its pattern, empty
when the code returns false.

### The money: how it corresponds

A step of `VaultTlv` is one turn of a parser's loop: a tag and a value, or a field that
is cut off, too long or unknown. Several group records in one APDU are several such runs
back to back; `GroupCut` is an APDU that ends inside one. `scalars`, `groups` and
`record` are what has been stored, `sent` and `arrived` are history.

A 64-bit number is below `Word` and sums are taken modulo `Word`, at each `+` where the
code takes them. A transaction is the values and payees of its outputs and the totals
the base app computed; `SignPrePegIn` and the others are the validators' accepting
paths. No verdict depends on an earlier one (that is `SignPsbt`'s business), so one
accepted transaction per load is enough.

### Conventions

Definitions headed *Faulty variant* are not part of the specification. Each is a
plausible slip in the definition that follows it (a dropped count check, a missing
reset), kept to show that the property it is paired with in `PROJECT.json` notices it.

Four things about the translation of the session:

- Defence in depth that cannot fire is folded into the path it duplicates: the `received
  >= total` check of a continuation, the `depositor` re-checks of the signer, the flat
  PegIn and Payout caps behind their masks (kept, and `MasksMatchSignatures` shows why
  they cannot fire). The signer's refusal of three inputs that are no NoPayout is a
  disjunct of `PayoutSigningFails`; `SignerFollowsValidator` shows it is never reached.
- After `SIGN_PSBT` has used the scratch union its content counts as zero: nothing reads
  it as a derivation buffer before a P1=0x00 has cleared it, which is what
  `StreamIntact` is about.
- A PSBT without a wallet policy has no internal input, so `nwp` and `int0` are never
  both true in the instances.
- `InitialChunkMalformed` may have parsed the path before the error; the path is then in
  the scratch buffer, and the model keeps it.

## The runs

`tlc -workers 2 -config <run>.cfg <module>`; the module is `MCVaultApp` for the first
four, `MCLeaf` for `Leaf`, `MCFunds` for `Funds` and `DocTimelock`, and `MCDocClaims`
for the other runs called `Doc...`.

| Run | Instance | Properties |
|---|---|---|
| `Derive` (7 thousand states) | contexts of up to 2 bytes over 2 values, 2 application names, 2 paths, chunks of up to 3 bytes, a PoP and a Claim to interleave | `RootConfinement`, `StreamIntact`, `DerivedFromWhatWasSent` |
| `Load` (570 thousand) | intents of 1 or 2 groups, 1 or 2 keepers, 1 challenger, at a matching and at a foreign path; records sound and unsound (key off the curve, key in two roles, wrong order); batches of up to 2 | `TypeOK`, `IdleIsClean`, `CommitmentsBound`, `ApprovedIntentInForce`, `ApprovedIntentWellFormed`, `LoadCursor`, `RefusalEndsSession` |
| `Sign` (600 thousand) | one intent of 2 groups, 1 keeper, 1 challenger; a Pre-PegIn, two PegIns, three Payouts, a NoPayout, a PayoutFinalize, in every order, any number of times | `WithinAllowance`, `MasksMatchSignatures`, `BudgetNeverRestored`, `KeepsBudget` |
| `Dispatch` (171 thousand) | one intent of 1 group; PSBTs of 1 to 4 inputs, 1 to 3 outputs, every leaf, with and without wallet policy, sound and faulty | `SignerFollowsValidator`, `RecordedForThisPsbt`, `AssertOnlyForApproved` |
| `Leaf` (42 thousand) | every leaf of an intent of 2 groups and 2 keepers, some of one with 17 keepers, with each byte of two of them altered; 17 encodings of a refund timelock; maps with no, one, two and oversized leaves; chunks of 1, 5 and 60 bytes, honest, forged, broken off; with either intent or none | `LeafTypeOK`, `HonestReadSucceeds`, `PrefixGenerated`, `AppChallengersInOrder`, `PegInsDistinct`, `TimelocksReadBack`, `ClaimerExact`, `LeafInItsOwnFlow`, `ShownTimelockEnforced`, `AssertBoundToIntent`, `ReaderImplementsRead`, `ReadEnds` |
| `Funds` (106 thousand) | 13 scalar and 6 group tags and an unknown one, 1 to 5 values each, at the bounds, beyond them, and past 16 and 64 bits; up to 2 groups; Pre-PegIns with 14 tails and HTLCs at both bounds and beside them; payouts for every claimer with fees at and above the cap | `FundsTypeOK`, `ScalarsAsSent`, `GroupsAsSent`, `CommissionCovered`, `PrePegInLayout`, `HtlcsSpendable`, `PayoutPossible`, `FeesWithinBounds` |

**Why these bounds are enough to be interesting.** Two-byte contexts are the shortest
that stream in two chunks, and three-byte chunks overrun them. Two groups and two
keepers are the fewest with an order, a batch boundary inside them and a Payout slot
whose index depends on the stride; a third value of `htlc_vout` allows a wrong order
within the range. The PSBTs of `Sign` cover more than one slot of each kind that has
slots; the NoPayout cap of that intent is 4, so that a replay can be counted up to the
cap and past it. `Dispatch` needs only one group because routing reads whether a group
matches and not which. Nothing is bounded by a counter in a guard: the code's own caps
and checks make every state space finite.

In `Leaf` a key has 2 bytes for the code's 32, and `MaxScript`, `MaxValue`, `PrefixLen`
and `ActualBufAt` shrink with it, in the code's order: a prefix shorter than a leaf,
leaves on both sides of the buffer's end, and an overlap that does cut into the longest
scripts a host can send. Chunks of 1, 5 and 60 fall on, before and across every
boundary; 17 keepers is the first number whose push is longer. Some key bytes are
opcodes, so that a parser which looks in the wrong place finds something. In `Funds`
`Word` is 2^20 for 2^64: far above every sum of legal amounts, as there, with amounts
near the top to make it wrap; `MaxMoney` leaves room below it for the largest fee, as
all the bitcoin there is does below 2^64. `HalfWord` is 65536.

**What the properties say.**

- *Secrets and memory.* `RootConfinement`: the root is there exactly while the session
  is `HASH_DERIVED`. `IdleIsClean`: an `IDLE` session is a zeroed one.
- *Derivation.* `StreamIntact`: between two chunks the scratch union still holds what
  was sent, which fails if `SIGN_PSBT` does not abort the stream.
  `DerivedFromWhatWasSent`: so the root is that of one whole stream.
- *Loading.* `LoadCursor`: the cursors and the running hash describe the records in
  memory, also after a restart. `RefusalEndsSession`: the error table of INS 0x80, the
  user's denial on Screen 2 included (one guide says otherwise, see `DocDeny` below).
  `CommitmentsBound`, `ApprovedIntentInForce`, `ApprovedIntentWellFormed`: what is in
  force is one complete, unambiguous intent, the one approved, and its commitments are
  under the root the context fingerprint names.
- *Budget.* `WithinAllowance`: no approval releases more than it grants, over any
  history of replays, aborts and failures. `MasksMatchSignatures`: masks and counters
  agree with the signatures that left. `BudgetNeverRestored`: nothing but a new approval
  gives allowance back. `KeepsBudget`: the app implements `SigningBudget`.
- *Two dispatchers.* `SignerFollowsValidator`: the signer's branch is the validated
  flow's, despite stale flags. `RecordedForThisPsbt`: the indices it reads are this
  PSBT's. `AssertOnlyForApproved`: an Assert is signed only over the approved parties.
  The bytes are committed to, so the signer's own comparison can only repeat the
  validator's verdict: it is a second line of defence, and the byte-level property is
  `AssertBoundToIntent` below.
- *Reading a leaf.* `ReaderImplementsRead`: the stream is a one-shot read.
  `HonestReadSucceeds`: an honest one is never refused. `ReadEnds`: every read ends,
  also a rejected one.
- *Building and recognising.* `PrefixGenerated`: the prefix described byte by byte is
  the one the encoder writes, above 16 keys too. `AppChallengersInOrder`: the merged
  list is sorted and lacks the claimer only. `TimelocksReadBack`,
  `ShownTimelockEnforced`: builder, parser and consensus agree on every timelock.
  `PegInsDistinct`: the first matching group is the only one. `ClaimerExact`: a Payout
  is accepted exactly for the leaf of a claimer of the group it is judged by, despite
  the overlay.
  `LeafInItsOwnFlow`: no leaf is taken for another's. `AssertBoundToIntent`: an Assert
  begins with the signers of the intent in force.
- *Money.* `ScalarsAsSent`, `GroupsAsSent`: what is stored is what was sent.
  `CommissionCovered`: a vault is worth its commission and dust. `PrePegInLayout`: HTLCs
  are first and in order, and what is behind them is anchor, anchor and change, or
  nothing. `HtlcsSpendable`: what is locked can be released. `PayoutPossible`: a loaded
  vault has an acceptable payout. `FeesWithinBounds`: counted without wrapping, no
  accepted transaction leaves the miners more than its flow's bound.

Four facts about the code came out of the `Funds` properties and shape how they are
stated. A Pre-PegIn is signable only if the groups' `htlc_vout` are 0, 1, ... without a
gap, because no output may stand between HTLCs and none but the HTLCs in front; the
parser only asks for ascending ones. The fee bound of a Payout in `FeesWithinBounds` is
for a `vault_amount` up to `MaxMoney`: above it the sum with Assert:0 could wrap, and no
such output exists on the chain. `TotalFits`, the overflow check on a Payout's outputs,
refuses nothing the other bounds let through. The fee check of a PayoutFinalize is made
only when the intent has a single vault, and bounds the fee against that vault's amount.

**Refinement.** `VaultApp` implements `SigningBudget` with `state <- ctx.state`,
`allowance <- Allowance(approved)`, `spent <- released`. `Allowance` computes from the
intent what the code's caps and masks jointly allow: one Pre-PegIn, one PegIn per group,
one Payout per group and claimer (provider, keepers, depositor), `V * (N + M)`
NoPayouts.

`LeafReader` implements `LeafRead` with the identity on `request` and `Outcome` for
`outcome`: nothing while the keys are walked or a value streams, then `failed`, or the
facts the callers take from `tls` and `meta`.

**Fairness.** The session and the money have none: the device only ever answers, has no
timer, no queue and no background work, so no step is bound to happen unless the host
asks. Within one read it is different. The device takes its own steps (`WF` on `ReadsOn`
and `Opens`: the loop over the keys and the end of a stream), and a host that has not
failed the exchange keeps sending (`WF` on `HostDelivers`, chunks with at least one
byte). Under that, `ReadEnds` holds also for a value whose length was rejected, which no
callback can stop. Nothing weaker will do: a host that sends empty chunks for ever is
stopped by nothing in the protocol, as `docs/upstream-stream-preimage-abort.md` says.
Deadlock is checked in every run (in the session a power cycle is always possible, so
there that check says little).

## Where the documents and the code differ

Each of these is a run whose property is the sentence quoted and which TLC refutes.

| Run | The document | The code |
|---|---|---|
| `DocIdle` | `docs/apdu.md:275` lists what ends a session, with "an error while signing a Payout or NoPayout"; `docs/integration-guide.md:500` even has "Session survives signing failures" on Pre-PegIn, PegIn, NoPayout and Refund | every failure in the signer's PegIn branch ends the session (`src/sign_custom_inputs.c:129`, `:206`), and so does one in its NoPayout branch (`:233`) |
| `DocDeny` | `docs/integration-guide.md:493`, `:502`: a rejection by the user (0x6985) "never invalidates. The same APDU can be resent" | declining Screen 2 invalidates the session (`src/handler/approve_vault_intent.c:370`), and the root is zeroed before the screen is shown (`:357`), as `docs/apdu.md:134` says; `RefusalEndsSession` holds |
| `DocAssert` | `APP_SPECIFICATION.md:466`: output count of an Assert "Not enforced" | with three outputs it goes to the PegIn validator (`src/sign_psbt_validate.c:3687`) |
| `DocWC` | `APP_SPECIFICATION.md:559`, `:567`: a WC is accepted in any state, with one or more inputs | without a wallet policy, two inputs go to Payout once an intent is loaded (`:3710`), three to NoPayout always (`:3693`) |
| `DocDedup` | comments at `src/sign_custom_inputs.c:262` and `src/sign_psbt_validate.c:2128` speak of a dedup bit per NoPayout challenger | there is none, only the flat cap (`src/sign_psbt_validate.c:2134`), as `src/vault_context.h:152` says |
| `DocTimelock` | `src/vault_constants.h:111`, `:114`: payout timelock minimum and maximum "(inclusive)" | 90 and 4032 themselves are refused (`src/vault_tlv.c:94`), as `src/vault_intent.h:85` says; `src/sign_psbt_validate_helpers.c:212` accepts them in a leaf |

One more needs no run of its own. `docs/integration-guide.md:63` says of INTENT_LOADED
"root preserved; commitments recomputed from it", but the root is zeroed on approval
(`src/handler/approve_vault_intent.c:357`): `RootConfinement`, which is proved, says so.

There and in `DocIdle`, `DocDeny` and `DocDedup` the code matches other documents or
comments of the repository and the sentence is out of date. A host that follows
`DocDeny`'s sentence and resends the batch is answered `BAD_STATE`; it has to derive and
load again. In the two WC and Assert cases the rejected shapes are unusual and the app
refuses to sign: nothing wrong is signed.

## The proofs

`tlapm <module>.tla`; about 12000 obligations in eight modules. Each theorem holds for
every value of the constants that the named assumptions admit.

| Module | Theorem | States |
|---|---|---|
| `VaultAppProofs` | `TypeCorrect`, `RootConfined`, `IdleClean`, `StreamSafe`, `RootFromStream` | `Spec => []` of `TypeOK`, `RootConfinement`, `IdleIsClean`, `StreamIntact`, `DerivedFromWhatWasSent` |
| | `Inductive` | `Spec => []IInv` |
| `VaultIntentProofs` | `CursorTrue`, `CommitmentsTrue`, `ApprovedInForce`, `ApprovedWellFormed` | `Spec => []` of `LoadCursor`, `CommitmentsBound`, `ApprovedIntentInForce`, `ApprovedIntentWellFormed` |
| | `RefusalEnds` | `Spec => RefusalEndsSession` |
| | `LoadInductive` | `Spec => []LoadInv` |
| `VaultSigningProofs` | `SignerFollows`, `Recorded`, `MasksTrue`, `NeverOverdrawn` | `Spec => []` of `SignerFollowsValidator`, `RecordedForThisPsbt`, `MasksMatchSignatures`, `WithinAllowance` |
| | `AssertForApproved`, `NeverRestored` | `Spec => AssertOnlyForApproved`, `Spec => BudgetNeverRestored` |
| | `ImplementsBudget` | `Spec => KeepsBudget`: the app implements `SigningBudget` |
| | `BudgetInductive` | `Spec => []BudgetInv` |
| `LeafReaderProofs` | `CapturedExactly`, `Refines` | the reader's invariant; `ReaderImplementsRead` for the reader alone |
| `LeafDispatchProofs` | `Dispatch`, `TypeCorrect`, `HonestHostIsServed`, `RefinesInSession` | the same in a session, `LeafTypeOK`, `HonestReadSucceeds` |
| | `PrefixMirrorsEncoder`, `PegInsTold`, `ChallengersOrdered`, `TimelocksRead` | `Spec => []` of `PrefixGenerated`, `PegInsDistinct`, `AppChallengersInOrder`, `TimelocksReadBack` |
| | `ClaimersFound`, `FlowsApart`, `AssertsBound`, `ShownIsEnforced` | `Spec => []` of `ClaimerExact`, `LeafInItsOwnFlow`, `AssertBoundToIntent`, `ShownTimelockEnforced` |
| | `Judgements` | `Spec => []JudgeInv` |
| `VaultFundsProofs` | `FundsTyped`, `ScalarsFaithful`, `GroupsFaithful`, `CommissionIsCovered` | `Spec => []` of `FundsTypeOK`, `ScalarsAsSent`, `GroupsAsSent`, `CommissionCovered` |
| | `AcceptedHtlcsSpendable`, `PayoutAlwaysPossible`, `FeesBounded`, `PrePegInLayoutKept` | `Spec => []` of `HtlcsSpendable`, `PayoutPossible`, `FeesWithinBounds`, `PrePegInLayout` |
| | `FundsInductive` | `Spec => []FundsInv` |

So every safety property of the six passing runs is also a theorem, both refinements
included: for any number of keepers, challengers and vaults, keys and buffers of any
size, any chunks, and amounts at the code's own widths.

**Assumptions.** TLC evaluates all of them.

- Session: `ZeroAssumption` (the zero of a buffer is no path, name, key or root),
  `BoundsAssumption` (the limits are naturals, and at least one vault, keeper and
  challenger fits), `KeysAssumption` (keys are ordered, device keys are keys),
  `HostAssumption` (host payloads have the types the parser yields).
- Leaf: `SizesAssumption`, `BytesAssumption`, `InputsAssumption`, `ExpectedAssumption`,
  `KeyLenAssumption` and `HostAssumption` (sizes are naturals, values are sequences of
  bytes, 0 among them, chunks are not empty and one may hold a single byte, the prefixes
  are those of the intents). `IntentsAssumption`: an intent in force is one the device
  approves, `Approvable`, which is what the checks of `approve_vault_intent.c` and
  `vault_tlv.c` on keys, groups and scalars amount to. `LayoutAssumption` is the
  compile-time assertions of `globals.c`: the largest Payout leaf of any intent ends
  below `ActualBufAt` (2228 bytes against 2298), the kept prefix covers the bytes a
  shape is told by, and `ActualBufAt` is within a script's buffer (2298 of 2560).
- Money: `WidthAssumption` (the `_Static_assert`s of `vault_tlv.c`), `HostAssumption` (a
  field of the right length is a number below the width of its type), and
  `MoneyAssumption`: all there is, two dust limits and the largest fee at a legal rate
  together stay below `Word`. The actions of `VaultFunds` also say that a transaction's
  values are 64-bit ones, which the base app's decoding ensures.

**Memory and derivation.** None of the five is inductive. `RootConfinement` needs
`IdleIsClean` to know that a derivation which fails in `IDLE` leaves no root, and
`StreamIntact` to know that no continuation runs over a live session.
`DerivedFromWhatWasSent` needs `StreamIntact` at the last chunk. `TypeOK` needs the
cursor of a load to be the length of what it has loaded. So `IInv` is their conjunction
with `LoadUnderWay` (a load runs only in `HASH_DERIVED`, has its scalars, and its two
cursors are lengths), `IntentPresent` (an approved intent has scalars, so the signer's
sums are numbers) and `HeaderParsed` (a stream in progress has a parsed header and no
PSBT in progress). There is one lemma per command and under each one step per action.
Two facts carry most steps: a wiped session satisfies the invariant whatever came before
(`WipedIsSound`), and a refusal changes only the response (`RefusalIsSound`).

**Loading.** `LoadInv` adds to `LoadCursor`, `CommitmentsBound` and
`ApprovedIntentInForce` that every record in memory was found acceptable at its place
(`RecordsChecked`) and that an approved intent has all of them (`IntentComplete`). The
code compares a record only with its predecessor; that therefore *all* are in order is
an induction over the list. The library's induction rules cannot be instantiated by the
provers at hand, so `SuccessorsReachAll` gets it from the pigeonhole principle: a set of
naturals that holds 0 and every successor, and lacks k, would map its members up to k
one to one into one fewer. `RefusalEnds` needs one fact more, `Unrefused`, because
`SIGN_PSBT` leaves the last answer standing until it has one of its own.

**Budget.** `BudgetInv` is the four invariants with `NothingBooked` (no bookkeeping
without an approved intent), `SlotFree` (what an accepted PSBT spends is still unspent,
in the phase between the two hooks) and `AssertChecked`. `SlotFree` is the heart: no
other PSBT can be accepted in between, so the mask bit the validator saw clear is clear
when the signer sets it. That each Payout slot is one group and one claimer is
arithmetic on the stride (`PayoutSlotsApart`), and that a leaf names one claimer is
`OneClaimer`, which needs the keys to be distinct and so `LoadInv`. From there each
release is one step of `SigningBudget`.

**Reading.** `ReaderInv` says that every buffer, the running hash and the mismatch flag
are a function of *how many* bytes are in, so the cuts between chunks cannot matter;
`Walked` says what is known between keys. The refinement is read off at the one step
that ends the walk. In a session the buffers are overlaid by the validators, but only
after the read. `JudgeInv` adds what a judgement rests on: there is none before the read
has ended, the prefix that was expected is that of the intent still in force, and what
an accepted read leaves in `tls` and `meta` is the committed leaf (`AcceptedLeaf`).

**Building.** A leaf is a fold over its pieces, written through a bound on what is still
free. `VaultScriptProofs` says for each leaf what it is when there is room for every
piece at its largest, how long it can get, and what stands at which offset. From there:

- `PrefixMirrorsEncoder`: the generator walks offsets and the encoder writes blocks;
  both are a function of the offset, and agree on each of its ranges.
- `ChallengersOrdered`: removing one key from an ascending list and placing another in
  front of the first it precedes leaves it ascending, because `Precedes` is total on
  keys: two that differ do so at a least position (`OneOfThemPrecedes`).
- `TimelocksRead`: the timelock is one byte or two behind its length. The refund parser
  reads it forwards. The payout parser reads it backwards, first as two bytes and then
  as one; what keeps the first attempt from succeeding on a single byte is that in front
  of its length stands `OP_NUMEQUALVERIFY`, which is no push.
- `PegInsTold`: ids are free constructors of the HTLC output, and those ascend.

**Judging.** `FlowsApart` sorts scripts into kinds by their length, the opcodes at fixed
offsets and the last byte (`KindOf`). Each builder's leaf is of one kind and each
validator accepts one kind; only Payout and PayoutFinalize share theirs, because they
spend the same output. `ClaimersFound` is the overlay: the rebuilt leaf is shorter than
`ActualBufAt`, so the bytes it is compared with are still the ones that were read
(`ComparedExactly`); and as nobody is in two roles, the first key of a prescribed leaf
leads back to its claimer and no other (`LeafOfClaimer`). `ShownIsEnforced` compares the
number that was parsed with the low 16 bits consensus takes of the same bytes.

**Money.** `FundsInv` says that every stored field passed its check at the width it came
in, and every stored group all of its checks. `RoomMeans` turns the guarded comparison
into plain arithmetic; `CreatedIsSpendable` shows that the interval an HTLC is created
in lies within the one it is spent in, wrapped sums included. `FeesBounded` has one
lemma per flow, each of which first shows that none of the flow's sums wrapped, or that
the validator noticed. `PayoutAlwaysPossible` exhibits the payout: everything but one
satoshi and the outputs that are fixed goes to the first output. `GroupsFaithful`
follows the records through the log of what arrived, tag by tag. `PrePegInLayoutKept`
goes through the outputs behind the HTLCs, prefix by prefix, and shows that the
depositor has been paid nothing, the anchor, or the anchor and the change.

**Induction.** The library's induction rules take an operator as a parameter, which the
provers at hand cannot instantiate. Where a proof needs induction over numbers or over
the length of a list it is stated with sets instead: `SuccessorsReachAll` (a set of
naturals with 0 and every successor is all of them, by the pigeonhole principle),
`LeastExists`, `SubsetsReached` for finite sets, and `FoldExists`,
`ConcatenationsExist`, which produce the partial results of a fold as a sequence whose
neighbours can be compared. That covers the folds of the community modules; no module
with a proof has a `RECURSIVE` operator.

**Only model-checked**: `ReadEnds`, which is liveness under fairness, and the six
sentences of documents that TLC refutes.

## What is not modelled

- `bip322.c`: it hashes a fixed transaction and keeps no state; what could be wrong in
  it is the value of a hash.
- `display.c`: layout and wording. A review is a choice between approve and reject.
- Sequence, locktime, sighash and derivation-path checks (`check_bip86_path` among
  them): one comparison each, with no state behind them. They are `fault` in `SignPsbt`.
- The amounts of the flows without an intent (Claim, Reclaim, Assert, Refund, WC): shown
  to the user and bounded by the totals only.
- Scratch-union members that only carry text or a sighash (`sign_standalone`, the
  display buffers): written and read within one function.
- The base app and the SDK, beyond how the hooks use them: totals, preprocessing and the
  Merkle proofs are external, as are chunk announcements.
- Key derivation, signatures and hashes as mathematics; hashes are free constructors, so
  equal only for equal inputs.
- Tests, mocks and fuzzing harnesses: not part of the program.

The remaining checks could only be restated as guards; a property of them would repeat
the line it is about.

## Plan

1. *(done)* `VaultContext`, `DeriveContextHash`, `ApproveVaultIntent`, `SignPsbt`,
   `VaultApp`: the session, because all commands depend on it.
2. *(done)* `SigningBudget`, and `VaultApp` as its implementation.
3. *(done)* `LeafRead`, `LeafReader`: the stream, and that its chunks do not matter;
   with the overlay of `tls` by `leaf_check` in `LeafDispatch`.
4. *(done)* `VaultScript`, `LeafShapes`: builders against parsers, and the prefix
   generator against the encoder.
5. *(done)* `VaultTlv`, `VaultFunds`: parsing at every bound, and the money from one
   validator to the next.
6. *(done)* Proofs of all safety properties of the session, the leaf and the money.
7. *(open)* Splitting `fault` for the flows whose checks read the session (PoP,
   PayoutFinalize), with those checks in their validators.
8. *(open)* The overflow check on a Payout's outputs, which refuses nothing the other
   bounds let through, as a theorem.
