--------------------------- MODULE VaultAppProofs ---------------------------
(***************************************************************************)
(* What VaultApp's runs check on small instances, proved for every value   *)
(* of the constants: the types, where the root is, and what an IDLE        *)
(* session, a stream and a context fingerprint mean.  None of these is     *)
(* inductive alone; IInv is.                                               *)
(***************************************************************************)
EXTENDS VaultApp, SequenceTheorems, TLAPS

(* What else a step needs to know of the one before.  A load runs only     *)
(* over a derived root and its cursors are the lengths of the records; a   *)
(* load or an approved intent has scalars; a header was parsed before a    *)
(* chunk is stored; and no PSBT is in progress while a stream is.          *)
LoadUnderWay ==
  approve.scalars_loaded =>
    /\ ctx.state = "HASH_DERIVED"
    /\ intent.scalars \in Scalars
    /\ ctx.vault_group_index = Len(intent.groups)
    /\ approve.keys_received = Len(intent.keys)

IntentPresent ==
  ctx.state = "INTENT_LOADED" => intent.scalars \in Scalars

HeaderParsed ==
  stream.streaming_in_progress =>
    /\ scratch.app_name_buf \in AppNames
    /\ scratch.path \in Paths
    /\ psbt.phase = "none"

IInv ==
  /\ TypeOK
  /\ RootConfinement
  /\ IdleIsClean
  /\ StreamIntact
  /\ DerivedFromWhatWasSent
  /\ LoadUnderWay
  /\ IntentPresent
  /\ HeaderParsed

-----------------------------------------------------------------------------
(* Types of the constants and of the derived values. *)

(* A batch is a sequence of what it carries. *)
LEMMA BatchIsSeq ==
  ASSUME NEW S, NEW n, NEW b \in SeqOf(S, n)
  PROVE  b \in Seq(S)
BY SeqDef, SMT DEF SeqOf

(* The wiped session has the types of the session. *)
LEMMA ZeroTyped ==
  /\ ZeroCtx \in Contexts
  /\ ZeroSigs \in Bookkeeping
  /\ ZeroIntent \in Intents
  /\ ZeroApprove \in Approvals
  /\ ZeroStream \in Streams
  /\ ZeroScratch \in Buffers
  /\ NoPsbt \in Commands
  /\ NoneReleased \in [SignatureSlots -> Nat]
<1>1. ZeroCtx \in Contexts
  BY EmptySeq, BoundsAssumption DEF ZeroCtx, Contexts
<1>2. ZeroSigs \in Bookkeeping
  BY DEF ZeroSigs, Bookkeeping
<1>3. ZeroIntent \in Intents /\ ZeroApprove \in Approvals /\ ZeroScratch \in Buffers
  BY EmptySeq DEF ZeroIntent, Intents, ZeroApprove, Approvals, ZeroScratch, Buffers
<1>4. ZeroStream \in Streams
  BY DEF ZeroStream, Streams
<1>5. NoPsbt \in Commands /\ NoneReleased \in [SignatureSlots -> Nat]
  BY DEF Commands, NoneReleased
<1> QED
  BY <1>1, <1>2, <1>3, <1>4, <1>5

(* A step that leaves a wiped session, no stream and no PSBT keeps IInv:   *)
(* Init, a power cycle, and every rejection that invalidates.              *)
LEMMA WipedIsSound ==
  ASSUME IInv,
         Invalidate,
         stream' \in Streams, ~stream'.streaming_in_progress,
         psbt' \in Commands,
         sent' \in Buffers, approved' \in Intents,
         released' \in [SignatureSlots -> Nat]
  PROVE  IInv'
BY ZeroTyped DEF Invalidate, IInv, TypeOK, RootConfinement, IdleIsClean, StreamIntact,
  DerivedFromWhatWasSent, LoadUnderWay, IntentPresent, HeaderParsed, ZeroCtx, ZeroApprove

(* A step that changes only the response.                                  *)
LEMMA RefusalIsSound ==
  ASSUME IInv, UNCHANGED <<session, stream, scratch, psbt, history>>
  PROVE  IInv'
BY DEF session, history, IInv, TypeOK, RootConfinement, IdleIsClean, StreamIntact,
  DerivedFromWhatWasSent, LoadUnderWay, IntentPresent, HeaderParsed, SentRoot

(* At boot the session is wiped, and IInv holds of it.                     *)
LEMMA InitIInv == Init => IInv
BY ZeroTyped DEF Init, Boot, IInv, TypeOK, RootConfinement, IdleIsClean, StreamIntact,
  DerivedFromWhatWasSent, LoadUnderWay, IntentPresent, HeaderParsed, ZeroCtx, ZeroStream, ZeroApprove

(* A power cycle leaves the session as it is at boot.                      *)
LEMMA PowerCycleIInv == PowerCycle => IInv'
BY ZeroTyped DEF PowerCycle, IInv, TypeOK, RootConfinement, IdleIsClean, StreamIntact,
  DerivedFromWhatWasSent, LoadUnderWay, IntentPresent, HeaderParsed, ZeroCtx, ZeroStream, ZeroApprove

-----------------------------------------------------------------------------
(* DERIVE_CONTEXT_HASH *)

(* What a header and a chunk leave in the stream and the scratch union.    *)
LEMMA OpenedTyped ==
  ASSUME NEW silent \in BOOLEAN, NEW h \in Headers, NEW chunk \in Chunks
  PROVE  /\ OpenedStream(silent, h, chunk) \in Streams
         /\ OpenedScratch(h, chunk) \in Buffers
         /\ OpenedScratch(h, chunk).app_name_buf \in AppNames
         /\ OpenedScratch(h, chunk).path \in Paths
<1>1. chunk \in Seq(ContextBytes)
  BY BatchIsSeq DEF Chunks
<1>2. Len(chunk) \in Nat
  BY <1>1, LenProperties
<1> QED
  BY <1>1, <1>2, BoundsAssumption
  DEF OpenedStream, OpenedScratch, Headers, Streams, Buffers

(* P1=0x00 leaves nothing of a session, whatever there was.                *)
LEMMA CancelledIsZero ==
  ASSUME IInv
  PROVE  /\ Cancelled(ctx, ZeroCtx) = ZeroCtx
         /\ Cancelled(sigs, ZeroSigs) = ZeroSigs
         /\ Cancelled(intent, ZeroIntent) = ZeroIntent
BY DEF IInv, IdleIsClean, Cancelled

(* The derivation itself: from an empty session and a parsed header.       *)
LEMMA FinalizeIsSound ==
  ASSUME IInv,
         NEW st \in Streams, NEW sc \in Buffers,
         sc.app_name_buf \in AppNames, sc.path \in Paths,
         Finalize(ZeroCtx, ZeroSigs, ZeroIntent, ZeroApprove, st, sc),
         sent' = sc, psbt' = psbt, approved' = approved, released' = released
  PROVE  IInv'
<1>1. stream' \in Streams /\ ~stream'.streaming_in_progress
  BY DEF Finalize, Streams
<1>2. psbt' \in Commands /\ sent' \in Buffers /\ approved' \in Intents
        /\ released' \in [SignatureSlots -> Nat]
  BY DEF IInv, TypeOK
<1>3. [sc EXCEPT !.context_buf = <<>>] \in Buffers
  BY EmptySeq DEF Buffers
<1>4. CASE Invalidate
  BY <1>1, <1>2, <1>4, WipedIsSound
<1>5. CASE /\ ctx' = ZeroCtx
           /\ sigs' = ZeroSigs
           /\ intent' = ZeroIntent
           /\ approve' = ZeroApprove
           /\ scratch' = [sc EXCEPT !.context_buf = <<>>]
  BY <1>1, <1>2, <1>3, <1>5, ZeroTyped
  DEF IInv, TypeOK, RootConfinement, IdleIsClean, StreamIntact, DerivedFromWhatWasSent,
      LoadUnderWay, IntentPresent, HeaderParsed, ZeroCtx, ZeroApprove
<1>6. ASSUME NEW root,
             root = Hkdf(sc.app_name_buf, sc.path, sc.context_buf),
             ctx' = [ZeroCtx EXCEPT !.state = "HASH_DERIVED",
                                    !.root = root,
                                    !.context_fp = Fingerprint(root),
                                    !.derivation_path = sc.path,
                                    !.app_name = sc.app_name_buf],
             sigs' = ZeroSigs, intent' = ZeroIntent, approve' = ZeroApprove,
             scratch' = [sc EXCEPT !.context_buf = <<>>]
      PROVE  IInv'
  <2>1. root \in Roots /\ root # Zero
    BY <1>6, ZeroAssumption DEF Hkdf, Roots, Buffers
  <2>2. Fingerprint(root) \in RootFingerprints
    BY <2>1 DEF Fingerprint, RootFingerprints
  <2>3. ctx' \in Contexts
    BY <1>6, <2>1, <2>2, ZeroTyped DEF Contexts
  <2>4. TypeOK'
    BY <1>1, <1>2, <1>3, <1>6, <2>3, ZeroTyped DEF TypeOK
  <2>5. /\ ctx'.state = "HASH_DERIVED"
        /\ ctx'.root = root
        /\ ctx'.context_fp = Fingerprint(root)
        /\ ctx'.derivation_path = sc.path
    BY <1>6 DEF ZeroCtx
  <2> QED
    BY <1>1, <1>6, <2>1, <2>4, <2>5
    DEF IInv, RootConfinement, IdleIsClean, StreamIntact, DerivedFromWhatWasSent,
        LoadUnderWay, IntentPresent, HeaderParsed, SentRoot, ZeroApprove
<1> QED
  BY <1>4, <1>5, <1>6 DEF Finalize

(* The context bytes of one APDU are a finite sequence of bytes.           *)
LEMMA ChunkIsSeq ==
  ASSUME NEW chunk \in Chunks
  PROVE  chunk \in Seq(ContextBytes) /\ Len(chunk) \in Nat
BY BatchIsSeq, LenProperties DEF Chunks

(* Receiving a chunk moves the cursor and nothing else.                    *)
LEMMA ReceivedTyped ==
  ASSUME stream \in Streams, NEW chunk \in Chunks
  PROVE  /\ Received(chunk) \in Streams
         /\ Received(chunk).context_total_len = stream.context_total_len
         /\ Received(chunk).context_received_len
              = stream.context_received_len + Len(chunk)
<1>1. PICK n \in Nat : n = Len(chunk)
  BY ChunkIsSeq
<1>2. [stream EXCEPT !.context_received_len = stream.context_received_len + n] \in Streams
  BY DEF Streams
<1> QED
  BY <1>1, <1>2 DEF Received, Streams

(* A chunk is appended to the context bytes and to nothing else.           *)
LEMMA AppendedTyped ==
  ASSUME NEW buffer \in Buffers, NEW chunk \in Chunks
  PROVE  /\ Appended(buffer, chunk) \in Buffers
         /\ Appended(buffer, chunk).app_name_buf = buffer.app_name_buf
         /\ Appended(buffer, chunk).path = buffer.path
         /\ Appended(buffer, chunk).context_buf = buffer.context_buf \o chunk
         /\ Appended(buffer, chunk) =
              [buffer EXCEPT !.context_buf = @ \o chunk]
         /\ Len(buffer.context_buf \o chunk)
              = Len(buffer.context_buf) + Len(chunk)
BY ChunkIsSeq, ConcatProperties DEF Appended, Buffers

(* Every DERIVE_CONTEXT_HASH step preserves IInv.                          *)
LEMMA DeriveIInv == IInv /\ DeriveNext => IInv'
<1> SUFFICES ASSUME IInv, DeriveNext
             PROVE  IInv'
  OBVIOUS
<1> USE ZeroTyped
<1>1. CASE DeriveWrongP1P2
  BY <1>1, RefusalIsSound DEF DeriveWrongP1P2, Refuse
<1>2. CASE InitialChunkMalformed
  <2>1. /\ ctx' = ZeroCtx
        /\ sigs' = ZeroSigs
        /\ intent' = ZeroIntent
        /\ approve' = ZeroApprove
    BY <1>2, CancelledIsZero DEF InitialChunkMalformed
  <2>2. stream' = ZeroStream /\ scratch' \in Buffers
    BY <1>2, EmptySeq DEF InitialChunkMalformed, ZeroScratch, Buffers
  <2>3. TypeOK'
    BY <1>2, <2>1, <2>2, ZeroTyped DEF InitialChunkMalformed, IInv, TypeOK
  <2> QED
    BY <2>1, <2>2, <2>3
    DEF IInv, RootConfinement, IdleIsClean, StreamIntact, DerivedFromWhatWasSent,
        LoadUnderWay, IntentPresent, HeaderParsed, ZeroCtx, ZeroApprove, ZeroStream
<1>3. ASSUME NEW silent \in BOOLEAN, NEW h \in Headers, NEW chunk \in Chunks,
             InitialChunkPartial(silent, h, chunk)
      PROVE  IInv'
  <2>1. /\ ctx' = ZeroCtx
        /\ sigs' = ZeroSigs
        /\ intent' = ZeroIntent
        /\ approve' = ZeroApprove
    BY <1>3, CancelledIsZero DEF InitialChunkPartial
  <2>2. /\ stream' \in Streams
        /\ stream'.context_received_len = Len(chunk)
        /\ stream'.context_received_len < stream'.context_total_len
    BY <1>3, OpenedTyped DEF InitialChunkPartial, OpenedStream, Streams
  <2>3. /\ scratch' \in Buffers /\ sent' = scratch'
        /\ scratch'.app_name_buf \in AppNames
        /\ scratch'.path \in Paths
        /\ scratch'.context_buf = chunk
    BY <1>3, OpenedTyped DEF InitialChunkPartial, OpenedScratch
  <2>4. psbt'.phase = "none"
    BY <1>3 DEF InitialChunkPartial, Dispatching
  <2>5. TypeOK'
    BY <1>3, <2>1, <2>2, <2>3 DEF InitialChunkPartial, IInv, TypeOK
  <2> QED
    BY <2>1, <2>2, <2>3, <2>4, <2>5
    DEF IInv, RootConfinement, IdleIsClean, StreamIntact, DerivedFromWhatWasSent,
        LoadUnderWay, IntentPresent, HeaderParsed, ZeroCtx, ZeroApprove
<1>4. ASSUME NEW silent \in BOOLEAN, NEW h \in Headers, NEW chunk \in Chunks,
             InitialChunkComplete(silent, h, chunk)
      PROVE  IInv'
  BY <1>4, OpenedTyped, CancelledIsZero, FinalizeIsSound
  DEF InitialChunkComplete
<1>5. CASE ContinuationRefused
  BY <1>5, RefusalIsSound DEF ContinuationRefused, Refuse
<1>6. ASSUME NEW chunk \in Chunks, ContinuationOverrun(chunk)
      PROVE  IInv'
  <2>1. stream' \in Streams /\ ~stream'.streaming_in_progress
    BY <1>6 DEF ContinuationOverrun, IInv, TypeOK, Streams
  <2> QED
    BY <1>6, <2>1, WipedIsSound DEF ContinuationOverrun, history, IInv, TypeOK
<1>7. ASSUME NEW chunk \in Chunks, ContinuationPartial(chunk)
      PROVE  IInv'
  <2>1. /\ UNCHANGED <<session, psbt, approved, released>>
        /\ ctx.state = "IDLE"
        /\ ~approve.scalars_loaded
    BY <1>7 DEF ContinuationPartial, IInv, StreamIntact, LoadUnderWay
  <2>2. /\ stream' \in Streams
        /\ stream'.context_received_len = stream.context_received_len + Len(chunk)
        /\ stream'.context_received_len < stream'.context_total_len
    <3>1. stream \in Streams
      BY DEF IInv, TypeOK
    <3>2. PICK n \in Nat : n = Len(chunk)
      BY ChunkIsSeq
    <3>3. /\ stream.context_total_len \in Nat
          /\ stream.context_received_len \in Nat
          /\ n < stream.context_total_len - stream.context_received_len
      BY <1>7, <3>1, <3>2 DEF ContinuationPartial, Remaining, Streams
    <3>4. stream' = Received(chunk)
      BY <1>7 DEF ContinuationPartial
    <3> QED
      BY <3>1, <3>2, <3>3, <3>4, ReceivedTyped
  <2>3. /\ scratch' \in Buffers /\ sent' = scratch'
        /\ scratch'.app_name_buf \in AppNames
        /\ scratch'.path \in Paths
        /\ Len(sent'.context_buf) = Len(sent.context_buf) + Len(chunk)
    <3>1. /\ stream.streaming_in_progress
          /\ scratch' = Appended(scratch, chunk)
          /\ sent' = [sent EXCEPT !.context_buf = @ \o chunk]
      BY <1>7 DEF ContinuationPartial
    <3>2. /\ scratch \in Buffers
          /\ sent = scratch
          /\ scratch.app_name_buf \in AppNames
          /\ scratch.path \in Paths
      BY <3>1 DEF IInv, TypeOK, StreamIntact, HeaderParsed
    <3> QED
      BY <3>1, <3>2, AppendedTyped
  <2>4. TypeOK'
    BY <2>1, <2>2, <2>3 DEF session, IInv, TypeOK
  <2> QED
    BY <1>7, <2>1, <2>2, <2>3, <2>4
    DEF ContinuationPartial, session, IInv, RootConfinement, IdleIsClean,
        StreamIntact, DerivedFromWhatWasSent, LoadUnderWay, IntentPresent,
        HeaderParsed
<1>8. ASSUME NEW chunk \in Chunks, ContinuationComplete(chunk)
      PROVE  IInv'
  <2>1. Received(chunk) \in Streams
    BY ReceivedTyped DEF IInv, TypeOK
  <2>2. /\ Appended(scratch, chunk) \in Buffers
        /\ Appended(scratch, chunk).app_name_buf \in AppNames
        /\ Appended(scratch, chunk).path \in Paths
        /\ sent' = Appended(scratch, chunk)
    BY <1>8, AppendedTyped
    DEF ContinuationComplete, IInv, TypeOK, StreamIntact, HeaderParsed
  <2>3. Finalize(ZeroCtx, ZeroSigs, ZeroIntent, ZeroApprove, Received(chunk),
                 Appended(scratch, chunk))
    BY <1>8 DEF ContinuationComplete, IInv, StreamIntact, IdleIsClean
  <2> QED
    BY <1>8, <2>1, <2>2, <2>3, FinalizeIsSound DEF ContinuationComplete
<1> QED
  BY <1>1, <1>2, <1>3, <1>4, <1>5, <1>6, <1>7, <1>8 DEF DeriveNext

-----------------------------------------------------------------------------
(* APPROVE_VAULT_INTENT *)

(* No stream is running over a live session.                               *)
LEMMA LiveIsQuiet ==
  ASSUME IInv, ctx.state # "IDLE"
  PROVE  ~stream.streaming_in_progress
BY DEF IInv, StreamIntact

(* A rejected APPROVE_VAULT_INTENT payload wipes the whole session.        *)
LEMMA RejectLoadIsSound ==
  ASSUME IInv, ctx.state # "IDLE", NEW sw, RejectLoad(sw)
  PROVE  IInv'
<1>1. ~stream.streaming_in_progress
  BY LiveIsQuiet
<1> QED
  BY <1>1, WipedIsSound DEF RejectLoad, history, IInv, TypeOK

(* A load that has begun has its root, its scalars and room in its arrays. *)
LEMMA LoadTyped ==
  ASSUME IInv, approve.scalars_loaded
  PROVE  /\ ctx.state = "HASH_DERIVED"
         /\ ctx.root \in Roots
         /\ intent.scalars \in Scalars
         /\ intent.groups \in Seq(GroupRecords)
         /\ intent.keys \in Seq(KeyEntries)
         /\ ctx.vault_group_index = Len(intent.groups)
         /\ approve.keys_received = Len(intent.keys)
         /\ ctx.vault_group_index \in Nat
         /\ approve.keys_received \in Nat
         /\ ~stream.streaming_in_progress
<1>1. /\ ctx \in Contexts /\ intent \in Intents /\ approve \in Approvals
  BY DEF IInv, TypeOK
<1>2. /\ ctx.state = "HASH_DERIVED"
      /\ intent.scalars \in Scalars
      /\ ctx.vault_group_index = Len(intent.groups)
      /\ approve.keys_received = Len(intent.keys)
  BY DEF IInv, LoadUnderWay
<1>3. ctx.root \in Roots
  BY <1>1, <1>2 DEF IInv, RootConfinement, Contexts
<1> QED
  BY <1>1, <1>2, <1>3, LiveIsQuiet DEF Contexts, Intents, Approvals

(* Records parsed behind a full cursor are appended.                       *)
LEMMA RecordsAppended ==
  ASSUME NEW S, NEW s \in Seq(S), NEW b \in Seq(S)
  PROVE  /\ SubSeq(s, 1, Len(s)) \o b = s \o b
         /\ s \o b \in Seq(S)
         /\ Len(s \o b) = Len(s) + Len(b)
BY SubSeqFull, ConcatProperties

(* The running intent hash stays a sequence of payloads as it absorbs one. *)
LEMMA HashTyped ==
  ASSUME NEW S, NEW b \in Seq(S), approve \in Approvals,
         S \subseteq Scalars \cup GroupRecords \cup KeyEntries
  PROVE  approve.intent_hash \o b \in Seq(Scalars \cup GroupRecords \cup KeyEntries)
<1>1. b \in Seq(Scalars \cup GroupRecords \cup KeyEntries)
  BY SeqMonotonic
<1>2. approve.intent_hash \in Seq(Scalars \cup GroupRecords \cup KeyEntries)
  BY DEF Approvals
<1> QED
  BY <1>1, <1>2, ConcatProperties

(* Starting a load, or starting it over, keeps the derivation.             *)
LEMMA ScalarsLoadedIInv ==
  ASSUME IInv, NEW s \in HostScalars, ScalarsLoaded(s)
  PROVE  IInv'
<1>1. s \in Scalars
  BY HostAssumption
<1>2. ctx \in Contexts /\ ctx.state = "HASH_DERIVED" /\ ~stream.streaming_in_progress
  BY LiveIsQuiet DEF ScalarsLoaded, IInv, TypeOK
<1>3. /\ ctx' \in Contexts
      /\ ctx'.state = "HASH_DERIVED"
      /\ ctx'.root = ctx.root
      /\ ctx'.context_fp = ctx.context_fp
      /\ ctx'.derivation_path = ctx.derivation_path
      /\ ctx'.vault_group_index = 0
  <2>1. /\ ctx.root \in Roots \cup {Zero}
        /\ ctx.context_fp \in RootFingerprints \cup {Zero}
        /\ ctx.derivation_path \in Paths \cup {Zero}
        /\ ctx.app_name \in AppNames \cup {Zero}
    BY <1>2 DEF Contexts
  <2>2. ctx' = DerivationKept
    BY DEF ScalarsLoaded
  <2> QED
    BY <2>1, <2>2, ZeroTyped DEF DerivationKept, ZeroCtx, Contexts
<1>4. /\ intent' \in Intents
      /\ intent'.scalars = s
      /\ intent'.groups = <<>>
      /\ intent'.keys = <<>>
  BY <1>1, ZeroTyped DEF ScalarsLoaded, ZeroIntent, Intents
<1>5. /\ approve' \in Approvals
      /\ approve'.keys_received = 0
  <2>1. <<s>> \in Seq(Scalars \cup GroupRecords \cup KeyEntries)
    BY <1>1
  <2> QED
    BY <2>1 DEF ScalarsLoaded, LoadBegun, Approvals
<1>6. TypeOK'
  BY <1>3, <1>4, <1>5, ZeroTyped DEF ScalarsLoaded, history, IInv, TypeOK
<1> QED
  BY <1>1, <1>2, <1>3, <1>4, <1>5, <1>6, EmptySeq
  DEF ScalarsLoaded, history, IInv, RootConfinement, IdleIsClean, StreamIntact,
      DerivedFromWhatWasSent, SentRoot, LoadUnderWay, IntentPresent, HeaderParsed

(* A batch of groups fills groups[] up to the cursor and keeps the root.   *)
LEMMA GroupsLoadedIInv ==
  ASSUME IInv, NEW b \in SeqOf(HostGroups, MaxBatch), GroupsLoaded(b)
  PROVE  IInv'
<1>1. b \in Seq(GroupRecords)
  BY BatchIsSeq, SeqMonotonic, HostAssumption
<1>2. PICK n \in Nat : n = Len(b)
  BY <1>1, LenProperties
<1>3. approve.scalars_loaded
  BY DEF GroupsLoaded
<1>4. /\ intent'.groups = intent.groups \o b
      /\ intent'.scalars = intent.scalars
      /\ intent'.keys = intent.keys
      /\ intent' \in Intents
      /\ Len(intent'.groups) = Len(intent.groups) + n
  <2>1. GroupsWith(b) = intent.groups \o b
    BY <1>1, <1>3, LoadTyped, RecordsAppended DEF GroupsWith
  <2>2. /\ intent.groups \o b \in Seq(GroupRecords)
        /\ Len(intent.groups \o b) = Len(intent.groups) + n
    BY <1>1, <1>2, <1>3, LoadTyped, RecordsAppended
  <2>3. intent' = [intent EXCEPT !.groups = intent.groups \o b]
    BY <2>1 DEF GroupsLoaded
  <2>4. intent \in Intents
    BY DEF IInv, TypeOK
  <2> QED
    BY <2>2, <2>3, <2>4 DEF Intents
<1>5. /\ ctx' = [ctx EXCEPT !.vault_group_index = ctx.vault_group_index + n]
      /\ ctx.vault_group_index + n \in 0..MaxVaults
  <2>1. ctx.vault_group_index \in 0..MaxVaults
    BY DEF IInv, TypeOK, Contexts
  <2>2. intent.scalars.vault_count \in 1..MaxVaults
    BY <1>3, LoadTyped DEF Scalars
  <2>3. CASE n = 0
    BY <1>2, <2>1, <2>3 DEF GroupsLoaded
  <2>4. CASE n > 0
    <3>1. GroupAcceptable(GroupsWith(b), ctx.vault_group_index + n)
      BY <1>2, <2>1, <2>4 DEF GroupsLoaded
    <3> QED
      BY <1>2, <2>1, <2>2, <3>1, BoundsAssumption
      DEF GroupAcceptable, GroupsLoaded
  <2> QED
    BY <1>2, <2>3, <2>4
<1>6. /\ approve' \in Approvals
      /\ approve'.keys_received = approve.keys_received
  <2>1. approve \in Approvals
    BY DEF IInv, TypeOK
  <2>2. approve' = [approve EXCEPT !.intent_hash = approve.intent_hash \o b]
    BY DEF GroupsLoaded
  <2> QED
    BY <1>1, <2>1, <2>2, HashTyped DEF Approvals
<1>7. /\ ctx' \in Contexts
      /\ ctx'.state = ctx.state
      /\ ctx'.root = ctx.root
      /\ ctx'.context_fp = ctx.context_fp
      /\ ctx'.derivation_path = ctx.derivation_path
      /\ ctx'.vault_group_index = ctx.vault_group_index + n
  BY <1>5 DEF IInv, TypeOK, Contexts
<1>8. TypeOK'
  BY <1>4, <1>6, <1>7 DEF GroupsLoaded, history, IInv, TypeOK
<1> QED
  BY <1>3, <1>4, <1>6, <1>7, <1>8, LoadTyped
  DEF GroupsLoaded, history, IInv, RootConfinement, IdleIsClean, StreamIntact,
      DerivedFromWhatWasSent, SentRoot, LoadUnderWay, IntentPresent, HeaderParsed

(* A batch of keys, accepted: what it leaves in the intent.                *)
LEMMA KeysAppended ==
  ASSUME IInv, approve.scalars_loaded, NEW b \in SeqOf(HostKeys, MaxBatch)
  PROVE  /\ KeysWith(b) = intent.keys \o b
         /\ KeysWith(b) \in Seq(KeyEntries)
         /\ Len(KeysWith(b)) = Len(intent.keys) + Len(b)
         /\ Len(b) \in Nat
         /\ approve.intent_hash \o b
              \in Seq(Scalars \cup GroupRecords \cup KeyEntries)
<1>1. b \in Seq(KeyEntries)
  BY BatchIsSeq, SeqMonotonic, HostAssumption
<1>2. approve \in Approvals
  BY DEF IInv, TypeOK
<1>3. KeysWith(b) = SubSeq(intent.keys, 1, Len(intent.keys)) \o b
  BY LoadTyped DEF KeysWith
<1>4. intent.keys \in Seq(KeyEntries)
  BY LoadTyped
<1>5. /\ KeysWith(b) = intent.keys \o b
      /\ KeysWith(b) \in Seq(KeyEntries)
      /\ Len(KeysWith(b)) = Len(intent.keys) + Len(b)
  <2>1. /\ SubSeq(intent.keys, 1, Len(intent.keys)) \o b = intent.keys \o b
        /\ intent.keys \o b \in Seq(KeyEntries)
        /\ Len(intent.keys \o b) = Len(intent.keys) + Len(b)
    BY <1>1, <1>4, RecordsAppended, ZenonT(20)
  <2> QED
    BY <1>3, <2>1
<1>6. approve.intent_hash \o b \in Seq(Scalars \cup GroupRecords \cup KeyEntries)
  BY <1>1, <1>2, HashTyped
<1> QED
  BY <1>1, <1>5, <1>6, LenProperties

(* A batch of keys short of the total keeps the load and the root.         *)
LEMMA KeysLoadedIInv ==
  ASSUME IInv, NEW b \in SeqOf(HostKeys, MaxBatch), KeysLoaded(b)
  PROVE  IInv'
<1>1. approve.scalars_loaded
  BY DEF KeysLoaded
<1>2. PICK n \in Nat : n = Len(b)
  BY <1>1, KeysAppended
<1>3. /\ intent' \in Intents
      /\ intent'.scalars = intent.scalars
      /\ intent'.groups = intent.groups
      /\ Len(intent'.keys) = Len(intent.keys) + n
  <2>1. intent' = [intent EXCEPT !.keys = KeysWith(b)] /\ intent \in Intents
    BY DEF KeysLoaded, IInv, TypeOK
  <2> QED
    BY <1>1, <1>2, <2>1, KeysAppended DEF Intents
<1>4. /\ approve' \in Approvals
      /\ approve'.keys_received = approve.keys_received + n
  <2>1. /\ approve' = [approve EXCEPT !.keys_received = approve.keys_received + n,
                                      !.intent_hash = approve.intent_hash \o b]
        /\ approve \in Approvals
    BY <1>2 DEF KeysLoaded, IInv, TypeOK
  <2>2. /\ approve.keys_received + n \in Nat
        /\ approve.intent_hash \o b
             \in Seq(Scalars \cup GroupRecords \cup KeyEntries)
    BY <1>1, <1>2, KeysAppended, LoadTyped
  <2> QED
    BY <2>1, <2>2 DEF Approvals
<1>5. TypeOK'
  BY <1>3, <1>4 DEF KeysLoaded, history, IInv, TypeOK
<1> QED
  BY <1>1, <1>3, <1>4, <1>5, LoadTyped
  DEF KeysLoaded, history, IInv, RootConfinement, IdleIsClean, StreamIntact,
      DerivedFromWhatWasSent, SentRoot, LoadUnderWay, IntentPresent, HeaderParsed

(* Approval trades the root for commitments over it.                       *)
LEMMA IntentApprovedIInv ==
  ASSUME IInv, NEW b \in SeqOf(HostKeys, MaxBatch), IntentApproved(b)
  PROVE  IInv'
<1>1. approve.scalars_loaded /\ KeysExpected /\ ctx \in Contexts /\ intent \in Intents
  BY DEF IntentApproved, KeysComplete, IInv, TypeOK
<1> DEFINE v == intent.scalars.vault_count
           pk == DepositorKeyAt[intent.scalars.depositor_path]
           hashlocks == [g \in 1..v |-> Hashlock(ctx.root, intent.groups[g].htlc_vout)]
           fp == Fingerprint(approve.intent_hash \o b)
<1>2. pk \in Keys
  BY <1>1, LoadTyped, KeysAssumption DEF Scalars
<1>3. /\ intent' \in Intents
      /\ intent'.scalars = intent.scalars
      /\ approved' = intent'
  <2>1. intent' = [intent EXCEPT !.keys = KeysWith(b), !.depositor_pk = pk]
    BY DEF IntentApproved
  <2> QED
    BY <1>1, <1>2, <2>1, KeysAppended DEF IntentApproved, Intents
<1>4. hashlocks \in Seq({"hashlock"} \X Roots \X Vouts)
  <2>1. v \in Nat /\ v = Len(intent.groups)
    BY <1>1, LoadTyped, BoundsAssumption DEF KeysExpected, Scalars
  <2>2. \A g \in 1..v : intent.groups[g] \in GroupRecords
    BY <1>1, <2>1, LoadTyped, ElementOfSeq
  <2>3. \A g \in 1..v : intent.groups[g].htlc_vout \in Vouts
    BY <2>2 DEF GroupRecords
  <2>4. ctx.root \in Roots
    BY <1>1, LoadTyped
  <2>5. hashlocks \in [1..v -> {"hashlock"} \X Roots \X Vouts]
    BY <2>3, <2>4 DEF Hashlock
  <2> QED
    BY <2>1, <2>5, SeqDef
<1>5. AuthAnchor(ctx.root) \in {"auth-anchor"} \X Roots
  BY <1>1, LoadTyped DEF AuthAnchor
<1>6. fp \in IntentFingerprints
  BY <1>1, KeysAppended DEF Fingerprint, IntentFingerprints
<1>7. ctx' = [ctx EXCEPT !.state = "INTENT_LOADED",
                         !.root = Zero,
                         !.htlc_hashlock = hashlocks,
                         !.auth_anchor_hash = AuthAnchor(ctx.root),
                         !.intent_fp = fp]
  BY DEF IntentApproved
<1> HIDE DEF hashlocks, fp
<1>8. /\ ctx' \in Contexts
      /\ ctx'.state = "INTENT_LOADED"
      /\ ctx'.root = Zero
      /\ ctx'.context_fp = ctx.context_fp
      /\ ctx'.derivation_path = ctx.derivation_path
  BY <1>1, <1>4, <1>5, <1>6, <1>7 DEF Contexts
<1>9. TypeOK'
  BY <1>3, <1>8, ZeroTyped DEF IntentApproved, IInv, TypeOK
<1> QED
  BY <1>1, <1>3, <1>8, <1>9, LoadTyped
  DEF IntentApproved, IInv, RootConfinement, IdleIsClean, StreamIntact,
      DerivedFromWhatWasSent, SentRoot, LoadUnderWay, IntentPresent, HeaderParsed,
      ZeroApprove

(* Every APPROVE_VAULT_INTENT step preserves IInv.                         *)
LEMMA ApproveIInv == IInv /\ ApproveNext => IInv'
<1> SUFFICES ASSUME IInv, ApproveNext
             PROVE  IInv'
  OBVIOUS
<1>1. CASE ApproveWrongP1P2 \/ ScalarsRefused \/ NothingLoading
  BY <1>1, RefusalIsSound
  DEF ApproveWrongP1P2, ScalarsRefused, NothingLoading, Refuse
<1>2. CASE ScalarsMalformed
  BY <1>2, RejectLoadIsSound DEF ScalarsMalformed
<1>3. CASE GroupsRejected \/ KeysTooEarly \/ KeysRejected
  <2>1. ctx.state # "IDLE"
    BY <1>3, LoadTyped DEF GroupsRejected, KeysTooEarly, KeysRejected
  <2> QED
    BY <1>3, <2>1, RejectLoadIsSound DEF GroupsRejected, KeysTooEarly, KeysRejected
<1>4. ASSUME NEW b \in SeqOf(HostKeys, MaxBatch), IntentRejected(b)
      PROVE  IInv'
  <2>1. ctx.state # "IDLE"
    BY <1>4, LoadTyped DEF IntentRejected, KeysComplete
  <2> QED
    BY <1>4, <2>1, RejectLoadIsSound DEF IntentRejected
<1> QED
  BY <1>1, <1>2, <1>3, <1>4, ScalarsLoadedIInv, GroupsLoadedIInv, KeysLoadedIInv,
     IntentApprovedIInv
  DEF ApproveNext

-----------------------------------------------------------------------------
(* SIGN_PSBT *)

(* The rejections that wipe the session.                                   *)
LEMMA SigningWipes ==
  ASSUME IInv, ~stream.streaming_in_progress, NEW sw, EndSigning(sw), Invalidate,
         released' \in [SignatureSlots -> Nat]
  PROVE  IInv'
BY WipedIsSound, ZeroTyped DEF EndSigning, IInv, TypeOK

(* A step that keeps the session but for the group index and the signing   *)
(* bookkeeping, which change only under an approved intent, except that    *)
(* the payout flag may be cleared in any state.                            *)
LEMMA SessionKept ==
  ASSUME IInv, ~stream.streaming_in_progress,
         UNCHANGED <<intent, approve, stream, sent, approved>>,
         \/ ctx' = ctx
         \/ /\ ctx.state = "INTENT_LOADED"
            /\ \E g \in 0..MaxVaults : ctx' = [ctx EXCEPT !.vault_group_index = g],
         \/ sigs' = sigs
         \/ sigs' = [sigs EXCEPT !.is_payout_signing = FALSE]
         \/ ctx.state = "INTENT_LOADED",
         sigs' \in Bookkeeping,
         scratch' \in Buffers,
         psbt' \in Commands,
         released' \in [SignatureSlots -> Nat]
  PROVE  IInv'
<1>1. ctx \in Contexts
  BY DEF IInv, TypeOK
<1>2. /\ ctx' \in Contexts
      /\ ctx'.state = ctx.state
      /\ ctx'.root = ctx.root
      /\ ctx'.context_fp = ctx.context_fp
      /\ ctx'.derivation_path = ctx.derivation_path
      /\ ctx.state # "INTENT_LOADED" => ctx' = ctx
  BY <1>1 DEF Contexts
<1>3. TypeOK'
  BY <1>2 DEF IInv, TypeOK
<1>4. ctx.state = "IDLE" => sigs' = ZeroSigs
  BY DEF IInv, IdleIsClean, ZeroSigs
<1> QED
  BY <1>2, <1>3, <1>4
  DEF IInv, RootConfinement, IdleIsClean, StreamIntact, DerivedFromWhatWasSent,
      SentRoot, LoadUnderWay, IntentPresent, HeaderParsed

(* The counts of an approved intent.                                       *)
LEMMA CountsTyped ==
  ASSUME IInv, Loaded
  PROVE  V \in 1..MaxVaults /\ V \in Nat /\ N \in Nat /\ M \in Nat
BY BoundsAssumption DEF Loaded, IInv, IntentPresent, Scalars, V, N, M

(* The Payout validator is reached only with an intent loaded.             *)
LEMMA PayoutNeedsIntent ==
  ASSUME NEW tx, Route(tx) = "Payout"
  PROVE  Loaded
BY DEF Route, PolicyFreeRoute, LeafRoute

(* So are the branches of the signer that release intent-bound signatures. *)
LEMMA BranchNeedsIntent ==
  ASSUME NEW tx, SignerBranch(tx) \in {"PegIn", "Payout", "NoPayout"}
  PROVE  Loaded
BY DEF SignerBranch, PolicyFreeBranch

(* A released signature only changes a count.                              *)
LEMMA ReleasedTyped ==
  ASSUME IInv
  PROVE  /\ released \in [SignatureSlots -> Nat]
         /\ PrePegInReleased \in [SignatureSlots -> Nat]
         /\ PegInReleased \in [SignatureSlots -> Nat]
         /\ PayoutReleased \in [SignatureSlots -> Nat]
         /\ NoPayoutReleased \in [SignatureSlots -> Nat]
<1>1. released \in [SignatureSlots -> Nat]
  BY DEF IInv, TypeOK
<1>2. \A slot : [released EXCEPT ![slot] = @ + 1] \in [SignatureSlots -> Nat]
  <2>1. \A slot : slot \in SignatureSlots => released[slot] + 1 \in Nat
    BY <1>1
  <2> QED
    BY <1>1, <2>1
<1>3. PayoutReleased \in [SignatureSlots -> Nat]
  <2>1. \A slot \in SignatureSlots : released[slot] \in Nat /\ released[slot] + 1 \in Nat
    BY <1>1
  <2> QED
    BY <2>1 DEF PayoutReleased
<1> QED
  BY <1>1, <1>2, <1>3 DEF PrePegInReleased, PegInReleased, NoPayoutReleased

(* A PSBT rejected before anything was recorded leaves the session alone.  *)
LEMMA RejectPsbtIsSound ==
  ASSUME IInv, ~stream.streaming_in_progress, NEW sw, RejectPsbt(sw)
  PROVE  IInv'
BY SessionKept, ZeroTyped
DEF RejectPsbt, EndSigning, session, IInv, TypeOK

(* A PSBT is accepted, or rejected, with the group index and bookkeeping   *)
(* the validator computed.                                                 *)
LEMMA RecordedIsSound ==
  ASSUME IInv, ~stream.streaming_in_progress, NEW tx \in Psbts, NEW flow \in Flows,
         NEW c, NEW s \in Bookkeeping,
         \/ c = ctx
         \/ /\ ctx.state = "INTENT_LOADED"
            /\ \E g \in 0..MaxVaults : c = [ctx EXCEPT !.vault_group_index = g],
         \/ s = sigs
         \/ s = [sigs EXCEPT !.is_payout_signing = FALSE]
         \/ ctx.state = "INTENT_LOADED",
         NEW codes, RejectPsbtRecorded(codes, c, s) \/ Accept(tx, flow, c, s)
  PROVE  IInv'
<1>1. psbt' \in Commands
  BY ZeroTyped DEF RejectPsbtRecorded, Accept, EndSigning, Commands
<1>2. /\ ctx' = c /\ sigs' = s /\ scratch' = ZeroScratch
      /\ UNCHANGED <<intent, approve, stream, sent, approved, released>>
  BY DEF RejectPsbtRecorded, Accept, EndSigning, history
<1> QED
  BY <1>1, <1>2, SessionKept, ZeroTyped DEF IInv, TypeOK

(* The validators of the intent-bound flows preserve IInv.                 *)
LEMMA ValidateIntentBoundIInv ==
  ASSUME IInv, NEW tx \in Psbts,
         \/ NeedsIntent(tx)
         \/ ValidatePrePegIn(tx)
         \/ PegInUnmatched(tx)
         \/ ValidatePegIn(tx)
         \/ PayoutUnmatched(tx)
         \/ ValidatePayout(tx)
         \/ ValidateNoPayout(tx)
  PROVE  IInv'
<1> USE ZeroTyped DEF Validating, Flows
<1>1. sigs \in Bookkeeping /\ released \in [SignatureSlots -> Nat]
  BY DEF IInv, TypeOK
<1>2. CASE NeedsIntent(tx) \/ PegInUnmatched(tx) \/ PayoutUnmatched(tx)
  BY <1>2, RejectPsbtIsSound DEF NeedsIntent, PegInUnmatched, PayoutUnmatched
<1>3. ASSUME ~stream.streaming_in_progress, CapExceeded
      PROVE  IInv'
  BY <1>1, <1>3, SigningWipes DEF CapExceeded
<1>4. CASE ValidatePrePegIn(tx)
  <2>1. PrePegInReserved \in Bookkeeping
    BY <1>1 DEF PrePegInReserved, Bookkeeping
  <2> QED
    BY <1>3, <1>4, <2>1, RejectPsbtIsSound, RecordedIsSound
    DEF ValidatePrePegIn, Loaded
<1>5. CASE ValidatePegIn(tx)
  <2>1. PICK g \in PegInGroups(tx) :
          \/ RejectPsbtRecorded({"INCORRECT_DATA"}, [ctx EXCEPT !.vault_group_index = g], sigs)
          \/ CapExceeded
          \/ Accept(tx, "PegIn", [ctx EXCEPT !.vault_group_index = g], sigs)
    BY <1>5 DEF ValidatePegIn
  <2>2. g \in 0..MaxVaults
    BY <1>5, CountsTyped, BoundsAssumption DEF ValidatePegIn, PegInGroups
  <2> QED
    BY <1>1, <1>3, <1>5, <2>1, <2>2, RecordedIsSound DEF ValidatePegIn, Loaded
<1>6. CASE ValidatePayout(tx)
  <2>1. Loaded /\ ~stream.streaming_in_progress
    BY <1>6, PayoutNeedsIntent DEF ValidatePayout
  <2>2. PICK g \in PayoutGroups(tx) : \E c \in Claimers(tx, g) :
          \/ CapExceeded
          \/ RejectPsbtRecorded(PayoutRefusals(tx, c),
                                [ctx EXCEPT !.vault_group_index = g],
                                [sigs EXCEPT !.payout_index = c])
          \/ Accept(tx, "Payout", [ctx EXCEPT !.vault_group_index = g],
                    [[sigs EXCEPT !.payout_index = c]
                       EXCEPT !.is_payout_signing = TRUE])
    BY <1>6 DEF ValidatePayout
  <2>3. PICK c \in Claimers(tx, g) :
          \/ CapExceeded
          \/ RejectPsbtRecorded(PayoutRefusals(tx, c),
                                [ctx EXCEPT !.vault_group_index = g],
                                [sigs EXCEPT !.payout_index = c])
          \/ Accept(tx, "Payout", [ctx EXCEPT !.vault_group_index = g],
                    [[sigs EXCEPT !.payout_index = c]
                       EXCEPT !.is_payout_signing = TRUE])
    BY <2>2
  <2>4. g \in 0..MaxVaults /\ c \in Nat
    BY <2>1, CountsTyped, BoundsAssumption DEF PayoutGroups, Claimers
  <2>5. [sigs EXCEPT !.payout_index = c] \in Bookkeeping
    BY <1>1, <2>4 DEF Bookkeeping
  <2>6. [[sigs EXCEPT !.payout_index = c] EXCEPT !.is_payout_signing = TRUE]
          \in Bookkeeping
    BY <2>5 DEF Bookkeeping
  <2> QED
    BY <1>3, <2>1, <2>3, <2>4, <2>5, <2>6, RecordedIsSound DEF Loaded
<1>7. CASE ValidateNoPayout(tx)
  <2>1. \A i \in Challengers(tx) : ChallengerRecorded(i) \in Bookkeeping
    BY <1>1, <1>7, CountsTyped
    DEF ValidateNoPayout, Challengers, ChallengerRecorded, Bookkeeping
  <2> QED
    BY <1>3, <1>7, <2>1, RejectPsbtIsSound, RecordedIsSound
    DEF ValidateNoPayout, Loaded
<1> QED
  BY <1>2, <1>4, <1>5, <1>6, <1>7

(* Every way a PSBT is validated preserves IInv.                           *)
LEMMA ValidateIInv ==
  ASSUME IInv, NEW tx \in Psbts, ValidateNext(tx)
  PROVE  IInv'
<1>1. CASE MatchesNoFlow(tx)
  BY <1>1, RejectPsbtIsSound DEF MatchesNoFlow, Validating
<1>2. ASSUME NEW flow \in StandaloneFlows,
             ValidateStandalone(tx, flow) \/ DenyStandalone(tx, flow)
      PROVE  IInv'
  <2>1. ~stream.streaming_in_progress /\ flow \in Flows
    BY <1>2 DEF ValidateStandalone, DenyStandalone, Validating, StandaloneFlows, Flows
  <2>2. /\ StandaloneSigs(flow) \in Bookkeeping
        /\ \/ StandaloneSigs(flow) = sigs
           \/ StandaloneSigs(flow) = [sigs EXCEPT !.is_payout_signing = FALSE]
    BY DEF StandaloneSigs, IInv, TypeOK, Bookkeeping
  <2>3. CASE ValidateStandalone(tx, flow)
    BY <2>1, <2>2, <2>3, RecordedIsSound DEF ValidateStandalone
  <2>4. CASE DenyStandalone(tx, flow)
    BY <2>1, <2>2, <2>4, SessionKept, ZeroTyped
    DEF DenyStandalone, EndSigning, IInv, TypeOK
  <2> QED
    BY <1>2, <2>3, <2>4
<1> QED
  BY <1>1, <1>2, ValidateIntentBoundIInv DEF ValidateNext

(* Every SIGN_PSBT step preserves IInv.                                    *)
LEMMA SignIInv == IInv /\ SignNext => IInv'
<1> SUFFICES ASSUME IInv, SignNext
             PROVE  IInv'
  OBVIOUS
<1>1. /\ sigs \in Bookkeeping
      /\ scratch \in Buffers
      /\ psbt \in Commands
      /\ psbt.phase # "none" => ~stream.streaming_in_progress
      /\ ctx.vault_group_index \in Nat
  BY DEF IInv, TypeOK, HeaderParsed, Contexts
<1>2. CASE PsbtUnreadable
  BY <1>2, RefusalIsSound DEF PsbtUnreadable, Refuse
<1>3. CASE AbortStream
  <2>1. ctx.state = "IDLE" /\ stream' = ZeroStream
    BY <1>3 DEF AbortStream, IInv, StreamIntact
  <2> QED
    BY <1>3, <2>1, ZeroTyped
    DEF AbortStream, session, history, IInv, TypeOK, RootConfinement, IdleIsClean,
        StreamIntact, DerivedFromWhatWasSent, LoadUnderWay, IntentPresent,
        HeaderParsed, ZeroStream
<1>4. CASE BaseSigns
  <2>1. psbt' \in Commands
    BY <1>1, <1>4 DEF BaseSigns, Commands, NoPsbt
  <2> QED
    BY <1>1, <1>4, <2>1, SessionKept, ReleasedTyped DEF BaseSigns, session
<1>5. CASE BaseSigningFails
  BY <1>1, <1>5, SessionKept, ReleasedTyped, ZeroTyped
  DEF BaseSigningFails, EndSigning, session
<1>6. CASE SignNothing \/ SignStandalone \/ StandaloneSigningFails
  BY <1>1, <1>6, SessionKept, ReleasedTyped, ZeroTyped
  DEF SignNothing, SignStandalone, StandaloneSigningFails, SigningFails, Signing,
      EndSigning, session
<1>7. CASE \/ PegInSigningFails \/ PegInYieldFails
           \/ PayoutSigningFails \/ PayoutYieldFails
           \/ NoPayoutSigningFails \/ NoPayoutYieldFails
  BY <1>1, <1>7, SigningWipes, ReleasedTyped
  DEF PegInSigningFails, PegInYieldFails, PayoutSigningFails, PayoutYieldFails,
      NoPayoutSigningFails, NoPayoutYieldFails, InvalidateSigning, Signing
<1>8. ASSUME SignPegIn \/ SignPayout \/ SignNoPayout
      PROVE  Loaded /\ ~stream.streaming_in_progress
  BY <1>1, <1>8, BranchNeedsIntent DEF SignPegIn, SignPayout, SignNoPayout, Signing
<1>9. CASE SignPegIn
  <2>1. sigs' \in Bookkeeping
    <3>1. /\ sigs.pegin_group_mask \cup {ctx.vault_group_index} \in SUBSET Nat
          /\ sigs.pegin_signed + 1 \in Nat
      BY <1>1 DEF Bookkeeping
    <3> QED
      BY <1>1, <1>9, <3>1 DEF SignPegIn, MaskWith, Bookkeeping
  <2> QED
    BY <1>8, <1>9, <2>1, SessionKept, ReleasedTyped, ZeroTyped
    DEF SignPegIn, EndSigning, Loaded
<1>10. CASE SignPayout
  <2>1. PayoutSlot(ctx.vault_group_index, sigs.payout_index) \in Nat
    BY <1>1, <1>8, <1>10, CountsTyped DEF PayoutSlot, Bookkeeping
  <2>2. sigs' \in Bookkeeping
    <3> DEFINE slot == PayoutSlot(ctx.vault_group_index, sigs.payout_index)
    <3>1. /\ sigs.payout_claimer_mask \cup {slot} \in SUBSET Nat
          /\ sigs.payout_signed + 1 \in Nat
      BY <1>1, <2>1 DEF Bookkeeping
    <3>2. sigs' = [sigs EXCEPT !.payout_claimer_mask = @ \cup {slot},
                               !.payout_signed = @ + 1]
      BY <1>10 DEF SignPayout, MaskWith
    <3> HIDE DEF slot
    <3> QED
      BY <1>1, <3>1, <3>2 DEF Bookkeeping
  <2> QED
    BY <1>8, <1>10, <2>2, SessionKept, ReleasedTyped, ZeroTyped
    DEF SignPayout, EndSigning, Loaded
<1>11. CASE SignNoPayout
  <2>1. sigs' \in Bookkeeping
    BY <1>1, <1>11 DEF SignNoPayout, Bookkeeping
  <2> QED
    BY <1>8, <1>11, <2>1, SessionKept, ReleasedTyped, ZeroTyped
    DEF SignNoPayout, EndSigning, Loaded
<1> QED
  BY <1>2, <1>3, <1>4, <1>5, <1>6, <1>7, <1>9, <1>10, <1>11, ValidateIInv
  DEF SignNext

-----------------------------------------------------------------------------

(* IInv is inductive.                                                      *)
THEOREM Inductive == Spec => []IInv
<1>1. IInv /\ [Next]_vars => IInv'
  <2>1. IInv /\ UNCHANGED vars => IInv'
    BY RefusalIsSound DEF vars, session, history
  <2> QED
    BY <2>1, DeriveIInv, ApproveIInv, SignIInv, PowerCycleIInv DEF Next
<1> QED
  BY <1>1, InitIInv, PTL DEF Spec

(* Every global keeps its type.                                            *)
THEOREM TypeCorrect == Spec => []TypeOK
<1>1. IInv => TypeOK
  BY DEF IInv
<1> QED
  BY <1>1, Inductive, PTL

(* The secret root is in memory exactly while the session is HASH_DERIVED. *)
THEOREM RootConfined == Spec => []RootConfinement
<1>1. IInv => RootConfinement
  BY DEF IInv
<1> QED
  BY <1>1, Inductive, PTL

(* An IDLE session holds nothing of an earlier one.                        *)
THEOREM IdleClean == Spec => []IdleIsClean
<1>1. IInv => IdleIsClean
  BY DEF IInv
<1> QED
  BY <1>1, Inductive, PTL

(* A stream is alone with the scratch union.                               *)
THEOREM StreamSafe == Spec => []StreamIntact
<1>1. IInv => StreamIntact
  BY DEF IInv
<1> QED
  BY <1>1, Inductive, PTL

(* The root and the context fingerprint are those of one host stream.      *)
THEOREM RootFromStream == Spec => []DerivedFromWhatWasSent
<1>1. IInv => DerivedFromWhatWasSent
  BY DEF IInv
<1> QED
  BY <1>1, Inductive, PTL
=============================================================================
