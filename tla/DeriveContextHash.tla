------------------------- MODULE DeriveContextHash -------------------------
(***************************************************************************)
(* INS 0x81 DERIVE_CONTEXT_HASH                                            *)
(* (src/src/handler/derive_context_hash.c): the host opens a stream with   *)
(* P1=0x00 (header and first chunk), continues it with P1=0x01, and the    *)
(* chunk that completes the declared length derives the root.  P2 is 0x00  *)
(* (ask the user, return the root) or 0x01 (silent).                       *)
(***************************************************************************)
EXTENDS VaultContext, SequencesExt

Headers == [app_name: AppNames, path: Paths, total: 1..MaxContext]

(* The context bytes one APDU carries.  One byte more than the longest     *)
(* context is enough to overrun every declared length.                     *)
Chunks == SeqOf(ContextBytes, MaxContext + 1)

(* P1=0x00 wipes a live session; in IDLE only the streaming buffers and    *)
(* the approval state are cleared.                                         *)
Cancelled(live, zeroed) == IF ctx.state # "IDLE" THEN zeroed ELSE live

OpenedStream(silent, h, chunk) ==
  [streaming_in_progress |-> FALSE, silent |-> silent,
   context_total_len |-> h.total, context_received_len |-> Len(chunk)]

OpenedScratch(h, chunk) ==
  [app_name_buf |-> h.app_name, path |-> h.path, context_buf |-> chunk]

(* _finalize, from the memory c, s, i, a, st, sc the handler has built:    *)
(* the stream is over whatever happens; a BIP-32 failure or a refusal on   *)
(* Screen 1 leaves the session, a hash failure invalidates it.             *)
Finalize(c, s, i, a, st, sc) ==
  /\ stream' = [st EXCEPT !.streaming_in_progress = FALSE]
  /\ \/ /\ ctx' = c
        /\ sigs' = s
        /\ intent' = i
        /\ approve' = a
        /\ scratch' = [sc EXCEPT !.context_buf = <<>>]
        /\ \/ Respond("derive", "BIP32_FAIL")
           \/ ~st.silent /\ Respond("derive", "DENY")
     \/ /\ Invalidate
        /\ Respond("derive", "BAD_STATE")
     \/ /\ CanTransition(c.state, "IDLE", "HASH_DERIVED")
        /\ LET root == Hkdf(sc.app_name_buf, sc.path, sc.context_buf)
           IN  ctx' = [c EXCEPT !.state = "HASH_DERIVED",
                                !.root = root,
                                !.context_fp = Fingerprint(root),
                                !.derivation_path = sc.path,
                                !.app_name = sc.app_name_buf]
        /\ sigs' = s
        /\ intent' = i
        /\ approve' = a
        /\ scratch' = [sc EXCEPT !.context_buf = <<>>]
        /\ Respond("derive", "OK")

-----------------------------------------------------------------------------
(* P1=0x00 *)

(* A header that does not parse, or a first chunk longer than it declares: *)
(* the session and the stream are already gone when the error is found,    *)
(* and the path may have been stored.                                      *)
InitialChunkMalformed ==
  /\ Dispatching
  /\ ctx' = Cancelled(ctx, ZeroCtx)
  /\ sigs' = Cancelled(sigs, ZeroSigs)
  /\ intent' = Cancelled(intent, ZeroIntent)
  /\ approve' = ZeroApprove
  /\ stream' = ZeroStream
  /\ \E p \in Paths \cup {Zero} : scratch' = [ZeroScratch EXCEPT !.path = p]
  /\ sent' = ZeroScratch
  /\ \E sw \in {"INCORRECT_DATA", "WRONG_DATA_LENGTH"} : Respond("derive", sw)
  /\ UNCHANGED <<psbt, approved, released>>

InitialChunkPartial(silent, h, chunk) ==
  /\ Dispatching
  /\ Len(chunk) < h.total
  /\ ctx' = Cancelled(ctx, ZeroCtx)
  /\ sigs' = Cancelled(sigs, ZeroSigs)
  /\ intent' = Cancelled(intent, ZeroIntent)
  /\ approve' = ZeroApprove
  /\ stream' = [OpenedStream(silent, h, chunk)
                  EXCEPT !.streaming_in_progress = TRUE]
  /\ scratch' = OpenedScratch(h, chunk)
  /\ sent' = OpenedScratch(h, chunk)
  /\ Respond("derive", "OK")
  /\ UNCHANGED <<psbt, approved, released>>

InitialChunkComplete(silent, h, chunk) ==
  /\ Dispatching
  /\ Len(chunk) = h.total
  /\ Finalize(Cancelled(ctx, ZeroCtx), Cancelled(sigs, ZeroSigs),
              Cancelled(intent, ZeroIntent), ZeroApprove,
              OpenedStream(silent, h, chunk), OpenedScratch(h, chunk))
  /\ sent' = OpenedScratch(h, chunk)
  /\ UNCHANGED <<psbt, approved, released>>

-----------------------------------------------------------------------------
(* P1=0x01 *)

Remaining == stream.context_total_len - stream.context_received_len

(* No stream, another P2 than the stream's, an empty chunk. *)
ContinuationRefused ==
  /\ Dispatching
  /\ \/ ~stream.streaming_in_progress /\ Refuse("derive", "BAD_STATE")
     \/ stream.streaming_in_progress /\ Refuse("derive", "WRONG_P1P2")
     \/ stream.streaming_in_progress /\ Refuse("derive", "WRONG_DATA_LENGTH")

(* More bytes than declared: the session and the stream are dropped. *)
ContinuationOverrun(chunk) ==
  /\ Dispatching
  /\ stream.streaming_in_progress
  /\ Len(chunk) > Remaining
  /\ Invalidate
  /\ stream' = [stream EXCEPT !.streaming_in_progress = FALSE]
  /\ Respond("derive", "INCORRECT_DATA")
  /\ UNCHANGED <<psbt, history>>

Received(chunk) == [stream EXCEPT !.context_received_len = @ + Len(chunk)]

(* Faulty variant: a chunk is copied to the start of the buffer.           *)
WrittenAtStart(buffer, chunk) == [buffer EXCEPT !.context_buf = chunk]

Appended(buffer, chunk) == [buffer EXCEPT !.context_buf = @ \o chunk]

ContinuationPartial(chunk) ==
  /\ Dispatching
  /\ stream.streaming_in_progress
  /\ Len(chunk) > 0
  /\ Len(chunk) < Remaining
  /\ stream' = Received(chunk)
  /\ scratch' = Appended(scratch, chunk)
  /\ sent' = [sent EXCEPT !.context_buf = @ \o chunk]
  /\ Respond("derive", "OK")
  /\ UNCHANGED <<session, psbt, approved, released>>

ContinuationComplete(chunk) ==
  /\ Dispatching
  /\ stream.streaming_in_progress
  /\ Len(chunk) > 0
  /\ Len(chunk) = Remaining
  /\ Finalize(ctx, sigs, intent, approve, Received(chunk),
              Appended(scratch, chunk))
  /\ sent' = [sent EXCEPT !.context_buf = @ \o chunk]
  /\ UNCHANGED <<psbt, approved, released>>

-----------------------------------------------------------------------------
(* A P1 or P2 the command does not define, checked before anything else.   *)
DeriveWrongP1P2 == Dispatching /\ Refuse("derive", "WRONG_P1P2")

DeriveNext ==
  \/ DeriveWrongP1P2
  \/ InitialChunkMalformed
  \/ \E silent \in BOOLEAN, h \in Headers, chunk \in Chunks :
       \/ InitialChunkPartial(silent, h, chunk)
       \/ InitialChunkComplete(silent, h, chunk)
  \/ ContinuationRefused
  \/ \E chunk \in Chunks :
       \/ ContinuationOverrun(chunk)
       \/ ContinuationPartial(chunk)
       \/ ContinuationComplete(chunk)
=============================================================================
