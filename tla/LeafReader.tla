----------------------------- MODULE LeafReader -----------------------------
(***************************************************************************)
(* The streaming leaf reader (src/src/sign_psbt_validate.c): the callback  *)
(* over an input map's keys finds the TAP_LEAF_SCRIPT key, its value comes *)
(* in from the host in chunks, and the two stream callbacks fill           *)
(* G_scratch.tls and G_leaf_meta as the bytes go past.  Chunk boundaries   *)
(* are the host's.                                                         *)
(*                                                                         *)
(* The base app's call_stream_merkle_leaf_element is external: it announces*)
(* the length the host declares, hands over chunks that never exceed what  *)
(* is left, and at the end compares the bytes with the committed value.    *)
(* It may fail at any moment.                                              *)
(***************************************************************************)
EXTENDS Naturals, Sequences

CONSTANTS
  Byte,            \* the bytes a value is made of
  NoRead,          \* nothing is being read
  MaxScript,       \* VAULT_SCRIPT_MAX_LEN
  MaxValue,        \* VAULT_ASSERT_SCRIPT_MAX_LEN
  PrefixLen,       \* VAULT_LEAF_PREFIX_LEN
  MaxControlBlock, \* room in tls.control_block
  Tapscript,       \* TAPSCRIPT_LEAF_VERSION
  ChunkSizes,      \* how many bytes a chunk carries
  Maps,            \* input maps: their keys, in order
  Lies,            \* what a host may send for a value that is another
  Expected         \* Assert prefixes of intents; empty when none is loaded

ASSUME SizesAssumption ==
  /\ MaxScript \in Nat
  /\ MaxValue \in Nat \ {0}
  /\ PrefixLen \in Nat
  /\ MaxControlBlock \in Nat
  /\ ChunkSizes \subseteq Nat \ {0}

ASSUME BytesAssumption ==
  /\ 0 \in Byte /\ Byte \subseteq 0..255
  /\ Tapscript \in Byte

Keys == [leaf: BOOLEAN, control_block: Nat, value: Seq(Byte)]

ASSUME InputsAssumption ==
  /\ Maps \subseteq Seq(Keys)
  /\ Lies \subseteq Seq(Byte)
  /\ Expected \subseteq Seq(Byte)
  /\ NoRead \notin [keys: Maps, expected: Expected]

VARIABLES
  request,  \* the map being read, and the Assert prefix of the loaded intent
  cursor,   \* how many keys the base app has handed over
  phase,    \* what the reader is doing
  stream,   \* the value in flight: what the host sends, how much of it is in
  rd,       \* leaf_stream_ctx_t
  tls,      \* G_scratch.tls
  meta      \* G_leaf_meta

readerVars == <<request, cursor, phase, stream, rd, tls, meta>>

-----------------------------------------------------------------------------
(* Zeroed structs. *)

Zeros(n) == [i \in 1..n |-> 0]

NoHash == [len |-> 0, data |-> <<>>]

ZeroTls ==
  [found |-> FALSE, ambiguous |-> FALSE, leaf_script |-> Zeros(MaxScript),
   leaf_script_len |-> 0, leaf_version |-> 0, leaf_hash_ctx |-> NoHash]

ZeroMeta ==
  [buffered |-> FALSE, last_byte |-> 0, prefix |-> Zeros(PrefixLen),
   assert_prefix_ok |-> FALSE, hash |-> NoHash]

ZeroRd ==
  [value_len |-> 0, script_len |-> 0, seen |-> 0, len_known |-> FALSE,
   len_rejected |-> FALSE, overflow |-> FALSE, assert_prefix_mismatch |-> FALSE]

NoStream == [value |-> <<>>, in |-> 0]

ReaderInit ==
  /\ request = NoRead
  /\ cursor = 0
  /\ phase = "idle"
  /\ stream = NoStream
  /\ rd = ZeroRd
  /\ tls = ZeroTls
  /\ meta = ZeroMeta

-----------------------------------------------------------------------------
(* Walking the keys of the map. *)

(* vault_read_refund_leaf_script, vault_read_payout_leaf_script            *)
Begin(keys, expected) ==
  /\ phase = "idle"
  /\ request' = [keys |-> keys, expected |-> expected]
  /\ cursor' = 0
  /\ phase' = "walking"
  /\ tls' = ZeroTls
  /\ meta' = ZeroMeta
  /\ UNCHANGED <<stream, rd>>

AtKey ==
  /\ phase = "walking"
  /\ cursor < Len(request.keys)

Key == request.keys[cursor + 1]

(* A key of another type. *)
PassKey ==
  /\ AtKey
  /\ ~Key.leaf
  /\ cursor' = cursor + 1
  /\ UNCHANGED <<request, phase, stream, rd, tls, meta>>

(* A second leaf is not read at all. *)
SecondLeaf ==
  /\ AtKey
  /\ Key.leaf
  /\ tls.found
  /\ cursor' = cursor + 1
  /\ tls' = [tls EXCEPT !.ambiguous = TRUE]
  /\ UNCHANGED <<request, phase, stream, rd, meta>>

OversizedControlBlock ==
  /\ AtKey
  /\ Key.leaf
  /\ ~tls.found
  /\ Key.control_block > MaxControlBlock
  /\ cursor' = cursor + 1
  /\ tls' = [tls EXCEPT !.found = TRUE, !.ambiguous = TRUE]
  /\ UNCHANGED <<request, phase, stream, rd, meta>>

(* Faulty variant: the longest leaf does not fit.                          *)
LengthAcceptableBelow(n) == n \in 2..(MaxValue - 1)

(* Faulty variant: no leaf is too long.                                    *)
LengthAcceptableUnbounded(n) == n >= 2

LengthAcceptable(n) == n \in 2..MaxValue

(* _leaf_stream_len_cb: what the host declares settles what is kept.       *)
Announced(n) ==
  IF LengthAcceptable(n)
  THEN [ZeroRd EXCEPT !.value_len = n, !.script_len = n - 1,
                      !.len_known = TRUE]
  ELSE [ZeroRd EXCEPT !.len_rejected = TRUE]

(* _stream_tap_leaf_value, up to the first callback. *)
OpenStream(value) ==
  /\ AtKey
  /\ Key.leaf
  /\ ~tls.found
  /\ Key.control_block <= MaxControlBlock
  /\ phase' = "streaming"
  /\ stream' = [value |-> value, in |-> 0]
  /\ rd' = Announced(Len(value))
  /\ meta' = IF LengthAcceptable(Len(value))
             THEN [meta EXCEPT !.buffered = Len(value) - 1 <= MaxScript]
             ELSE meta
  /\ tls' = IF LengthAcceptable(Len(value))
            THEN [tls EXCEPT !.found = TRUE,
                             !.leaf_hash_ctx = [len  |-> Len(value) - 1,
                                                data |-> <<>>]]
            ELSE [tls EXCEPT !.found = TRUE]
  /\ UNCHANGED <<request, cursor>>

-----------------------------------------------------------------------------
(* _leaf_stream_data_cb, for a chunk p of at least one byte. *)

Smaller(m, n) == IF m < n THEN m ELSE n

(* memcpy(buffer + from, p, n) *)
CopiedInto(buffer, from, p, n) ==
  [i \in DOMAIN buffer |->
     IF i \in (from + 1)..(from + n) THEN p[i - from] ELSE buffer[i]]

(* The script bytes of p: all but the version byte. *)
ScriptBytes(p) == Smaller(rd.script_len - rd.seen, Len(p))

(* The bytes of p that lie in the prefix differ from it somewhere. *)
PrefixMismatch(p) ==
  \E i \in 1..ScriptBytes(p) :
    /\ rd.seen + i <= Len(request.expected)
    /\ request.expected[rd.seen + i] # p[i]

(* Faulty variant: a chunk shorter than the prefix is copied to its start. *)
MetaAfterUnaligned(p) ==
  [meta EXCEPT
     !.prefix = IF rd.seen < PrefixLen
                THEN CopiedInto(@, 0, p, Smaller(PrefixLen, ScriptBytes(p)))
                ELSE @,
     !.last_byte = IF rd.seen + ScriptBytes(p) = rd.script_len
                   THEN p[ScriptBytes(p)] ELSE @]

MetaAfter(p) ==
  [meta EXCEPT
     !.prefix = IF rd.seen < PrefixLen
                THEN CopiedInto(@, rd.seen, p,
                                Smaller(PrefixLen - rd.seen, ScriptBytes(p)))
                ELSE @,
     !.last_byte = IF rd.seen + ScriptBytes(p) = rd.script_len
                   THEN p[ScriptBytes(p)] ELSE @]

TlsAfter(p) ==
  [tls EXCEPT
     !.leaf_hash_ctx.data =
        IF rd.seen < rd.script_len THEN @ \o SubSeq(p, 1, ScriptBytes(p)) ELSE @,
     !.leaf_script = IF rd.seen < rd.script_len /\ meta.buffered
                     THEN CopiedInto(@, rd.seen, p, ScriptBytes(p)) ELSE @,
     !.leaf_version = IF rd.seen + Len(p) = rd.value_len THEN p[Len(p)] ELSE @]

(* Faulty variant: a later chunk that agrees clears the mismatch.          *)
RdAfterForgiving(p) ==
  [rd EXCEPT !.seen = @ + Len(p),
             !.assert_prefix_mismatch = PrefixMismatch(p)]

RdAfter(p) ==
  [rd EXCEPT !.seen = @ + Len(p),
             !.assert_prefix_mismatch = @ \/ PrefixMismatch(p)]

(* The next k bytes of the value arrive. *)
Deliver(k) ==
  LET p == SubSeq(stream.value, stream.in + 1, stream.in + k)
  IN  /\ phase = "streaming"
      /\ stream.in + k <= Len(stream.value)
      /\ stream' = [stream EXCEPT !.in = @ + k]
      /\ IF rd.len_rejected \/ ~rd.len_known
         THEN UNCHANGED <<rd, tls, meta>>
         ELSE IF k > rd.value_len - rd.seen
         THEN rd' = [rd EXCEPT !.overflow = TRUE] /\ UNCHANGED <<tls, meta>>
         ELSE /\ rd' = RdAfter(p)
              /\ tls' = TlsAfter(p)
              /\ meta' = IF rd.seen < rd.script_len THEN MetaAfter(p) ELSE meta
      /\ UNCHANGED <<request, cursor, phase>>

(* A chunk that carries nothing changes nothing. *)
DeliverNothing == phase = "streaming" /\ UNCHANGED readerVars

-----------------------------------------------------------------------------
(* _stream_tap_leaf_value, after the last chunk. *)

Received == stream.in = Len(stream.value)

ValueAccepted ==
  /\ ~rd.len_rejected /\ rd.len_known /\ ~rd.overflow
  /\ Len(stream.value) = rd.value_len /\ rd.seen = rd.value_len
  /\ tls.leaf_version = Tapscript

PrefixOk ==
  /\ request.expected # <<>>
  /\ ~rd.assert_prefix_mismatch
  /\ rd.script_len > Len(request.expected)

(* Back to the keys; the stream's context was a local variable. *)
StreamOver ==
  /\ phase' = "walking"
  /\ cursor' = cursor + 1
  /\ stream' = NoStream
  /\ rd' = ZeroRd
  /\ UNCHANGED request

(* The bytes are the committed value's, and they are a leaf. *)
StreamEnds ==
  /\ phase = "streaming"
  /\ Received
  /\ stream.value = Key.value
  /\ ValueAccepted
  /\ tls' = [tls EXCEPT !.leaf_script_len = rd.script_len]
  /\ meta' = [meta EXCEPT !.hash = tls.leaf_hash_ctx,
                          !.assert_prefix_ok = PrefixOk]
  /\ StreamOver

(* Faulty variant: a value that was never looked at is never refused.      *)
StreamRefusedOnceKnown ==
  /\ phase = "streaming"
  /\ Received
  /\ rd.len_known
  /\ stream.value # Key.value \/ ~ValueAccepted
  /\ tls' = [tls EXCEPT !.ambiguous = TRUE]
  /\ StreamOver
  /\ UNCHANGED meta

(* The bytes are another value's, or no leaf. *)
StreamRefused ==
  /\ phase = "streaming"
  /\ Received
  /\ stream.value # Key.value \/ ~ValueAccepted
  /\ tls' = [tls EXCEPT !.ambiguous = TRUE]
  /\ StreamOver
  /\ UNCHANGED meta

(* The base app gives up: the exchange failed. *)
StreamFails ==
  /\ phase = "streaming"
  /\ tls' = [tls EXCEPT !.ambiguous = TRUE]
  /\ StreamOver
  /\ UNCHANGED meta

Accepted ==
  /\ tls.found
  /\ ~tls.ambiguous
  /\ tls.leaf_version = Tapscript

WalkEnds ==
  /\ phase = "walking"
  /\ cursor = Len(request.keys)
  /\ phase' = "done"
  /\ UNCHANGED <<request, cursor, stream, rd, tls, meta>>

(* The map itself cannot be read: the caller is refused like any other. *)
WalkFails ==
  /\ phase = "walking"
  /\ phase' = "done"
  /\ tls' = [tls EXCEPT !.ambiguous = TRUE]
  /\ UNCHANGED <<request, cursor, stream, rd, meta>>

(* The caller is through with what was read, and may overwrite tls. *)
Done ==
  /\ phase = "done"
  /\ phase' = "idle"
  /\ UNCHANGED <<request, cursor, stream, rd>>

ReadNext ==
  \/ PassKey
  \/ SecondLeaf
  \/ OversizedControlBlock
  \/ AtKey /\ \E value \in {Key.value} \cup Lies : OpenStream(value)
  \/ \E k \in ChunkSizes : Deliver(k)
  \/ DeliverNothing
  \/ StreamEnds
  \/ StreamRefused
  \/ StreamFails
  \/ WalkEnds
  \/ WalkFails

ReaderNext ==
  \/ \E keys \in Maps, expected \in Expected : Begin(keys, expected)
  \/ ReadNext
  \/ Done /\ UNCHANGED <<tls, meta>>

ReaderSpec == ReaderInit /\ [][ReaderNext]_readerVars

-----------------------------------------------------------------------------
(* What a caller finds in tls and G_leaf_meta after a read. *)

FactsRead ==
  [script_len       |-> tls.leaf_script_len,
   buffered         |-> meta.buffered,
   leaf_script      |-> IF meta.buffered
                        THEN SubSeq(tls.leaf_script, 1, tls.leaf_script_len)
                        ELSE <<>>,
   last_byte        |-> meta.last_byte,
   prefix           |-> meta.prefix,
   hash             |-> meta.hash,
   assert_prefix_ok |-> meta.assert_prefix_ok]

Outcome ==
  CASE phase # "done" -> [status |-> "none"]
    [] phase = "done" /\ ~Accepted -> [status |-> "failed"]
    [] phase = "done" /\ Accepted -> [status |-> "read", facts |-> FactsRead]

OneLeaf == INSTANCE LeafRead WITH
  request <- IF phase = "idle" THEN NoRead ELSE request,
  outcome <- Outcome

(* The reader is a one-shot read: whatever the chunk boundaries, whatever  *)
(* the host sends and wherever the exchange breaks, a read either fails or *)
(* leaves in tls and G_leaf_meta exactly the facts of the one leaf of this *)
(* map, and nothing of an earlier read (_stream_tap_leaf_value and the two *)
(* stream callbacks).                                                      *)
ReaderImplementsRead == OneLeaf!Spec
=============================================================================
