-------------------------- MODULE LeafReaderProofs --------------------------
(***************************************************************************)
(* The streaming leaf reader implements the one-shot read of LeafRead, for *)
(* every map, every leaf, every lie a host may tell and every way to cut a *)
(* value into chunks.  The invariant says that what has been captured is a *)
(* function of how many bytes are in; where they were cut plays no part.   *)
(***************************************************************************)
EXTENDS LeafReader, SequenceTheorems, TLAPS

(* The bytes of the script, the version aside, that are in so far.         *)
Taken == Smaller(stream.in, Len(stream.value) - 1)

(* A zeroed buffer of m cells that the first t bytes of v were written to. *)
Captured(m, v, t) == [i \in 1..m |-> IF i <= t THEN v[i] ELSE 0]

(* One of the first t bytes of v is not the one expected.                  *)
Differs(v, expected, t) == \E i \in 1..t : i <= Len(expected) /\ expected[i] # v[i]

TlsTypes ==
  [found: BOOLEAN, ambiguous: BOOLEAN, leaf_script: [1..MaxScript -> Byte],
   leaf_script_len: Nat, leaf_version: Byte,
   leaf_hash_ctx: [len: Nat, data: Seq(Byte)]]

MetaTypes ==
  [buffered: BOOLEAN, last_byte: Byte, prefix: [1..PrefixLen -> Byte],
   assert_prefix_ok: BOOLEAN, hash: [len: Nat, data: Seq(Byte)]]

ReaderTypeOK ==
  /\ phase \in {"idle", "walking", "streaming", "done"}
  /\ phase # "idle" =>
       /\ request \in [keys: Maps, expected: Expected]
       /\ cursor \in 0..Len(request.keys)
       /\ tls \in TlsTypes
       /\ meta \in MetaTypes

SeenLeaves == {i \in 1..cursor : request.keys[i].leaf}

(* Between two keys: nothing is captured before the first leaf, and a leaf *)
(* that was accepted is the only one and is described exactly.             *)
Walked ==
  phase \in {"walking", "done"} =>
    /\ ~tls.found =>
         /\ SeenLeaves = {}
         /\ phase = "walking" => tls = ZeroTls /\ meta = ZeroMeta
    /\ tls.found /\ ~tls.ambiguous =>
         \E i \in DOMAIN request.keys :
           /\ SeenLeaves = {i}
           /\ OneLeaf!Readable(request.keys[i])
           /\ FactsRead = OneLeaf!Facts(request.keys[i].value, request.expected)

(* What a stream has left in the three structs when so much of it is in.   *)
RdSoFar ==
  [value_len |-> Len(stream.value), script_len |-> Len(stream.value) - 1,
   seen |-> stream.in, len_known |-> TRUE, len_rejected |-> FALSE,
   overflow |-> FALSE,
   assert_prefix_mismatch |-> Differs(stream.value, request.expected, Taken)]

Buffered == Len(stream.value) - 1 <= MaxScript

TlsSoFar ==
  [found |-> TRUE, ambiguous |-> FALSE,
   leaf_script |-> Captured(MaxScript, stream.value, IF Buffered THEN Taken ELSE 0),
   leaf_script_len |-> 0,
   leaf_version |-> IF stream.in = Len(stream.value)
                    THEN stream.value[Len(stream.value)] ELSE 0,
   leaf_hash_ctx |-> [len  |-> Len(stream.value) - 1,
                      data |-> SubSeq(stream.value, 1, Taken)]]

MetaSoFar ==
  [buffered |-> Buffered,
   last_byte |-> IF stream.in >= Len(stream.value) - 1
                 THEN stream.value[Len(stream.value) - 1] ELSE 0,
   prefix |-> Captured(PrefixLen, stream.value, Taken),
   assert_prefix_ok |-> FALSE, hash |-> NoHash]

Streamed ==
  phase = "streaming" =>
    /\ cursor < Len(request.keys)
    /\ Key.leaf
    /\ Key.control_block <= MaxControlBlock
    /\ SeenLeaves = {}
    /\ tls.found
    /\ ~tls.ambiguous
    /\ stream \in [value: Seq(Byte), in: Nat]
    /\ stream.in <= Len(stream.value)
    /\ ~LengthAcceptable(Len(stream.value)) => rd.len_rejected
    /\ LengthAcceptable(Len(stream.value)) =>
         rd = RdSoFar /\ tls = TlsSoFar /\ meta = MetaSoFar

ReaderInv == ReaderTypeOK /\ Walked /\ Streamed

-----------------------------------------------------------------------------
(* Chunks. *)

(* The bytes of a chunk are those of the value it was cut from.            *)
LEMMA ChunkBytes ==
  ASSUME NEW v \in Seq(Byte), NEW s \in Nat, NEW k \in Nat, s + k <= Len(v)
  PROVE  LET p == SubSeq(v, s + 1, s + k)
         IN  /\ p \in Seq(Byte)
             /\ Len(p) = k
             /\ \A i \in 1..k : p[i] = v[s + i]
<1>1. \A i \in (s + 1)..(s + k) : v[i] \in Byte
  BY ElementOfSeq, LenProperties
<1>2. s + 1 \in Int /\ s + k \in Int
  OBVIOUS
<1>3. /\ SubSeq(v, s + 1, s + k) \in Seq(Byte)
      /\ Len(SubSeq(v, s + 1, s + k)) = IF s + 1 <= s + k THEN (s + k) - (s + 1) + 1 ELSE 0
      /\ \A i \in 1..((s + k) - (s + 1) + 1) : SubSeq(v, s + 1, s + k)[i] = v[(s + 1) + i - 1]
  BY <1>1, <1>2, SubSeqProperties
<1> QED
  BY <1>3

(* A head of a value.                                                      *)
LEMMA HeadBytes ==
  ASSUME NEW v \in Seq(Byte), NEW t \in Nat, t <= Len(v)
  PROVE  /\ SubSeq(v, 1, t) \in Seq(Byte)
         /\ Len(SubSeq(v, 1, t)) = t
         /\ \A i \in 1..t : SubSeq(v, 1, t)[i] = v[i]
BY ChunkBytes, 0 + t = t, 0 + 1 = 1, \A i \in 1..t : 0 + i = i

(* Hashing in pieces: two heads joined are the longer head.                *)
LEMMA HeadGrows ==
  ASSUME NEW v \in Seq(Byte), NEW s \in Nat, NEW k \in Nat, s + k <= Len(v),
         NEW c \in 0..k
  PROVE  SubSeq(v, 1, s) \o SubSeq(SubSeq(v, s + 1, s + k), 1, c) = SubSeq(v, 1, s + c)
<1> DEFINE p == SubSeq(v, s + 1, s + k)
           a == SubSeq(v, 1, s)
           b == SubSeq(p, 1, c)
           h == SubSeq(v, 1, s + c)
<1>1. p \in Seq(Byte) /\ Len(p) = k /\ \A i \in 1..k : p[i] = v[s + i]
  BY ChunkBytes
<1>2. a \in Seq(Byte) /\ Len(a) = s /\ \A i \in 1..s : a[i] = v[i]
  BY HeadBytes
<1>3. b \in Seq(Byte) /\ Len(b) = c /\ \A i \in 1..c : b[i] = p[i]
  BY <1>1, HeadBytes
<1>4. h \in Seq(Byte) /\ Len(h) = s + c /\ \A i \in 1..(s + c) : h[i] = v[i]
  BY HeadBytes
<1> HIDE DEF p, a, b, h
<1>5. /\ a \o b \in Seq(Byte)
      /\ Len(a \o b) = s + c
      /\ \A i \in 1..(s + c) : (a \o b)[i] = IF i <= s THEN a[i] ELSE b[i - s]
  BY <1>2, <1>3, ConcatProperties
<1>6. \A i \in 1..(s + c) : (a \o b)[i] = h[i]
  <2> SUFFICES ASSUME NEW i \in 1..(s + c) PROVE (a \o b)[i] = h[i]
    OBVIOUS
  <2>1. CASE i <= s
    <3>1. i \in 1..s
      BY <2>1
    <3>2. (a \o b)[i] = a[i]
      BY <2>1, <1>5
    <3> QED
      BY <3>1, <3>2, <1>2, <1>4
  <2>2. CASE ~(i <= s)
    <3>1. i \in Nat /\ i > s
      BY <2>2
    <3>2. i - s \in 1..c /\ s + (i - s) = i
      BY <3>1
    <3>3. (a \o b)[i] = b[i - s]
      BY <2>2, <1>5
    <3>4. b[i - s] = p[i - s] /\ p[i - s] = v[s + (i - s)]
      BY <3>2, <1>1, <1>3
    <3> QED
      BY <3>2, <3>3, <3>4, <1>4
  <2> QED
    BY <2>1, <2>2, Zenon
<1>7. a \o b = h
  BY <1>4, <1>5, <1>6, SeqEqual
<1> QED
  BY <1>7 DEF a, b, h, p

-----------------------------------------------------------------------------
(* Walking. *)

(* The structs are zeroed within their types.                              *)
LEMMA ZeroTyped ==
  /\ ZeroTls \in TlsTypes
  /\ ZeroMeta \in MetaTypes
  /\ NoHash \in [len: Nat, data: Seq(Byte)]
<1>1. Zeros(MaxScript) \in [1..MaxScript -> Byte] /\ Zeros(PrefixLen) \in [1..PrefixLen -> Byte]
  BY BytesAssumption DEF Zeros
<1>2. NoHash \in [len: Nat, data: Seq(Byte)]
  BY EmptySeq DEF NoHash
<1> QED
  BY <1>1, <1>2, BytesAssumption DEF ZeroTls, ZeroMeta, TlsTypes, MetaTypes

(* The keys of a map being read, and the prefix it is read for.            *)
LEMMA RequestTyped ==
  ASSUME ReaderTypeOK, phase # "idle"
  PROVE  /\ request.keys \in Seq(Keys)
         /\ Len(request.keys) \in Nat
         /\ DOMAIN request.keys = 1..Len(request.keys)
         /\ \A i \in 1..Len(request.keys) : request.keys[i] \in Keys
         /\ request.expected \in Seq(Byte)
<1>1. request.keys \in Seq(Keys) /\ request.expected \in Seq(Byte)
  BY InputsAssumption DEF ReaderTypeOK
<1> QED
  BY <1>1, LenProperties, ElementOfSeq

(* Handing over one more key adds it to the leaves seen if it is one.      *)
LEMMA OneMoreKey ==
  ASSUME ReaderTypeOK, phase # "idle", cursor < Len(request.keys),
         cursor' = cursor + 1, request' = request
  PROVE  /\ SeenLeaves' = SeenLeaves \cup {i \in {cursor + 1} : Key.leaf}
         /\ cursor' \in 0..Len(request'.keys)
         /\ cursor + 1 \in DOMAIN request.keys
BY RequestTyped DEF ReaderTypeOK, SeenLeaves, Key

LEMMA InitInv == ReaderInit => ReaderInv
BY DEF ReaderInit, ReaderInv, ReaderTypeOK, Walked, Streamed

(* Everything is zeroed before the first key.                              *)
LEMMA BeginInv ==
  ASSUME NEW keys \in Maps, NEW expected \in Expected, Begin(keys, expected)
  PROVE  ReaderInv'
<1>1. keys \in Seq(Keys) /\ Len(keys) \in Nat
  BY InputsAssumption, LenProperties
<1>2. ReaderTypeOK'
  BY <1>1, ZeroTyped DEF Begin, ReaderTypeOK
<1>3. Walked' /\ Streamed'
  BY DEF Begin, Walked, Streamed, SeenLeaves, ZeroTls
<1> QED
  BY <1>2, <1>3 DEF ReaderInv

(* A key of another type is passed over.                                   *)
LEMMA PassKeyInv ==
  ASSUME ReaderInv, PassKey
  PROVE  ReaderInv'
<1>1. SeenLeaves' = SeenLeaves /\ cursor' \in 0..Len(request'.keys)
  BY OneMoreKey DEF ReaderInv, PassKey, AtKey
<1>2. ReaderTypeOK'
  BY <1>1 DEF ReaderInv, ReaderTypeOK, PassKey
<1>3. FactsRead' = FactsRead
  BY DEF PassKey, FactsRead
<1>4. Walked' /\ Streamed'
  BY <1>1, <1>3 DEF ReaderInv, Walked, Streamed, PassKey, AtKey
<1> QED
  BY <1>2, <1>4 DEF ReaderInv

(* An ambiguous read claims nothing any more.                              *)
LEMMA AmbiguousInv ==
  ASSUME ReaderTypeOK, phase # "idle",
         phase' \in {"walking", "done"},
         request' = request, cursor' \in 0..Len(request.keys),
         tls' \in TlsTypes, meta' \in MetaTypes, tls'.ambiguous, tls'.found
  PROVE  ReaderInv'
BY DEF ReaderInv, ReaderTypeOK, Walked, Streamed

LEMMA SecondLeafInv ==
  ASSUME ReaderInv, SecondLeaf
  PROVE  ReaderInv'
<1>1. tls' \in TlsTypes /\ tls'.ambiguous /\ tls'.found
  BY DEF ReaderInv, ReaderTypeOK, SecondLeaf, AtKey, TlsTypes
<1>2. cursor' \in 0..Len(request.keys)
  BY OneMoreKey DEF ReaderInv, SecondLeaf, AtKey
<1> QED
  BY <1>1, <1>2, AmbiguousInv DEF ReaderInv, ReaderTypeOK, SecondLeaf, AtKey

LEMMA OversizedInv ==
  ASSUME ReaderInv, OversizedControlBlock
  PROVE  ReaderInv'
<1>1. tls' \in TlsTypes /\ tls'.ambiguous /\ tls'.found
  BY DEF ReaderInv, ReaderTypeOK, OversizedControlBlock, AtKey, TlsTypes
<1>2. cursor' \in 0..Len(request.keys)
  BY OneMoreKey DEF ReaderInv, OversizedControlBlock, AtKey
<1> QED
  BY <1>1, <1>2, AmbiguousInv DEF ReaderInv, ReaderTypeOK, OversizedControlBlock, AtKey

LEMMA WalkEndsInv ==
  ASSUME ReaderInv, WalkEnds
  PROVE  ReaderInv'
<1>1. FactsRead' = FactsRead /\ SeenLeaves' = SeenLeaves
  BY DEF WalkEnds, FactsRead, SeenLeaves
<1> QED
  BY <1>1 DEF ReaderInv, ReaderTypeOK, Walked, Streamed, WalkEnds

LEMMA WalkFailsInv ==
  ASSUME ReaderInv, WalkFails
  PROVE  ReaderInv'
<1>1. tls' \in TlsTypes /\ tls'.ambiguous /\ tls'.found = tls.found
  BY DEF ReaderInv, ReaderTypeOK, WalkFails, TlsTypes
<1>2. SeenLeaves' = SeenLeaves
  BY DEF WalkFails, SeenLeaves
<1> QED
  BY <1>1, <1>2 DEF ReaderInv, ReaderTypeOK, Walked, Streamed, WalkFails

LEMMA DoneInv ==
  ASSUME Done
  PROVE  ReaderInv'
BY DEF ReaderInv, ReaderTypeOK, Walked, Streamed, Done

-----------------------------------------------------------------------------
(* Streaming. *)

(* The value of a key, or a lie, is a sequence of bytes.                   *)
LEMMA ValueTyped ==
  ASSUME ReaderTypeOK, phase # "idle", cursor < Len(request.keys),
         NEW value \in {Key.value} \cup Lies
  PROVE  value \in Seq(Byte) /\ Len(value) \in Nat
<1>1. Key \in Keys
  BY RequestTyped DEF ReaderTypeOK, Key
<1>2. value \in Seq(Byte)
  BY <1>1, InputsAssumption DEF Keys
<1> QED
  BY <1>2, LenProperties

(* Nothing is in when a stream opens, and that is what is captured.        *)
LEMMA OpenStreamInv ==
  ASSUME ReaderInv, AtKey, NEW value \in {Key.value} \cup Lies, OpenStream(value)
  PROVE  ReaderInv'
<1>1. value \in Seq(Byte) /\ Len(value) \in Nat
  BY ValueTyped DEF ReaderInv, AtKey
<1>2. tls = ZeroTls /\ meta = ZeroMeta /\ SeenLeaves = {}
  BY DEF ReaderInv, Walked, OpenStream, AtKey
<1>3. ReaderTypeOK'
  <2>1. tls \in TlsTypes /\ meta \in MetaTypes
    BY <1>2, ZeroTyped
  <2>2. CASE LengthAcceptable(Len(value))
    <3>1. [len |-> Len(value) - 1, data |-> <<>>] \in [len: Nat, data: Seq(Byte)]
      BY <1>1, <2>2, EmptySeq DEF LengthAcceptable
    <3>2. tls' \in TlsTypes
      BY <2>1, <2>2, <3>1 DEF OpenStream, TlsTypes
    <3>3. meta' \in MetaTypes
      <4>1. meta' = [meta EXCEPT !.buffered = Len(value) - 1 <= MaxScript]
        BY <2>2 DEF OpenStream
      <4>2. (Len(value) - 1 <= MaxScript) \in BOOLEAN
        OBVIOUS
      <4> QED
        BY <2>1, <4>1, <4>2 DEF MetaTypes
    <3> QED
      BY <3>2, <3>3 DEF ReaderInv, ReaderTypeOK, OpenStream, AtKey
  <2>3. CASE ~LengthAcceptable(Len(value))
    <3>1. tls' \in TlsTypes /\ meta' \in MetaTypes
      BY <2>1, <2>3 DEF OpenStream, TlsTypes
    <3> QED
      BY <3>1 DEF ReaderInv, ReaderTypeOK, OpenStream, AtKey
  <2> QED
    BY <2>2, <2>3
<1>4. Walked'
  BY DEF Walked, OpenStream
<1>5. stream' = [value |-> value, in |-> 0] /\ request' = request /\ cursor' = cursor
  BY DEF OpenStream
<1>6. ASSUME LengthAcceptable(Len(value))
      PROVE  rd' = RdSoFar' /\ tls' = TlsSoFar' /\ meta' = MetaSoFar'
  <2>1. Taken' = 0 /\ Buffered' = (Len(value) - 1 <= MaxScript)
    BY <1>1, <1>5, <1>6 DEF Taken, Buffered, Smaller, LengthAcceptable
  <2>2. rd' = RdSoFar'
    <3>1. rd' = [value_len |-> Len(value), script_len |-> Len(value) - 1, seen |-> 0,
                 len_known |-> TRUE, len_rejected |-> FALSE, overflow |-> FALSE,
                 assert_prefix_mismatch |-> FALSE]
      BY <1>6 DEF OpenStream, Announced, ZeroRd
    <3>2. Differs(value, request'.expected, 0) = FALSE
      BY DEF Differs
    <3>3. Differs(stream'.value, request'.expected, Taken') = FALSE
      BY <1>5, <2>1, <3>2
    <3> QED
      BY <1>5, <3>1, <3>3, Zenon DEF RdSoFar
  <2>3. \A m : Captured(m, value, 0) = Zeros(m)
    BY DEF Captured, Zeros
  <2>4. SubSeq(value, 1, 0) = <<>>
    BY SubSeqEmpty
  <2>5. stream'.in # Len(value) /\ ~(stream'.in >= Len(value) - 1)
    BY <1>1, <1>5, <1>6 DEF LengthAcceptable
  <2>6. tls' = TlsSoFar'
    <3>1. tls' = [found |-> TRUE, ambiguous |-> FALSE, leaf_script |-> Zeros(MaxScript),
                  leaf_script_len |-> 0, leaf_version |-> 0,
                  leaf_hash_ctx |-> [len |-> Len(value) - 1, data |-> <<>>]]
      BY <1>2, <1>6 DEF OpenStream, ZeroTls
    <3> QED
      BY <1>5, <2>1, <2>3, <2>4, <2>5, <3>1 DEF TlsSoFar
  <2>7. meta' = MetaSoFar'
    <3>1. meta' = [buffered |-> Len(value) - 1 <= MaxScript, last_byte |-> 0,
                   prefix |-> Zeros(PrefixLen), assert_prefix_ok |-> FALSE,
                   hash |-> NoHash]
      BY <1>2, <1>6 DEF OpenStream, ZeroMeta
    <3> QED
      BY <1>5, <2>1, <2>3, <2>5, <3>1 DEF MetaSoFar
  <2> QED
    BY <2>2, <2>6, <2>7
<1>7. ~LengthAcceptable(Len(value)) => rd'.len_rejected
  BY DEF OpenStream, Announced, ZeroRd
<1>8. SeenLeaves' = {} /\ Key' = Key
  BY <1>2, <1>5 DEF SeenLeaves, Key
<1>9. tls'.found /\ ~tls'.ambiguous
  BY <1>2 DEF OpenStream, ZeroTls
<1>10. Streamed'
  BY <1>1, <1>5, <1>6, <1>7, <1>8, <1>9 DEF Streamed, OpenStream, AtKey
<1> QED
  BY <1>3, <1>4, <1>10 DEF ReaderInv

(* What is captured stays a function of how much is in.                    *)
LEMMA DeliverInv ==
  ASSUME ReaderInv, NEW k \in ChunkSizes, Deliver(k)
  PROVE  ReaderInv'
<1> DEFINE v == stream.value
           s == stream.in
           n == Len(v)
           p == SubSeq(v, s + 1, s + k)
           c == Smaller(n - 1 - s, k)
           e == request.expected
<1>1. /\ phase = "streaming"
      /\ s + k <= n
      /\ stream' = [stream EXCEPT !.in = s + k]
      /\ UNCHANGED <<request, cursor, phase>>
  BY DEF Deliver
<1>2. /\ stream \in [value: Seq(Byte), in: Nat]
      /\ v \in Seq(Byte) /\ s \in Nat /\ n \in Nat /\ k \in Nat /\ k >= 1
  BY <1>1, SizesAssumption, LenProperties DEF ReaderInv, Streamed
<1>3. stream' \in [value: Seq(Byte), in: Nat] /\ stream'.value = v /\ stream'.in = s + k
  BY <1>1, <1>2
<1>4. SeenLeaves' = {} /\ Key' = Key
  BY <1>1 DEF ReaderInv, Streamed, SeenLeaves, Key
<1>5. CASE ~LengthAcceptable(n)
  <2>1. UNCHANGED <<rd, tls, meta>>
    BY <1>1, <1>5 DEF Deliver, ReaderInv, Streamed
  <2> QED
    BY <1>1, <1>2, <1>3, <1>4, <1>5, <2>1
    DEF ReaderInv, ReaderTypeOK, Walked, Streamed
<1>6. CASE LengthAcceptable(n)
  <2>1. rd = RdSoFar /\ tls = TlsSoFar /\ meta = MetaSoFar
    BY <1>1, <1>6 DEF ReaderInv, Streamed
  <2>2. /\ rd.value_len = n /\ rd.script_len = n - 1 /\ rd.seen = s
        /\ rd.len_known /\ ~rd.len_rejected
    BY <2>1 DEF RdSoFar
  <2>3. /\ rd' = RdAfter(p)
        /\ tls' = TlsAfter(p)
        /\ meta' = IF s < n - 1 THEN MetaAfter(p) ELSE meta
    <3>1. ~(k > rd.value_len - rd.seen)
      BY <1>1, <1>2, <2>2
    <3> QED
      BY <2>2, <3>1 DEF Deliver
  <2>4. p \in Seq(Byte) /\ Len(p) = k /\ \A i \in 1..k : p[i] = v[s + i]
    BY <1>1, <1>2, ChunkBytes
  <2>5. ScriptBytes(p) = c
    BY <2>2, <2>4 DEF ScriptBytes
  <2>6. /\ c \in 0..k /\ c \in Nat
        /\ s <= n - 1 /\ s + c <= n - 1
        /\ Taken = s /\ Taken' = s + c
        /\ s + k >= n - 1 => s + c = n - 1
        /\ Buffered' = Buffered
    BY <1>1, <1>2, <1>3, <1>6 DEF Taken, Smaller, LengthAcceptable, Buffered
  <2> HIDE DEF v, s, n, p, c, e
  <2>11. \A i \in 1..c : p[i] = v[s + i]
    BY <1>2, <2>4, <2>6
  <2>7. rd' = RdSoFar'
    <3>1. Differs(v, e, s + c) <=> Differs(v, e, s) \/ PrefixMismatch(p)
      <4>1. Len(e) \in Nat
        BY <1>1, RequestTyped, LenProperties DEF ReaderInv, e
      <4>3. PrefixMismatch(p) <=> \E i \in 1..c : s + i <= Len(e) /\ e[s + i] # p[i]
        BY <2>2, <2>5 DEF PrefixMismatch, e
      <4>4. /\ s \in Nat /\ c \in Nat
        BY <1>2, <2>6
      <4>5. ASSUME Differs(v, e, s + c), ~Differs(v, e, s)
            PROVE  PrefixMismatch(p)
        <5>1. PICK j \in 1..(s + c) : j <= Len(e) /\ e[j] # v[j]
          BY <4>5 DEF Differs
        <5>2. j \notin 1..s
          BY <4>5, <5>1 DEF Differs
        <5>3. j - s \in 1..c /\ s + (j - s) = j
          BY <4>4, <5>2
        <5>4. p[j - s] = v[j]
          BY <2>11, <5>3
        <5> QED
          BY <4>3, <5>1, <5>3, <5>4
      <4>6. ASSUME Differs(v, e, s)
            PROVE  Differs(v, e, s + c)
        BY <4>4, <4>6 DEF Differs
      <4>7. ASSUME PrefixMismatch(p)
            PROVE  Differs(v, e, s + c)
        <5>1. PICK i \in 1..c : s + i <= Len(e) /\ e[s + i] # p[i]
          BY <4>3, <4>7
        <5>2. s + i \in 1..(s + c) /\ p[i] = v[s + i]
          BY <2>11, <4>4
        <5> QED
          BY <5>1, <5>2 DEF Differs
      <4> QED
        BY <4>5, <4>6, <4>7
    <3>2. rd' = [value_len |-> n, script_len |-> n - 1, seen |-> s + k,
                 len_known |-> TRUE, len_rejected |-> FALSE, overflow |-> FALSE,
                 assert_prefix_mismatch |-> Differs(v, e, s) \/ PrefixMismatch(p)]
      BY <2>1, <2>3, <2>4, <2>6 DEF RdSoFar, RdAfter, v, s, n, e
    <3>3. (Differs(v, e, s) \/ PrefixMismatch(p)) = Differs(v, e, s + c)
      BY <3>1 DEF Differs
    <3>4. RdSoFar' = [value_len |-> n, script_len |-> n - 1, seen |-> s + k,
                      len_known |-> TRUE, len_rejected |-> FALSE, overflow |-> FALSE,
                      assert_prefix_mismatch |-> Differs(v, e, s + c)]
      BY <1>1, <1>3, <2>6 DEF RdSoFar, n, e
    <3> QED
      BY <3>2, <3>3, <3>4, Zenon
  <2>8. tls' = TlsSoFar'
    <3>1. s < n - 1 => SubSeq(v, 1, s) \o SubSeq(p, 1, c) = SubSeq(v, 1, s + c)
      BY <1>1, <1>2, <2>6, HeadGrows DEF p, v, s, n
    <3>2. ~(s < n - 1) => c = 0
      BY <1>1, <1>2, <2>6
    <3>3. Buffered /\ s < n - 1 =>
            CopiedInto(Captured(MaxScript, v, s), s, p, c) = Captured(MaxScript, v, s + c)
      <4>1. s \in Nat /\ c \in Nat
        BY <1>2, <2>6
      <4> QED
        BY <2>11, <4>1 DEF CopiedInto, Captured
    <3>4. s + k = n => p[k] = v[n]
      <4>1. k \in 1..k
        BY <1>2
      <4> QED
        BY <2>4, <4>1
    <3>5. s # n
      BY <1>1, <1>2, <1>3 DEF n
    <3>6. tls'.leaf_script = Captured(MaxScript, v, IF Buffered THEN s + c ELSE 0)
      <4>1. tls'.leaf_script = IF s < n - 1 /\ Buffered
                               THEN CopiedInto(Captured(MaxScript, v, s), s, p, c)
                               ELSE Captured(MaxScript, v, IF Buffered THEN s ELSE 0)
        BY <2>1, <2>2, <2>3, <2>5, <2>6 DEF TlsAfter, TlsSoFar, MetaSoFar, v
      <4>2. CASE s < n - 1 /\ Buffered
        BY <4>1, <4>2, <3>3
      <4>3. CASE ~(s < n - 1)
        <5>1. s + c = s
          BY <1>2, <3>2, <4>3
        <5> QED
          BY <4>1, <4>3, <5>1
      <4>4. CASE ~Buffered
        BY <4>1, <4>4
      <4> QED
        BY <4>2, <4>3, <4>4
    <3>7. tls'.leaf_hash_ctx = [len |-> n - 1, data |-> SubSeq(v, 1, s + c)]
      <4>1. tls'.leaf_hash_ctx =
              [len |-> n - 1,
               data |-> IF s < n - 1 THEN SubSeq(v, 1, s) \o SubSeq(p, 1, c)
                                     ELSE SubSeq(v, 1, s)]
        BY <2>1, <2>2, <2>3, <2>5, <2>6 DEF TlsAfter, TlsSoFar, v, n
      <4>2. CASE s < n - 1
        BY <4>1, <4>2, <3>1
      <4>3. CASE ~(s < n - 1)
        <5>1. s + c = s
          BY <1>2, <3>2, <4>3
        <5> QED
          BY <4>1, <4>3, <5>1
      <4> QED
        BY <4>2, <4>3
    <3>8. tls'.leaf_version = IF s + k = n THEN v[n] ELSE 0
      <4>1. tls.leaf_version = 0
        BY <2>1, <3>5 DEF TlsSoFar, v, n, s
      <4> QED
        BY <2>1, <2>2, <2>3, <2>4, <3>4, <4>1 DEF TlsAfter, TlsSoFar
    <3>9. tls' = [found |-> TRUE, ambiguous |-> FALSE,
                  leaf_script |-> tls'.leaf_script, leaf_script_len |-> 0,
                  leaf_version |-> tls'.leaf_version, leaf_hash_ctx |-> tls'.leaf_hash_ctx]
      BY <2>1, <2>3 DEF TlsAfter, TlsSoFar
    <3> QED
      BY <1>3, <2>6, <3>6, <3>7, <3>8, <3>9 DEF TlsSoFar, v, n, s
  <2>9. meta' = MetaSoFar'
    <3>1. s < n - 1 => meta' = MetaAfter(p)
      BY <2>3
    <3>2. meta = [buffered |-> Buffered, last_byte |-> IF s >= n - 1 THEN v[n - 1] ELSE 0,
                  prefix |-> Captured(PrefixLen, v, s),
                  assert_prefix_ok |-> FALSE, hash |-> NoHash]
      BY <2>1, <2>6 DEF MetaSoFar, v, s, n
    <3>3. MetaSoFar' =
            [buffered |-> Buffered, last_byte |-> IF s + k >= n - 1 THEN v[n - 1] ELSE 0,
             prefix |-> Captured(PrefixLen, v, s + c),
             assert_prefix_ok |-> FALSE, hash |-> NoHash]
      BY <1>3, <2>6 DEF MetaSoFar, v, n
    <3>6. meta.buffered = Buffered
      BY <3>2
    <3>4. CASE ~(s < n - 1)
      <4>1. s + c = s /\ s >= n - 1 /\ s + k >= n - 1
        BY <1>2, <2>6, <3>4
      <4> QED
        BY <2>3, <3>2, <3>3, <3>4, <4>1
    <3>5. CASE s < n - 1
      <4> DEFINE room == Smaller(PrefixLen - s, c)
      <4>1. MetaAfter(p) =
              [meta EXCEPT !.prefix = IF s < PrefixLen THEN CopiedInto(meta.prefix, s, p, room)
                                      ELSE meta.prefix,
                           !.last_byte = IF s + c = n - 1 THEN p[c] ELSE meta.last_byte]
        BY <2>2, <2>5 DEF MetaAfter
      <4>2. (IF s < PrefixLen THEN CopiedInto(meta.prefix, s, p, room) ELSE meta.prefix)
              = Captured(PrefixLen, v, s + c)
        <5>1. meta.prefix = Captured(PrefixLen, v, s)
          BY <3>2
        <5>2. CASE s < PrefixLen
          <6>1. room \in Nat /\ room <= c /\ (room = c \/ s + room = PrefixLen)
            BY <1>2, <2>6, <5>2, SizesAssumption DEF Smaller
          <6>2. \A i \in 1..room : p[i] = v[s + i]
            BY <2>6, <2>11, <6>1
          <6> HIDE DEF room
          <6>5. s \in Nat /\ room \in Nat /\ PrefixLen \in Nat
            BY <1>2, <6>1, SizesAssumption
          <6>3. CopiedInto(Captured(PrefixLen, v, s), s, p, room)
                  = Captured(PrefixLen, v, s + room)
            BY <6>2, <6>5 DEF CopiedInto, Captured
          <6>4. Captured(PrefixLen, v, s + room) = Captured(PrefixLen, v, s + c)
            BY <1>2, <2>6, <6>1, SizesAssumption DEF Captured
          <6> QED
            BY <5>1, <5>2, <6>3, <6>4
        <5>3. CASE ~(s < PrefixLen)
          <6>1. Captured(PrefixLen, v, s) = Captured(PrefixLen, v, s + c)
            BY <1>2, <2>6, <5>3, SizesAssumption DEF Captured
          <6> QED
            BY <5>1, <5>3, <6>1
        <5> QED
          BY <5>2, <5>3
      <4>3. (IF s + c = n - 1 THEN p[c] ELSE meta.last_byte)
              = IF s + k >= n - 1 THEN v[n - 1] ELSE 0
        <5>1. s + c = n - 1 <=> s + k >= n - 1
          BY <1>2, <2>6
        <5>2. s + c = n - 1 => p[c] = v[n - 1]
          <6>1. s + c = n - 1 => c \in 1..c
            BY <1>2, <2>6, <3>5
          <6> QED
            BY <2>11, <6>1
        <5>3. meta.last_byte = 0
          BY <1>2, <3>2, <3>5
        <5> QED
          BY <5>1, <5>2, <5>3
      <4> HIDE DEF room
      <4>4. meta' = [meta EXCEPT !.prefix = Captured(PrefixLen, v, s + c),
                                 !.last_byte = IF s + k >= n - 1 THEN v[n - 1] ELSE 0]
        BY <3>1, <3>5, <4>1, <4>2, <4>3
      <4>5. meta.assert_prefix_ok = FALSE /\ meta.hash = NoHash
        BY <3>2
      <4>6. meta' = [buffered |-> meta.buffered, last_byte |-> meta'.last_byte,
                     prefix |-> meta'.prefix, assert_prefix_ok |-> meta.assert_prefix_ok,
                     hash |-> meta.hash]
        BY <3>2, <4>4
      <4>7. /\ meta'.last_byte = IF s + k >= n - 1 THEN v[n - 1] ELSE 0
            /\ meta'.prefix = Captured(PrefixLen, v, s + c)
        BY <3>2, <4>4
      <4> QED
        BY <3>3, <3>6, <4>5, <4>6, <4>7, Zenon
    <3> QED
      BY <3>4, <3>5
  <2>10. ReaderTypeOK'
    <3>1. \A i \in 1..n : v[i] \in Byte
      BY <1>2, ElementOfSeq, LenProperties DEF n
    <3>2. \A m \in Nat, u \in Nat : u < n => Captured(m, v, u) \in [1..m -> Byte]
      BY <1>2, <3>1, BytesAssumption DEF Captured
    <3>3. SubSeq(v, 1, s + c) \in Seq(Byte)
      BY <1>2, <2>6, HeadBytes DEF n
    <3>4. s + c < n /\ 0 < n /\ n - 1 \in 1..n /\ n \in 1..n
      BY <1>2, <1>6, <2>6 DEF LengthAcceptable
    <3>7. /\ s + c \in Nat /\ s + c < n /\ 0 \in Nat /\ 0 < n
          /\ MaxScript \in Nat /\ PrefixLen \in Nat
      BY <1>2, <2>6, <3>4, SizesAssumption
    <3>5. TlsSoFar' \in TlsTypes
      <4>1. TlsSoFar' =
              [found |-> TRUE, ambiguous |-> FALSE,
               leaf_script |-> Captured(MaxScript, v, IF Buffered THEN s + c ELSE 0),
               leaf_script_len |-> 0,
               leaf_version |-> IF s + k = n THEN v[n] ELSE 0,
               leaf_hash_ctx |-> [len |-> n - 1, data |-> SubSeq(v, 1, s + c)]]
        BY <1>3, <2>6 DEF TlsSoFar, n
      <4>2. Captured(MaxScript, v, IF Buffered THEN s + c ELSE 0) \in [1..MaxScript -> Byte]
        BY <3>2, <3>7
      <4>3. (IF s + k = n THEN v[n] ELSE 0) \in Byte
        BY <3>1, <3>4, BytesAssumption
      <4>4. [len |-> n - 1, data |-> SubSeq(v, 1, s + c)] \in [len: Nat, data: Seq(Byte)]
        BY <1>2, <3>3, <3>4
      <4> QED
        BY <4>1, <4>2, <4>3, <4>4 DEF TlsTypes
    <3>6. MetaSoFar' \in MetaTypes
      <4>1. MetaSoFar' =
              [buffered |-> Buffered, last_byte |-> IF s + k >= n - 1 THEN v[n - 1] ELSE 0,
               prefix |-> Captured(PrefixLen, v, s + c),
               assert_prefix_ok |-> FALSE, hash |-> NoHash]
        BY <1>3, <2>6 DEF MetaSoFar, v, n
      <4>2. Captured(PrefixLen, v, s + c) \in [1..PrefixLen -> Byte]
        BY <3>2, <3>7
      <4>3. (IF s + k >= n - 1 THEN v[n - 1] ELSE 0) \in Byte
        BY <3>1, <3>4, BytesAssumption
      <4>4. Buffered \in BOOLEAN
        BY DEF Buffered
      <4> QED
        BY <4>1, <4>2, <4>3, <4>4, ZeroTyped DEF MetaTypes
    <3> QED
      BY <1>1, <2>8, <2>9, <3>5, <3>6 DEF ReaderInv, ReaderTypeOK
  <2> QED
    BY <1>1, <1>2, <1>3, <1>4, <1>6, <2>6, <2>7, <2>8, <2>9, <2>10
    DEF ReaderInv, Walked, Streamed, TlsSoFar, v, s, n
<1> QED
  BY <1>5, <1>6

-----------------------------------------------------------------------------
(* The end of a stream. *)

(* What a whole value leaves in the buffers are the facts about it.        *)
LEMMA WholeValue ==
  ASSUME NEW v \in Seq(Byte), LengthAcceptable(Len(v)), NEW e \in Seq(Byte)
  PROVE  LET n == Len(v)
             script == OneLeaf!ScriptOf(v)
         IN  /\ script = SubSeq(v, 1, n - 1)
             /\ Len(script) = n - 1
             /\ script[Len(script)] = v[n - 1]
             /\ n - 1 <= MaxScript =>
                  SubSeq(Captured(MaxScript, v, n - 1), 1, n - 1) = script
             /\ Captured(PrefixLen, v, n - 1) = OneLeaf!Padded(script, PrefixLen)
             /\ OneLeaf!BeginsWith(script, e) <=>
                  n - 1 > Len(e) /\ ~Differs(v, e, n - 1)
<1> DEFINE n == Len(v)
           script == SubSeq(v, 1, n - 1)
<1>1. n \in Nat /\ n - 1 \in Nat /\ n - 1 <= n /\ n - 1 \in 1..(n - 1) /\ Len(e) \in Nat
  BY LenProperties DEF LengthAcceptable
<1>2. /\ script \in Seq(Byte) /\ Len(script) = n - 1
      /\ \A i \in 1..(n - 1) : script[i] = v[i]
  BY <1>1, HeadBytes
<1>3. \A i \in 1..(n - 1) : v[i] \in Byte
  BY <1>1, ElementOfSeq, LenProperties
<1>4. OneLeaf!ScriptOf(v) = script
  BY DEF OneLeaf!ScriptOf
<1> HIDE DEF script, n
<1>5. ASSUME n - 1 <= MaxScript
      PROVE  SubSeq(Captured(MaxScript, v, n - 1), 1, n - 1) = script
  <2> DEFINE c == Captured(MaxScript, v, n - 1)
  <2>1. \A i \in 1..(n - 1) : c[i] = v[i]
    BY <1>1, <1>5, SizesAssumption DEF Captured
  <2>2. \A i \in 1..(n - 1) : c[i] \in Byte
    BY <1>3, <2>1
  <2> HIDE DEF c
  <2>3. /\ SubSeq(c, 1, n - 1) \in Seq(Byte)
        /\ Len(SubSeq(c, 1, n - 1)) = IF 1 <= n - 1 THEN (n - 1) - 1 + 1 ELSE 0
        /\ \A i \in 1..((n - 1) - 1 + 1) : SubSeq(c, 1, n - 1)[i] = c[1 + i - 1]
    BY <1>1, <2>2, SubSeqProperties
  <2>4. /\ Len(SubSeq(c, 1, n - 1)) = n - 1
        /\ \A i \in 1..(n - 1) : SubSeq(c, 1, n - 1)[i] = c[i]
    BY <1>1, <2>3
  <2>5. \A i \in 1..Len(script) : SubSeq(c, 1, n - 1)[i] = script[i]
    BY <1>2, <2>1, <2>4
  <2>6. SubSeq(c, 1, n - 1) = script
    BY <1>2, <2>3, <2>4, <2>5, SeqEqual
  <2> QED
    BY <2>6 DEF c
<1>6. Captured(PrefixLen, v, n - 1) = OneLeaf!Padded(script, PrefixLen)
  BY <1>1, <1>2, SizesAssumption DEF Captured, OneLeaf!Padded
<1>7. OneLeaf!BeginsWith(script, e) <=> n - 1 > Len(e) /\ ~Differs(v, e, n - 1)
  <2>1. CASE ~(n - 1 > Len(e))
    BY <1>2, <2>1 DEF OneLeaf!BeginsWith
  <2>2. CASE n - 1 > Len(e)
    <3> DEFINE head == SubSeq(script, 1, Len(e))
    <3>1. /\ head \in Seq(Byte) /\ Len(head) = Len(e)
          /\ \A i \in 1..Len(e) : head[i] = script[i]
      BY <1>1, <1>2, <2>2, HeadBytes
    <3> HIDE DEF head
    <3>2. \A i \in 1..Len(e) : i \in 1..(n - 1) /\ head[i] = v[i]
      BY <1>1, <1>2, <2>2, <3>1
    <3>3. (head = e) <=> \A i \in 1..Len(e) : head[i] = e[i]
      BY <3>1, SeqEqual
    <3>4. Differs(v, e, n - 1) <=> \E i \in 1..Len(e) : e[i] # v[i]
      BY <1>1, <2>2 DEF Differs
    <3>5. OneLeaf!BeginsWith(script, e) <=> head = e
      BY <1>2, <2>2 DEF OneLeaf!BeginsWith, head
    <3> QED
      BY <2>2, <3>2, <3>3, <3>4, <3>5
  <2> QED
    BY <2>1, <2>2
<1>8. script[Len(script)] = v[n - 1]
  BY <1>1, <1>2
<1> QED
  BY <1>2, <1>4, <1>5, <1>6, <1>7, <1>8 DEF script, n

LEMMA StreamEndsInv ==
  ASSUME ReaderInv, StreamEnds
  PROVE  ReaderInv'
<1> DEFINE v == stream.value
           n == Len(v)
           e == request.expected
<1>1. /\ phase = "streaming" /\ phase' = "walking"
      /\ request' = request /\ cursor' = cursor + 1
      /\ v = Key.value /\ ValueAccepted /\ stream.in = n
      /\ tls' = [tls EXCEPT !.leaf_script_len = rd.script_len]
      /\ meta' = [meta EXCEPT !.hash = tls.leaf_hash_ctx, !.assert_prefix_ok = PrefixOk]
  BY DEF StreamEnds, StreamOver, Received
<1>2. /\ cursor < Len(request.keys) /\ Key.leaf /\ SeenLeaves = {}
      /\ Key.control_block <= MaxControlBlock
      /\ v \in Seq(Byte) /\ n \in Nat /\ e \in Seq(Byte)
  BY <1>1, RequestTyped, LenProperties DEF ReaderInv, Streamed
<1>3. LengthAcceptable(n)
  BY <1>1 DEF ReaderInv, Streamed, ValueAccepted
<1>4. rd = RdSoFar /\ tls = TlsSoFar /\ meta = MetaSoFar
  BY <1>1, <1>3 DEF ReaderInv, Streamed
<1>5. Taken = n - 1 /\ n - 1 \in Nat /\ n > 0
  BY <1>1, <1>2, <1>3 DEF Taken, Smaller, LengthAcceptable
<1>6. /\ SeenLeaves' = {cursor + 1} /\ cursor' \in 0..Len(request'.keys)
      /\ cursor + 1 \in DOMAIN request.keys
      /\ request'.keys[cursor + 1] = Key
  BY <1>1, <1>2, OneMoreKey DEF ReaderInv, Key
<1>7. tls' \in TlsTypes /\ meta' \in MetaTypes
  <2>1. tls \in TlsTypes /\ meta \in MetaTypes
    BY <1>1 DEF ReaderInv, ReaderTypeOK
  <2>2. rd.script_len \in Nat
    BY <1>4, <1>5 DEF RdSoFar
  <2>3. tls' \in TlsTypes
    BY <1>1, <2>1, <2>2 DEF TlsTypes
  <2>4. tls.leaf_hash_ctx \in [len: Nat, data: Seq(Byte)] /\ PrefixOk \in BOOLEAN
    BY <2>1 DEF TlsTypes, PrefixOk
  <2>5. meta' \in MetaTypes
    BY <1>1, <2>1, <2>4 DEF MetaTypes
  <2> QED
    BY <2>3, <2>5
<1>8. OneLeaf!Readable(Key)
  BY <1>1, <1>2, <1>3, <1>4 DEF OneLeaf!Readable, LengthAcceptable, ValueAccepted, TlsSoFar
<1>9. FactsRead' = OneLeaf!Facts(v, e)
  <2> DEFINE script == OneLeaf!ScriptOf(v)
  <2>1. /\ script = SubSeq(v, 1, n - 1)
        /\ Len(script) = n - 1
        /\ script[Len(script)] = v[n - 1]
        /\ n - 1 <= MaxScript =>
             SubSeq(Captured(MaxScript, v, n - 1), 1, n - 1) = script
        /\ Captured(PrefixLen, v, n - 1) = OneLeaf!Padded(script, PrefixLen)
        /\ OneLeaf!BeginsWith(script, e) <=> n - 1 > Len(e) /\ ~Differs(v, e, n - 1)
    BY <1>2, <1>3, WholeValue
  <2> HIDE DEF script
  <2>2. tls'.leaf_script_len = Len(script)
    BY <1>1, <1>4, <2>1 DEF RdSoFar, TlsSoFar
  <2>3. meta'.buffered = (Len(script) <= MaxScript)
    BY <1>1, <1>4, <2>1 DEF MetaSoFar, Buffered
  <2>4. Len(script) <= MaxScript => tls'.leaf_script = Captured(MaxScript, v, n - 1)
    BY <1>1, <1>4, <1>5, <2>1 DEF TlsSoFar, Buffered
  <2>5. meta'.last_byte = script[Len(script)]
    <3>1. n >= n - 1
      BY <1>2
    <3>2. meta.last_byte = v[n - 1]
      BY <1>1, <1>4, <3>1 DEF MetaSoFar
    <3>3. meta'.last_byte = meta.last_byte
      BY <1>1, <1>4 DEF MetaSoFar
    <3> QED
      BY <2>1, <3>2, <3>3
  <2>6. meta'.prefix = OneLeaf!Padded(script, PrefixLen)
    BY <1>1, <1>4, <1>5, <2>1 DEF MetaSoFar
  <2>7. meta'.hash = OneLeaf!LeafHash(script)
    BY <1>1, <1>4, <1>5, <2>1 DEF MetaSoFar, TlsSoFar, OneLeaf!LeafHash
  <2>8. meta'.assert_prefix_ok = (e # <<>> /\ OneLeaf!BeginsWith(script, e))
    <3>1. PrefixOk <=> e # <<>> /\ OneLeaf!BeginsWith(script, e)
      BY <1>4, <1>5, <2>1 DEF PrefixOk, RdSoFar
    <3>2. meta'.assert_prefix_ok = PrefixOk
      BY <1>1, <1>4 DEF MetaSoFar
    <3> QED
      BY <3>1, <3>2 DEF PrefixOk
  <2>9. (IF meta'.buffered THEN SubSeq(tls'.leaf_script, 1, tls'.leaf_script_len) ELSE <<>>)
          = IF Len(script) <= MaxScript THEN script ELSE <<>>
    BY <2>1, <2>2, <2>3, <2>4
  <2> QED
    BY <2>2, <2>3, <2>5, <2>6, <2>7, <2>8, <2>9, Zenon
    DEF FactsRead, OneLeaf!Facts, script
<1>10. Walked'
  BY <1>1, <1>6, <1>8, <1>9, <1>4 DEF Walked, TlsSoFar
<1> QED
  BY <1>1, <1>6, <1>7, <1>10 DEF ReaderInv, ReaderTypeOK, Streamed

(* A stream that is refused or breaks off leaves the read ambiguous.       *)
LEMMA StreamLostInv ==
  ASSUME ReaderInv, StreamRefused \/ StreamFails
  PROVE  ReaderInv'
<1>1. /\ phase = "streaming" /\ phase' = "walking"
      /\ request' = request /\ cursor' = cursor + 1
      /\ tls' = [tls EXCEPT !.ambiguous = TRUE] /\ meta' = meta
  BY DEF StreamRefused, StreamFails, StreamOver
<1>2. tls \in TlsTypes /\ meta \in MetaTypes /\ tls.found
  BY <1>1 DEF ReaderInv, ReaderTypeOK, Streamed
<1>3. tls' \in TlsTypes /\ tls'.ambiguous /\ tls'.found
  BY <1>1, <1>2 DEF TlsTypes
<1>4. cursor' \in 0..Len(request.keys)
  BY <1>1, OneMoreKey DEF ReaderInv, Streamed
<1> QED
  BY <1>1, <1>2, <1>3, <1>4, AmbiguousInv DEF ReaderInv

LEMMA ReadNextInv ==
  ASSUME ReaderInv, ReadNext
  PROVE  ReaderInv'
<1>1. CASE PassKey
  BY <1>1, PassKeyInv
<1>2. CASE SecondLeaf
  BY <1>2, SecondLeafInv
<1>3. CASE OversizedControlBlock
  BY <1>3, OversizedInv
<1>4. CASE AtKey /\ \E value \in {Key.value} \cup Lies : OpenStream(value)
  BY <1>4, OpenStreamInv
<1>5. CASE \E k \in ChunkSizes : Deliver(k)
  BY <1>5, DeliverInv
<1>6. CASE DeliverNothing
  BY <1>6 DEF DeliverNothing, readerVars, ReaderInv, ReaderTypeOK, Walked, Streamed,
    SeenLeaves, FactsRead, Key, RdSoFar, TlsSoFar, MetaSoFar, Taken, Buffered
<1>7. CASE StreamEnds
  BY <1>7, StreamEndsInv
<1>8. CASE StreamRefused \/ StreamFails
  BY <1>8, StreamLostInv
<1>9. CASE WalkEnds
  BY <1>9, WalkEndsInv
<1>10. CASE WalkFails
  BY <1>10, WalkFailsInv
<1> QED
  BY <1>1, <1>2, <1>3, <1>4, <1>5, <1>6, <1>7, <1>8, <1>9, <1>10 DEF ReadNext

LEMMA StutterInv ==
  ASSUME ReaderInv, UNCHANGED readerVars
  PROVE  ReaderInv'
BY DEF readerVars, ReaderInv, ReaderTypeOK, Walked, Streamed,
  SeenLeaves, FactsRead, Key, RdSoFar, TlsSoFar, MetaSoFar, Taken, Buffered

-----------------------------------------------------------------------------
(* Theorems. *)

(* Wherever the host cuts the stream, what is in the buffers is what is in *)
(* of the leaf, and an accepted leaf is the only one of its map            *)
(* (_leaf_stream_data_cb, _stream_tap_leaf_value).                         *)
THEOREM CapturedExactly == ReaderSpec => []ReaderInv
<1>1. ReaderInit => ReaderInv
  BY InitInv
<1>2. ReaderInv /\ [ReaderNext]_readerVars => ReaderInv'
  <2> SUFFICES ASSUME ReaderInv, [ReaderNext]_readerVars
               PROVE  ReaderInv'
    OBVIOUS
  <2>1. CASE \E keys \in Maps, expected \in Expected : Begin(keys, expected)
    BY <2>1, BeginInv
  <2>2. CASE ReadNext
    BY <2>2, ReadNextInv
  <2>3. CASE Done /\ UNCHANGED <<tls, meta>>
    BY <2>3, DoneInv
  <2>4. CASE UNCHANGED readerVars
    BY <2>4, StutterInv
  <2> QED
    BY <2>1, <2>2, <2>3, <2>4 DEF ReaderNext
<1> QED
  BY <1>1, <1>2, PTL DEF ReaderSpec

-----------------------------------------------------------------------------
(* The refinement. *)

(* A walk that ends accepted tells the facts of the map's only leaf.       *)
LEMMA AcceptedIsDescribed ==
  ASSUME ReaderInv, phase \in {"walking", "done"}, cursor = Len(request.keys), Accepted
  PROVE  FactsRead \in OneLeaf!Descriptions(request)
<1>1. PICK i \in DOMAIN request.keys :
        /\ SeenLeaves = {i}
        /\ OneLeaf!Readable(request.keys[i])
        /\ FactsRead = OneLeaf!Facts(request.keys[i].value, request.expected)
  BY DEF ReaderInv, Walked, Accepted
<1>2. SeenLeaves = OneLeaf!LeafKeys(request.keys)
  BY RequestTyped DEF ReaderInv, SeenLeaves, OneLeaf!LeafKeys
<1>3. i \in OneLeaf!LeafKeys(request.keys)
  BY <1>1, <1>2
<1> QED
  BY <1>1, <1>2, <1>3 DEF OneLeaf!Descriptions

(* Init maps to Init.                                                      *)
LEMMA InitMaps == ReaderInit => OneLeaf!Init
BY DEF ReaderInit, OneLeaf!Init, OneLeaf!Untold, Outcome

(* A step that neither begins nor ends a read is invisible.                *)
LEMMA InsideIsInvisible ==
  ASSUME phase \in {"walking", "streaming"}, phase' \in {"walking", "streaming"},
         request' = request
  PROVE  UNCHANGED OneLeaf!vars
BY DEF OneLeaf!vars, Outcome

LEMMA BeginMaps ==
  ASSUME NEW keys \in Maps, NEW expected \in Expected, Begin(keys, expected)
  PROVE  OneLeaf!Next
<1>1. request' # NoRead
  BY InputsAssumption DEF Begin
<1> QED
  BY <1>1 DEF Begin, OneLeaf!Next, OneLeaf!Ask, OneLeaf!Untold, Outcome

LEMMA WalkEndsMaps ==
  ASSUME ReaderInv, WalkEnds
  PROVE  OneLeaf!Next
<1>1. /\ phase = "walking" /\ phase' = "done" /\ request' = request
      /\ FactsRead' = FactsRead /\ Accepted' = Accepted
  BY DEF WalkEnds, FactsRead, Accepted
<1>2. request # NoRead
  BY <1>1, InputsAssumption DEF ReaderInv, ReaderTypeOK
<1>3. CASE Accepted
  <2>1. Outcome' = [status |-> "read", facts |-> FactsRead]
    BY <1>1, <1>3 DEF Outcome, Accepted
  <2>2. FactsRead \in OneLeaf!Descriptions(request)
    BY <1>3, AcceptedIsDescribed DEF WalkEnds
  <2> QED
    BY <1>1, <1>2, <2>1, <2>2
    DEF OneLeaf!Next, OneLeaf!Answer, OneLeaf!Untold, Outcome
<1>4. CASE ~Accepted
  <2>1. Outcome' = [status |-> "failed"]
    BY <1>1, <1>4 DEF Outcome, Accepted
  <2> QED
    BY <1>1, <1>2, <2>1 DEF OneLeaf!Next, OneLeaf!Answer, OneLeaf!Untold, Outcome
<1> QED
  BY <1>3, <1>4

LEMMA WalkFailsMaps ==
  ASSUME ReaderInv, WalkFails
  PROVE  OneLeaf!Next
<1>1. phase = "walking" /\ phase' = "done" /\ request' = request /\ ~Accepted'
  BY DEF WalkFails, ReaderInv, ReaderTypeOK, TlsTypes, Accepted
<1>2. request # NoRead
  BY <1>1, InputsAssumption DEF ReaderInv, ReaderTypeOK
<1>3. Outcome' = [status |-> "failed"]
  BY <1>1 DEF Outcome, Accepted
<1> QED
  BY <1>1, <1>2, <1>3 DEF OneLeaf!Next, OneLeaf!Answer, OneLeaf!Untold, Outcome

LEMMA DoneMaps ==
  ASSUME Done
  PROVE  OneLeaf!Next
<1>1. phase = "done" /\ phase' = "idle"
  BY DEF Done
<1>2. Outcome # OneLeaf!Untold
  BY <1>1 DEF Outcome, OneLeaf!Untold
<1>3. Outcome' = OneLeaf!Untold
  BY <1>1 DEF Outcome, OneLeaf!Untold
<1> QED
  BY <1>1, <1>2, <1>3 DEF OneLeaf!Next, OneLeaf!Forget

LEMMA ReadNextMaps ==
  ASSUME ReaderInv, ReadNext
  PROVE  OneLeaf!Next \/ UNCHANGED OneLeaf!vars
<1>1. CASE PassKey \/ SecondLeaf \/ OversizedControlBlock
  BY <1>1, InsideIsInvisible DEF PassKey, SecondLeaf, OversizedControlBlock, AtKey
<1>2. CASE AtKey /\ \E value \in {Key.value} \cup Lies : OpenStream(value)
  BY <1>2, InsideIsInvisible DEF OpenStream, AtKey
<1>3. CASE \E k \in ChunkSizes : Deliver(k)
  BY <1>3, InsideIsInvisible DEF Deliver
<1>4. CASE DeliverNothing
  BY <1>4, InsideIsInvisible DEF DeliverNothing, readerVars
<1>5. CASE StreamEnds \/ StreamRefused \/ StreamFails
  BY <1>5, InsideIsInvisible DEF StreamEnds, StreamRefused, StreamFails, StreamOver
<1>6. CASE WalkEnds
  BY <1>6, WalkEndsMaps
<1>7. CASE WalkFails
  BY <1>7, WalkFailsMaps
<1> QED
  BY <1>1, <1>2, <1>3, <1>4, <1>5, <1>6, <1>7 DEF ReadNext

(* The reader implements the one-shot read: every step of it begins one,   *)
(* answers one, forgets one or is invisible (ReaderImplementsRead).        *)
THEOREM Refines == ReaderSpec => ReaderImplementsRead
<1>1. ReaderInit => OneLeaf!Init
  BY InitMaps
<1>2. ReaderInv /\ [ReaderNext]_readerVars => [OneLeaf!Next]_OneLeaf!vars
  <2> SUFFICES ASSUME ReaderInv, [ReaderNext]_readerVars
               PROVE  OneLeaf!Next \/ UNCHANGED OneLeaf!vars
    OBVIOUS
  <2>1. CASE \E keys \in Maps, expected \in Expected : Begin(keys, expected)
    BY <2>1, BeginMaps
  <2>2. CASE ReadNext
    BY <2>2, ReadNextMaps
  <2>3. CASE Done /\ UNCHANGED <<tls, meta>>
    BY <2>3, DoneMaps
  <2>4. CASE UNCHANGED readerVars
    BY <2>4 DEF readerVars, OneLeaf!vars, Outcome, Accepted, FactsRead
  <2> QED
    BY <2>1, <2>2, <2>3, <2>4 DEF ReaderNext
<1> QED
  BY <1>1, <1>2, CapturedExactly, PTL DEF ReaderSpec, ReaderImplementsRead, OneLeaf!Spec
=============================================================================
