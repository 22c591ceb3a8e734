------------------------- MODULE LeafDispatchProofs -------------------------
(***************************************************************************)
(* The reader, in the hands of the validators that call it: it is still a  *)
(* one-shot read, although they overlay tls, and it never refuses a host   *)
(* that sends what was committed to.  What the validators then make of the *)
(* leaf: a leaf the device builds is judged in its own flow and in no      *)
(* other, a payout is told by its exact bytes, the timelock shown is the   *)
(* one consensus enforces and the one that was built in.                   *)
(***************************************************************************)
EXTENDS LeafDispatch, LeafReaderProofs, VaultScriptProofs

(* The map has a leaf the device supports, and no other. *)
OnlyLeaf(j) ==
  /\ OneLeaf!LeafKeys(request.keys) = {j}
  /\ OneLeaf!Readable(request.keys[j])

(* An honest exchange is never ambiguous, and has found the leaf as soon   *)
(* as it is behind it.                                                     *)
HonestSoFar ==
  phase # "idle" /\ honest =>
    \A j \in DOMAIN request.keys : OnlyLeaf(j) =>
      /\ ~tls.ambiguous
      /\ phase = "streaming" => stream.value = Key.value
      /\ phase = "done" => cursor = Len(request.keys)
      /\ phase # "streaming" => (tls.found <=> cursor >= j)
      /\ phase # "streaming" /\ tls.found => tls.leaf_version = Tapscript

DispatchInv ==
  /\ ReaderInv
  /\ loaded \in Intents \cup {NoIntent}
  /\ LeafTypeOK
  /\ HonestSoFar

-----------------------------------------------------------------------------
(* Every step of a validator is one of the reader. *)

LEMMA StartReadBegins ==
  ASSUME StartRead, loaded \in Intents \cup {NoIntent}
  PROVE  \E keys \in Maps, expected \in Expected : Begin(keys, expected)
BY ExpectedAssumption DEF StartRead

LEMMA ReadIsReadNext ==
  ASSUME Read
  PROVE  ReadNext
BY DEF Read, ReadsOn, Opens, HostDelivers, HostStalls, ReadBreaks, ReadNext

(* A judgement is the end of a read, and keeps the size of the buffers.    *)
LEMMA JudgeIsDone ==
  ASSUME Judge, ReaderInv
  PROVE  /\ Done
         /\ meta' = meta /\ loaded' = loaded /\ honest' = honest
         /\ tls'.leaf_hash_ctx = tls.leaf_hash_ctx
         /\ DOMAIN tls'.leaf_script = DOMAIN tls.leaf_script
<1>1. CASE JudgeUnread
  BY <1>1 DEF JudgeUnread, Judging
<1>2. CASE JudgeLeaf
  BY <1>2 DEF JudgeLeaf, Judging
<1>3. CASE JudgePayoutFinalize
  BY <1>3 DEF JudgePayoutFinalize, Judging
<1>4. CASE JudgeNoPayout
  BY <1>4 DEF JudgeNoPayout, Judging
<1>5. CASE JudgePayouts
  <2>1. PICK g \in DOMAIN loaded.groups : JudgeStrangersPayout(g) \/ JudgePayout(g)
    BY <1>5 DEF JudgePayouts
  <2>2. CASE JudgeStrangersPayout(g)
    BY <2>2 DEF JudgeStrangersPayout, Judging
  <2>3. CASE JudgePayout(g)
    <3>1. tls \in TlsTypes
      BY <2>3 DEF JudgePayout, Judging, Done, ReaderInv, ReaderTypeOK
    <3>2. tls' = [tls EXCEPT !.leaf_script = Overlaid(tls.leaf_script, Rebuilt(g))]
      BY <2>3 DEF JudgePayout
    <3>3. tls'.leaf_hash_ctx = tls.leaf_hash_ctx
            /\ DOMAIN tls'.leaf_script = DOMAIN tls.leaf_script
      BY <3>1, <3>2 DEF Overlaid, TlsTypes
    <3> QED
      BY <2>3, <3>3 DEF JudgePayout, Judging
  <2> QED
    BY <2>1, <2>2, <2>3
<1> QED
  BY <1>1, <1>2, <1>3, <1>4, <1>5 DEF Judge

LEMMA NextKeepsReaderInv ==
  ASSUME ReaderInv, loaded \in Intents \cup {NoIntent}, Next
  PROVE  ReaderInv' /\ loaded' \in Intents \cup {NoIntent}
<1>1. CASE StartRead
  BY <1>1, StartReadBegins, BeginInv DEF StartRead
<1>2. CASE Read
  BY <1>2, ReadIsReadNext, ReadNextInv
  DEF Read, ReadsOn, Opens, HostDelivers, HostStalls, ReadBreaks
<1>3. CASE Judge
  BY <1>3, JudgeIsDone, DoneInv
<1> QED
  BY <1>1, <1>2, <1>3 DEF Next

-----------------------------------------------------------------------------
(* Types. *)

LEMMA HeadLength ==
  ASSUME NEW v \in Seq(Byte), NEW k \in Nat, k <= Len(v)
  PROVE  Len(SubSeq(v, 1, k)) = k
BY HeadBytes

(* The bookkeeping of a stream after a step, if its length was accepted.   *)
LEMMA StreamBounded ==
  ASSUME ReaderInv', phase' = "streaming", LengthAcceptable(Len(stream'.value))
  PROVE  /\ rd'.value_len <= MaxValue /\ rd'.seen <= rd'.value_len
         /\ Len(tls'.leaf_hash_ctx.data) <= tls'.leaf_hash_ctx.len
         /\ tls'.leaf_hash_ctx.len < MaxValue
<1> DEFINE n == Len(stream'.value)
<1>1. /\ stream'.value \in Seq(Byte) /\ stream'.in \in Nat /\ n \in Nat /\ stream'.in <= n
      /\ n \in 2..MaxValue
      /\ rd' = RdSoFar' /\ tls' = TlsSoFar'
  BY LenProperties DEF ReaderInv, Streamed, LengthAcceptable
<1>2. Taken' \in Nat /\ Taken' <= n - 1
  BY <1>1 DEF Taken, Smaller
<1>3. Len(SubSeq(stream'.value, 1, Taken')) = Taken'
  <2>1. Taken' <= Len(stream'.value)
    BY <1>1, <1>2
  <2> QED
    BY <1>1, <1>2, <2>1, HeadLength
<1> QED
  BY <1>1, <1>2, <1>3, SizesAssumption DEF RdSoFar, TlsSoFar

(* A step within a read. *)
LEMMA ReadNextTyped ==
  ASSUME ReaderInv, ReaderInv', LeafTypeOK, ReadNext
  PROVE  LeafTypeOK'
<1>0. phase # "idle"
  BY DEF ReadNext, PassKey, SecondLeaf, OversizedControlBlock, AtKey, Deliver,
    DeliverNothing, StreamEnds, StreamRefused, StreamFails, WalkEnds, WalkFails
<1>1. request' = request /\ phase' \in {"walking", "streaming", "done"}
  BY DEF ReadNext, PassKey, SecondLeaf, OversizedControlBlock, AtKey, OpenStream, Deliver,
    DeliverNothing, StreamEnds, StreamRefused, StreamFails, StreamOver, WalkEnds,
    WalkFails, readerVars
<1>2. /\ cursor' \in 0..Len(request'.keys)
      /\ request' # NoRead
      /\ tls' \in TlsTypes /\ meta' \in MetaTypes
      /\ tls \in TlsTypes
  BY <1>0, <1>1, InputsAssumption DEF ReaderInv, ReaderTypeOK
<1>3. DOMAIN tls'.leaf_script = 1..MaxScript /\ DOMAIN meta'.prefix = 1..PrefixLen
  BY <1>2 DEF TlsTypes, MetaTypes
<1>4. /\ rd'.value_len <= MaxValue /\ rd'.seen <= rd'.value_len
      /\ Len(tls'.leaf_hash_ctx.data) <= tls'.leaf_hash_ctx.len
      /\ tls'.leaf_hash_ctx.len < MaxValue
  <2>1. CASE phase' = "streaming" /\ LengthAcceptable(Len(stream'.value))
    BY <2>1, StreamBounded
  <2>2. CASE phase' = "streaming" /\ ~LengthAcceptable(Len(stream'.value))
    <3>1. CASE \E value \in {Key.value} \cup Lies : OpenStream(value)
      <4>1. PICK value \in {Key.value} \cup Lies : OpenStream(value)
        BY <3>1
      <4>2. ~LengthAcceptable(Len(value))
        BY <2>2, <4>1 DEF OpenStream
      <4>3. rd' = [ZeroRd EXCEPT !.len_rejected = TRUE]
              /\ tls' = [tls EXCEPT !.found = TRUE]
        BY <4>1, <4>2 DEF OpenStream, Announced
      <4> QED
        BY <1>2, <4>3, SizesAssumption DEF ZeroRd, TlsTypes, LeafTypeOK
    <3>2. CASE \E k \in ChunkSizes : Deliver(k)
      <4>1. PICK k \in ChunkSizes : Deliver(k)
        BY <3>2
      <4>2. stream'.value = stream.value /\ phase = "streaming"
        BY <4>1 DEF Deliver, ReaderInv, Streamed
      <4>3. rd.len_rejected
        BY <2>2, <4>2 DEF ReaderInv, Streamed
      <4>4. rd' = rd /\ tls' = tls
        BY <4>1, <4>3 DEF Deliver
      <4> QED
        BY <4>4 DEF LeafTypeOK
    <3>3. CASE DeliverNothing
      BY <3>3 DEF DeliverNothing, readerVars, LeafTypeOK
    <3>4. CASE PassKey \/ SecondLeaf \/ OversizedControlBlock \/ StreamEnds
                 \/ StreamRefused \/ StreamFails \/ WalkEnds \/ WalkFails
      BY <2>2, <3>4 DEF PassKey, SecondLeaf, OversizedControlBlock, AtKey, StreamEnds,
        StreamRefused, StreamFails, StreamOver, WalkEnds, WalkFails
    <3> QED
      BY <3>1, <3>2, <3>3, <3>4 DEF ReadNext
  <2>3. CASE phase' # "streaming"
    <3>1. tls'.leaf_hash_ctx = tls.leaf_hash_ctx /\ (rd' = rd \/ rd' = ZeroRd)
      <4>1. CASE StreamEnds \/ StreamRefused \/ StreamFails
        BY <1>2, <4>1 DEF StreamEnds, StreamRefused, StreamFails, StreamOver, TlsTypes
      <4>2. CASE PassKey \/ WalkEnds \/ DeliverNothing
        BY <4>2 DEF PassKey, WalkEnds, DeliverNothing, readerVars
      <4>3. CASE SecondLeaf \/ OversizedControlBlock \/ WalkFails
        BY <1>2, <4>3 DEF SecondLeaf, OversizedControlBlock, WalkFails, TlsTypes
      <4>4. CASE \E value \in {Key.value} \cup Lies : OpenStream(value)
        BY <2>3, <4>4 DEF OpenStream
      <4>5. CASE \E k \in ChunkSizes : Deliver(k)
        BY <2>3, <4>5 DEF Deliver
      <4> QED
        BY <4>1, <4>2, <4>3, <4>4, <4>5 DEF ReadNext
    <3> QED
      BY <3>1, SizesAssumption DEF LeafTypeOK, ZeroRd
  <2> QED
    BY <2>1, <2>2, <2>3
<1> QED
  BY <1>1, <1>2, <1>3, <1>4 DEF LeafTypeOK

LEMMA NextTyped ==
  ASSUME DispatchInv, ReaderInv', Next
  PROVE  LeafTypeOK'
<1>1. CASE StartRead
  <2>1. PICK keys \in Maps, expected \in Expected : Begin(keys, expected)
    BY <1>1, StartReadBegins DEF DispatchInv
  <2>2. cursor' \in 0..Len(request'.keys) /\ request' # NoRead
    BY <2>1, InputsAssumption DEF Begin, ReaderInv, ReaderTypeOK
  <2> QED
    BY <2>1, <2>2, SizesAssumption
    DEF Begin, DispatchInv, LeafTypeOK, ZeroTls, ZeroMeta, Zeros, NoHash
<1>2. CASE Read
  BY <1>2, ReadIsReadNext, ReadNextTyped DEF DispatchInv
<1>3. CASE Judge
  <2>1. /\ phase' = "idle" /\ request' = request /\ cursor' = cursor /\ rd' = rd
        /\ meta' = meta
        /\ tls'.leaf_hash_ctx = tls.leaf_hash_ctx
        /\ DOMAIN tls'.leaf_script = DOMAIN tls.leaf_script
    BY <1>3, JudgeIsDone DEF DispatchInv, Done
  <2> QED
    BY <2>1 DEF DispatchInv, LeafTypeOK
<1> QED
  BY <1>1, <1>2, <1>3 DEF Next

-----------------------------------------------------------------------------
(* An honest exchange. *)

(* An honest host's supported leaf passes every check at its end.          *)
LEMMA HonestValueAccepted ==
  ASSUME ReaderInv, phase = "streaming", Received, stream.value = Key.value,
         OneLeaf!Readable(Key)
  PROVE  ValueAccepted
<1>1. LengthAcceptable(Len(stream.value))
  BY DEF OneLeaf!Readable, LengthAcceptable
<1>2. rd = RdSoFar /\ tls = TlsSoFar
  BY <1>1 DEF ReaderInv, Streamed
<1> QED
  BY <1>2 DEF ValueAccepted, Received, RdSoFar, TlsSoFar, OneLeaf!Readable

LEMMA ReadIsHonest ==
  ASSUME DispatchInv, Read
  PROVE  HonestSoFar'
<1>0. /\ phase # "idle" /\ request' = request /\ (honest' => honest)
  <2>1. phase # "idle" /\ request' = request
    <3>1. ReadNext
      BY ReadIsReadNext
    <3> QED
      BY <3>1 DEF ReadNext, PassKey, SecondLeaf, OversizedControlBlock, AtKey, OpenStream,
        Deliver, DeliverNothing, StreamEnds, StreamRefused, StreamFails, StreamOver,
        WalkEnds, WalkFails, readerVars
  <2>2. honest' => honest
    <3>1. CASE Opens
      BY <3>1, Zenon DEF Opens
    <3>2. CASE ReadBreaks
      BY <3>2, Zenon DEF ReadBreaks
    <3>3. CASE ReadsOn \/ HostDelivers \/ HostStalls
      BY <3>3, Zenon DEF ReadsOn, HostDelivers, HostStalls
    <3> QED
      BY <3>1, <3>2, <3>3 DEF Read
  <2> QED
    BY <2>1, <2>2
<1> SUFFICES ASSUME honest', NEW j \in DOMAIN request.keys, OnlyLeaf(j)
             PROVE  /\ ~tls'.ambiguous
                    /\ phase' = "streaming" => stream'.value = Key.value'
                    /\ phase' = "done" => cursor' = Len(request'.keys)
                    /\ phase' # "streaming" => (tls'.found <=> cursor' >= j)
                    /\ phase' # "streaming" /\ tls'.found => tls'.leaf_version = Tapscript
  BY <1>0 DEF HonestSoFar, OnlyLeaf
<1>1. /\ ~tls.ambiguous
      /\ phase = "streaming" => stream.value = Key.value
      /\ phase # "streaming" => (tls.found <=> cursor >= j)
      /\ phase # "streaming" /\ tls.found => tls.leaf_version = Tapscript
  BY <1>0 DEF DispatchInv, HonestSoFar
<1>2. /\ j \in 1..Len(request.keys) /\ cursor \in Nat /\ cursor <= Len(request.keys)
      /\ tls \in TlsTypes
  BY <1>0, RequestTyped DEF DispatchInv, ReaderInv, ReaderTypeOK
<1>3. ASSUME cursor < Len(request.keys)
      PROVE  Key.leaf <=> cursor + 1 = j
  BY <1>2, <1>3, RequestTyped, <1>0
  DEF OnlyLeaf, OneLeaf!LeafKeys, Key, DispatchInv, ReaderInv
<1>4. CASE PassKey
  BY <1>1, <1>2, <1>3, <1>4 DEF PassKey, AtKey
<1>5. CASE SecondLeaf
  BY <1>1, <1>2, <1>3, <1>5 DEF SecondLeaf, AtKey
<1>6. CASE OversizedControlBlock
  <2>1. cursor + 1 = j
    BY <1>3, <1>6 DEF OversizedControlBlock, AtKey
  <2>2. Key.control_block <= MaxControlBlock
    BY <2>1 DEF OnlyLeaf, OneLeaf!Readable, Key
  <2>3. Key \in Keys
    BY <1>2, <2>1, RequestTyped, <1>0 DEF DispatchInv, ReaderInv, Key
  <2> QED
    BY <1>6, <2>2, <2>3, SizesAssumption DEF OversizedControlBlock, Keys
<1>7. CASE Opens
  <2>1. PICK value \in {Key.value} \cup Lies :
          OpenStream(value) /\ honest' = (honest /\ value = Key.value)
    BY <1>7 DEF Opens
  <2>2. value = Key.value /\ phase' = "streaming" /\ stream'.value = value /\ Key' = Key
    BY <2>1 DEF OpenStream, Key
  <2>3. tls'.ambiguous = tls.ambiguous
    BY <1>2, <2>1 DEF OpenStream, TlsTypes
  <2> QED
    BY <1>1, <2>2, <2>3
<1>8. CASE HostDelivers
  <2>1. PICK k \in ChunkSizes : Deliver(k)
    BY <1>8 DEF HostDelivers
  <2>2. /\ phase = "streaming" /\ phase' = "streaming" /\ Key' = Key
        /\ stream'.value = stream.value
    BY <2>1 DEF Deliver, Key, DispatchInv, ReaderInv, Streamed
  <2>3. tls'.ambiguous = tls.ambiguous
    BY <1>2, <2>1 DEF Deliver, TlsAfter, TlsTypes
  <2> QED
    BY <1>1, <2>2, <2>3
<1>9. CASE HostStalls
  BY <1>1, <1>9, <1>0 DEF HostStalls, DeliverNothing, readerVars, Key, DispatchInv, HonestSoFar
<1>10. CASE StreamEnds /\ UNCHANGED <<loaded, honest, verdict>>
  <2>1. /\ phase = "streaming" /\ phase' = "walking" /\ cursor' = cursor + 1
        /\ tls' = [tls EXCEPT !.leaf_script_len = rd.script_len]
        /\ ValueAccepted
    BY <1>10 DEF StreamEnds, StreamOver
  <2>2. cursor + 1 = j /\ tls.found
    BY <1>3, <2>1 DEF DispatchInv, ReaderInv, Streamed
  <2> QED
    BY <1>1, <1>2, <2>1, <2>2 DEF ValueAccepted, TlsTypes
<1>11. CASE StreamRefused
  <2>1. /\ phase = "streaming" /\ Received
        /\ stream.value # Key.value \/ ~ValueAccepted
    BY <1>11 DEF StreamRefused
  <2>2. cursor + 1 = j
    BY <1>3, <2>1 DEF DispatchInv, ReaderInv, Streamed
  <2>3. OneLeaf!Readable(Key)
    BY <2>2 DEF OnlyLeaf, Key
  <2> QED
    BY <1>1, <2>1, <2>3, HonestValueAccepted DEF DispatchInv
<1>12. CASE WalkEnds
  BY <1>1, <1>12 DEF WalkEnds
<1>13. CASE ReadBreaks
  BY <1>13 DEF ReadBreaks
<1> QED
  BY <1>4, <1>5, <1>6, <1>7, <1>8, <1>9, <1>10, <1>11, <1>12, <1>13 DEF Read, ReadsOn

LEMMA NextIsHonest ==
  ASSUME DispatchInv, Next
  PROVE  HonestSoFar'
<1>1. CASE StartRead
  <2>1. PICK keys \in Maps, expected \in Expected : Begin(keys, expected)
    BY <1>1, StartReadBegins DEF DispatchInv
  <2>2. \A j \in DOMAIN request'.keys : j >= 1
    BY <2>1, InputsAssumption, LenProperties DEF Begin
  <2>3. tls'.found = FALSE /\ tls'.ambiguous = FALSE /\ cursor' = 0 /\ phase' = "walking"
    BY <2>1 DEF Begin, ZeroTls
  <2>4. ASSUME NEW j \in DOMAIN request'.keys
        PROVE  ~(cursor' >= j)
    <3>1. j \in Nat /\ j >= 1
      BY <2>1, <2>2, <2>4, InputsAssumption, LenProperties DEF Begin
    <3> QED
      BY <2>3, <3>1
  <2> QED
    BY <2>3, <2>4 DEF HonestSoFar
<1>2. CASE Read
  BY <1>2, ReadIsHonest
<1>3. CASE Judge
  BY <1>3, JudgeIsDone DEF DispatchInv, Done, HonestSoFar
<1> QED
  BY <1>1, <1>2, <1>3 DEF Next

-----------------------------------------------------------------------------
(* Theorems. *)

LEMMA InitDispatch == Init => DispatchInv
BY InitInv, SizesAssumption
DEF Init, ReaderInit, DispatchInv, HonestSoFar, LeafTypeOK, ZeroRd, ZeroTls, ZeroMeta,
  Zeros, NoHash

LEMMA StutterDispatch ==
  ASSUME DispatchInv, UNCHANGED vars
  PROVE  DispatchInv'
<1>1. ReaderInv'
  BY StutterInv DEF DispatchInv, vars, readerVars
<1> QED
  BY <1>1 DEF DispatchInv, vars, HonestSoFar, OnlyLeaf, Key, LeafTypeOK

(* What the reader captures, and that an honest exchange finds the leaf,   *)
(* holds at any time of a session (_stream_tap_leaf_value and its callers).*)
THEOREM Dispatch == Spec => []DispatchInv
<1>1. DispatchInv /\ [Next]_vars => DispatchInv'
  <2> SUFFICES ASSUME DispatchInv, [Next]_vars
               PROVE  DispatchInv'
    OBVIOUS
  <2>1. CASE Next
    <3>1. ReaderInv' /\ loaded' \in Intents \cup {NoIntent}
      BY <2>1, NextKeepsReaderInv DEF DispatchInv
    <3> QED
      BY <2>1, <3>1, NextTyped, NextIsHonest DEF DispatchInv
  <2>2. CASE UNCHANGED vars
    BY <2>2, StutterDispatch
  <2> QED
    BY <2>1, <2>2
<1> QED
  BY <1>1, InitDispatch, PTL DEF Spec

(* The bookkeeping of a stream never runs past what was announced, and the *)
(* buffers keep their size, for every host (leaf_stream_ctx_t).            *)
THEOREM TypeCorrect == Spec => []LeafTypeOK
<1>1. DispatchInv => LeafTypeOK
  BY DEF DispatchInv
<1> QED
  BY <1>1, Dispatch, PTL

(* No leaf the device supports is ever refused to a host that sends it as  *)
(* committed, whatever its length and the chunks (_leaf_stream_len_cb,     *)
(* _leaf_stream_data_cb, _stream_tap_leaf_value).                          *)
THEOREM HonestHostIsServed == Spec => []HonestReadSucceeds
<1>1. DispatchInv => HonestReadSucceeds
  <2> SUFFICES ASSUME DispatchInv, phase = "done", honest,
                      OneLeaf!Descriptions(request) # {}
               PROVE  Accepted
    BY DEF HonestReadSucceeds
  <2>1. PICK j : j \in OneLeaf!LeafKeys(request.keys) /\ OnlyLeaf(j)
    BY DEF OneLeaf!Descriptions, OnlyLeaf
  <2>2. j \in DOMAIN request.keys /\ cursor = Len(request.keys) /\ cursor >= j
    BY <2>1, RequestTyped DEF OneLeaf!LeafKeys, DispatchInv, ReaderInv, HonestSoFar
  <2> QED
    BY <2>1, <2>2 DEF DispatchInv, HonestSoFar, Accepted
<1> QED
  BY <1>1, Dispatch, PTL

(* In the hands of its callers too, who overlay what was read once they    *)
(* are done, the reader implements the one-shot read.                      *)
THEOREM RefinesInSession == Spec => ReaderImplementsRead
<1>1. Init => OneLeaf!Init
  BY InitMaps DEF Init
<1>2. DispatchInv /\ [Next]_vars => [OneLeaf!Next]_OneLeaf!vars
  <2> SUFFICES ASSUME DispatchInv, [Next]_vars
               PROVE  OneLeaf!Next \/ UNCHANGED OneLeaf!vars
    OBVIOUS
  <2>1. CASE StartRead
    BY <2>1, StartReadBegins, BeginMaps DEF DispatchInv
  <2>2. CASE Read
    BY <2>2, ReadIsReadNext, ReadNextMaps DEF DispatchInv
  <2>3. CASE Judge
    BY <2>3, JudgeIsDone, DoneMaps DEF DispatchInv
  <2>4. CASE UNCHANGED vars
    BY <2>4 DEF vars, OneLeaf!vars, Outcome, Accepted, FactsRead
  <2> QED
    BY <2>1, <2>2, <2>3, <2>4 DEF Next
<1> QED
  BY <1>1, <1>2, Dispatch, PTL DEF Spec, ReaderImplementsRead, OneLeaf!Spec

-----------------------------------------------------------------------------
(* What is built from an approved intent. *)

LEMMA PublicKeyXonly ==
  ASSUME NEW key \in PublicKeys
  PROVE  Xonly(key) /\ key \in XonlyKeys /\ \A i \in 1..KeyLen : key[i] \in Nat
<1>1. key \in [1..KeyLen -> Nat] /\ KeyLen \in Nat
  <2> DEFINE Octet == 0..255
  <2>1. Octet \subseteq Nat /\ key \in [1..KeyLen -> Octet]
    BY DEF PublicKeys
  <2> HIDE DEF Octet
  <2> QED
    BY <2>1, KeyLenAssumption
<1>2. key \in Seq(Nat) /\ Len(key) = KeyLen
  BY <1>1
<1> QED
  BY <1>1, <1>2 DEF Xonly, XonlyKeys

LEMMA PublicKeysListed ==
  ASSUME NEW keys \in KeyLists
  PROVE  KeyList(keys)
<1>1. keys \in Seq(PublicKeys) /\ keys # <<>>
  BY DEF KeyLists
<1>2. Len(keys) \in Nat /\ DOMAIN keys = 1..Len(keys) /\ Len(keys) # 0
        /\ \A i \in 1..Len(keys) : keys[i] \in PublicKeys
  BY <1>1
<1>3. \A i \in 1..Len(keys) : keys[i] \in XonlyKeys
  BY <1>2, PublicKeyXonly
<1>4. keys \in Seq(XonlyKeys)
  BY <1>1, <1>2, <1>3
<1> QED
  BY <1>2, <1>4, IsKeyList

(* The fields of an approved intent. *)
LEMMA ApprovedFields ==
  ASSUME NEW intent, Approvable(intent)
  PROVE  /\ intent \in VaultIntents
         /\ intent.depositor_pk \in PublicKeys
         /\ intent.keeper_pks \in KeyLists /\ intent.challenger_pks \in KeyLists
         /\ intent.groups \in Seq(VaultGroups)
         /\ \A g \in DOMAIN intent.groups :
              /\ intent.groups[g] \in VaultGroups
              /\ intent.groups[g].vault_provider_pk \in PublicKeys
              /\ intent.groups[g].htlc_vout \in Nat
         /\ DOMAIN intent.groups = 1..Len(intent.groups)
<1>1. /\ intent \in VaultIntents
      /\ intent.depositor_pk \in PublicKeys
      /\ intent.keeper_pks \in KeyLists /\ intent.challenger_pks \in KeyLists
      /\ intent.groups \in Seq(VaultGroups)
  BY DEF Approvable, VaultIntents
<1>2. /\ DOMAIN intent.groups = 1..Len(intent.groups)
      /\ \A g \in 1..Len(intent.groups) : intent.groups[g] \in VaultGroups
  BY <1>1
<1>3. ASSUME NEW group \in VaultGroups
      PROVE  group.vault_provider_pk \in PublicKeys /\ group.htlc_vout \in Nat
  BY DEF VaultGroups
<1> QED
  BY <1>1, <1>2, <1>3

LEMMA ApprovedTimelocks ==
  ASSUME NEW intent, Approvable(intent)
  PROVE  /\ intent.pegin_csv_timelock \in Nat
         /\ intent.payout_timelock \in Nat
         /\ intent.payout_timelock > 90 /\ intent.payout_timelock < 4032
         /\ intent.htlc_refund_timelock \in Nat
         /\ intent.htlc_refund_timelock >= 72 /\ intent.htlc_refund_timelock <= 4320
<1>1. /\ intent.pegin_csv_timelock \in VAULT_TIMELOCK_MIN..VAULT_TIMELOCK_MAX
      /\ intent.payout_timelock \in
           (VAULT_PAYOUT_TIMELOCK_MIN + 1)..(VAULT_PAYOUT_TIMELOCK_MAX - 1)
      /\ intent.htlc_refund_timelock \in
           VAULT_TIMELOCK_MIN..VAULT_HTLC_REFUND_TIMELOCK_MAX
  BY Zenon DEF Approvable, VaultIntents
<1>2. ASSUME NEW x, NEW low \in Nat, NEW high \in Nat, x \in low..high
      PROVE  x \in Nat /\ low <= x /\ x <= high
  BY <1>2
<1>3. /\ VAULT_TIMELOCK_MIN = 72 /\ VAULT_TIMELOCK_MAX = 1008
      /\ VAULT_HTLC_REFUND_TIMELOCK_MAX = 4320
      /\ VAULT_PAYOUT_TIMELOCK_MIN + 1 = 91 /\ VAULT_PAYOUT_TIMELOCK_MAX - 1 = 4031
  BY DEF VAULT_TIMELOCK_MIN, VAULT_TIMELOCK_MAX, VAULT_HTLC_REFUND_TIMELOCK_MAX,
    VAULT_PAYOUT_TIMELOCK_MIN, VAULT_PAYOUT_TIMELOCK_MAX
<1>4. /\ VAULT_TIMELOCK_MIN \in Nat /\ VAULT_TIMELOCK_MAX \in Nat
      /\ VAULT_HTLC_REFUND_TIMELOCK_MAX \in Nat
      /\ VAULT_PAYOUT_TIMELOCK_MIN + 1 \in Nat /\ VAULT_PAYOUT_TIMELOCK_MAX - 1 \in Nat
  BY <1>3
<1>5. intent.pegin_csv_timelock \in Nat
  BY <1>1, <1>2, <1>4
<1>6. intent.payout_timelock \in Nat /\ 91 <= intent.payout_timelock
        /\ intent.payout_timelock <= 4031
  BY <1>1, <1>2, <1>3, <1>4
<1>7. intent.htlc_refund_timelock \in Nat /\ 72 <= intent.htlc_refund_timelock
        /\ intent.htlc_refund_timelock <= 4320
  <2>1. /\ intent.htlc_refund_timelock \in Nat
        /\ VAULT_TIMELOCK_MIN <= intent.htlc_refund_timelock
        /\ intent.htlc_refund_timelock <= VAULT_HTLC_REFUND_TIMELOCK_MAX
    BY <1>1, <1>2, <1>4
  <2> QED
    BY <1>3, <2>1
<1> QED
  BY <1>5, <1>6, <1>7

LEMMA ApprovedBuildable ==
  ASSUME NEW intent, Approvable(intent)
  PROVE  Buildable(intent) /\ ShortTimelock(intent.htlc_refund_timelock)
<1>1. /\ Xonly(intent.depositor_pk)
      /\ KeyList(intent.keeper_pks) /\ KeyList(intent.challenger_pks)
      /\ \A g \in DOMAIN intent.groups : Xonly(intent.groups[g].vault_provider_pk)
  BY ApprovedFields, PublicKeyXonly, PublicKeysListed
<1>2. ShortTimelock(intent.htlc_refund_timelock)
  <2> DEFINE t == intent.htlc_refund_timelock
  <2>1. t \in Nat /\ t >= 72 /\ t <= 4320
    BY ApprovedTimelocks
  <2> HIDE DEF t
  <2>2. t > 16 /\ t <= 32767
    BY <2>1
  <2>3. ShortTimelock(t)
    BY <2>1, <2>2, RefundTimelockShort
  <2> QED
    BY <2>3 DEF t
<1> QED
  BY <1>1, <1>2, ApprovedTimelocks DEF Buildable

(* The first keys of a list are one. *)
LEMMA HeadListed ==
  ASSUME NEW keys, KeyList(keys), NEW n \in DOMAIN keys
  PROVE  KeyList(SubSeq(keys, 1, n))
<1>1. keys \in Seq(XonlyKeys) /\ n \in Nat /\ n # 0 /\ n <= Len(keys)
  BY DEF KeyList
<1>2. SubSeq(keys, 0 + 1, n) \in Seq(XonlyKeys) /\ Len(SubSeq(keys, 0 + 1, n)) = n - 0
  BY <1>1, Stretch
<1>3. SubSeq(keys, 1, n) \in Seq(XonlyKeys) /\ Len(SubSeq(keys, 1, n)) = n
  BY <1>1, <1>2
<1> QED
  BY <1>1, <1>3, IsKeyList

(* The prefix an Assert leaf is compared with, described byte by byte, is  *)
(* what the multisig encoder writes: for every number of keepers and       *)
(* challengers, and keys of every length (vault_assert_prefix_byte against *)
(* encode_multisig_group: "must be mirrored here").                        *)
THEOREM PrefixMirrorsEncoder == Spec => []PrefixGenerated
<1>1. ASSUME DispatchInv PROVE PrefixGenerated
  <2> SUFFICES ASSUME AtFirst,
                      NEW n \in DOMAIN loaded.keeper_pks,
                      NEW m \in DOMAIN loaded.challenger_pks
               PROVE  LET keepers == SubSeq(loaded.keeper_pks, 1, n)
                          challengers == SubSeq(loaded.challenger_pks, 1, m)
                          intent == [loaded EXCEPT !.keeper_pks = keepers,
                                                   !.challenger_pks = challengers]
                      IN  AssertPrefix(intent)
                            = Entry(intent.depositor_pk, OP_CHECKSIGVERIFY)
                                \o MultisigGroup(keepers, FALSE)
                                \o MultisigGroup(challengers, FALSE)
    BY Zenon DEF PrefixGenerated
  <2> DEFINE keepers == SubSeq(loaded.keeper_pks, 1, n)
             challengers == SubSeq(loaded.challenger_pks, 1, m)
             intent == [loaded EXCEPT !.keeper_pks = keepers,
                                      !.challenger_pks = challengers]
  <2>1. Approvable(loaded)
    BY <1>1, IntentsAssumption DEF AtFirst, DispatchInv
  <2>2. /\ loaded \in VaultIntents /\ Xonly(loaded.depositor_pk)
        /\ KeyList(loaded.keeper_pks) /\ KeyList(loaded.challenger_pks)
    BY <2>1, ApprovedFields, ApprovedBuildable DEF Buildable
  <2>3. KeyList(keepers) /\ KeyList(challengers)
    BY <2>2, HeadListed
  <2> HIDE DEF keepers, challengers
  <2>4. /\ intent.depositor_pk = loaded.depositor_pk
        /\ intent.keeper_pks = keepers /\ intent.challenger_pks = challengers
    BY <2>2 DEF VaultIntents
  <2> HIDE DEF intent
  <2>5. AssertPrefix(intent) = SignerPrefix(intent)
    BY <2>2, <2>3, <2>4, PrefixLaid
  <2>6. AssertPrefix(intent) = Entry(intent.depositor_pk, OP_CHECKSIGVERIFY)
                                 \o MultisigGroup(keepers, FALSE)
                                 \o MultisigGroup(challengers, FALSE)
    BY <2>4, <2>5 DEF SignerPrefix
  <2> QED
    BY <2>6 DEF intent, keepers, challengers
<1> QED
  BY <1>1, Dispatch, PTL

(* No two vaults of an intent are pegged in by the same transaction, so    *)
(* the first match of the loop over groups is the only one                 *)
(* (vault_compute_pegin_txid, _validate_payout).                           *)
THEOREM PegInsTold == Spec => []PegInsDistinct
<1>1. ASSUME DispatchInv PROVE PegInsDistinct
  <2> SUFFICES ASSUME AtFirst, NEW g \in DOMAIN loaded.groups,
                      NEW h \in DOMAIN loaded.groups,
                      PegInTxid(loaded, g, MaxScript) = PegInTxid(loaded, h, MaxScript)
               PROVE  g = h
    BY Zenon DEF PegInsDistinct
  <2>1. Approvable(loaded)
    BY <1>1, IntentsAssumption DEF AtFirst, DispatchInv
  <2>2. loaded.groups[g].htlc_vout = loaded.groups[h].htlc_vout
    BY DEF PegInTxid
  <2>3. /\ g \in Nat /\ h \in Nat
        /\ loaded.groups[g].htlc_vout \in Nat
    BY <2>1, ApprovedFields
  <2>4. /\ g < h => loaded.groups[g].htlc_vout < loaded.groups[h].htlc_vout
        /\ h < g => loaded.groups[h].htlc_vout < loaded.groups[g].htlc_vout
    BY <2>1 DEF Approvable
  <2> QED
    BY <2>2, <2>3, <2>4
<1> QED
  BY <1>1, Dispatch, PTL

-----------------------------------------------------------------------------
(* Judgements. *)

(* A judgement comes of a finished read, made for the intent in force.     *)
JudgeInv ==
  /\ DispatchInv
  /\ phase # "idle" =>
       /\ verdict = NoVerdict
       /\ request.expected = IF loaded = NoIntent THEN <<>> ELSE AssertPrefix(loaded)
  /\ phase = "done" /\ ~tls.ambiguous => cursor = Len(request.keys)

LEMMA NextKeepsDispatch ==
  ASSUME DispatchInv, Next
  PROVE  DispatchInv'
<1>1. ReaderInv' /\ loaded' \in Intents \cup {NoIntent}
  BY NextKeepsReaderInv DEF DispatchInv
<1> QED
  BY <1>1, NextTyped, NextIsHonest DEF DispatchInv

(* What becomes of the reader's part while it reads. *)
LEMMA ReadGoesOn ==
  ASSUME JudgeInv, Read
  PROVE  /\ phase # "idle" /\ request' = request /\ loaded' = loaded /\ verdict' = verdict
         /\ phase' = "done" /\ ~tls'.ambiguous => cursor' = Len(request'.keys)
<1>1. loaded' = loaded /\ verdict' = verdict
  BY Zenon DEF Read, ReadsOn, Opens, HostDelivers, HostStalls, ReadBreaks
<1>2. ReadNext
  BY ReadIsReadNext
<1>3. phase # "idle" /\ request' = request
  BY <1>2 DEF ReadNext, PassKey, SecondLeaf, OversizedControlBlock, AtKey, OpenStream,
    Deliver, DeliverNothing, StreamEnds, StreamRefused, StreamFails, StreamOver,
    WalkEnds, WalkFails, readerVars
<1>4. tls \in TlsTypes
  BY <1>3 DEF JudgeInv, DispatchInv, ReaderInv, ReaderTypeOK
<1>5. phase' = "done" /\ ~tls'.ambiguous => cursor' = Len(request'.keys)
  <2>1. CASE WalkFails
    <3>1. tls' = [tls EXCEPT !.ambiguous = TRUE]
      BY <2>1 DEF WalkFails
    <3>2. tls'.ambiguous
      BY <1>4, <3>1 DEF TlsTypes
    <3> QED
      BY <3>2
  <2>2. CASE WalkEnds
    BY <2>2, <1>3 DEF WalkEnds
  <2>3. CASE DeliverNothing
    BY <2>3 DEF DeliverNothing, readerVars, JudgeInv
  <2>4. CASE ~WalkFails /\ ~WalkEnds /\ ~DeliverNothing
    BY <1>2, <2>4 DEF ReadNext, PassKey, SecondLeaf, OversizedControlBlock, AtKey,
      OpenStream, Deliver, StreamEnds, StreamRefused, StreamFails, StreamOver
  <2> QED
    BY <2>1, <2>2, <2>3, <2>4
<1> QED
  BY <1>1, <1>3, <1>5

LEMMA StepJudge ==
  ASSUME JudgeInv, Next
  PROVE  JudgeInv'
<1>1. DispatchInv'
  BY NextKeepsDispatch DEF JudgeInv
<1>2. CASE StartRead
  <2>1. PICK keys \in Maps :
          Begin(keys, IF loaded = NoIntent THEN <<>> ELSE AssertPrefix(loaded))
    BY <1>2 DEF StartRead
  <2>2. /\ phase' = "walking" /\ verdict' = NoVerdict /\ loaded' = loaded
        /\ request'.expected = IF loaded = NoIntent THEN <<>> ELSE AssertPrefix(loaded)
    BY <1>2, <2>1 DEF StartRead, Begin
  <2> QED
    BY <1>1, <2>2 DEF JudgeInv
<1>3. CASE Read
  BY <1>1, <1>3, ReadGoesOn DEF JudgeInv
<1>4. CASE Judge
  <2>1. phase' = "idle"
    BY <1>4, JudgeIsDone DEF JudgeInv, DispatchInv, Done
  <2> QED
    BY <1>1, <2>1 DEF JudgeInv
<1> QED
  BY <1>2, <1>3, <1>4 DEF Next

LEMMA StutterJudge ==
  ASSUME JudgeInv, UNCHANGED vars
  PROVE  JudgeInv'
BY StutterDispatch DEF JudgeInv, vars

(* There is a verdict only of a leaf that was read to the end, and what a  *)
(* read that was accepted left for the validators is the committed leaf:   *)
(* its bytes, its first and last ones, and whether it begins with the      *)
(* expected prefix (validate_and_display_transaction behind a read).       *)
THEOREM Judgements == Spec => []JudgeInv
<1>1. Init => JudgeInv
  BY InitDispatch DEF JudgeInv, Init, ReaderInit
<1>2. JudgeInv /\ [Next]_vars => JudgeInv'
  BY StepJudge, StutterJudge
<1> QED
  BY <1>1, <1>2, PTL DEF Spec

(* What a validator knows of the leaf that was committed to. *)
LeafKnown(script) ==
  /\ script \in Seq(Byte) /\ Len(script) \in Nat /\ Len(script) >= 1
  /\ leaf_len = Len(script)
  /\ meta.buffered <=> Len(script) <= MaxScript
  /\ meta.buffered => Script = script
  /\ meta.last_byte = script[Len(script)]
  /\ meta.prefix = OneLeaf!Padded(script, PrefixLen)
  /\ meta.assert_prefix_ok <=>
       request.expected # <<>> /\ OneLeaf!BeginsWith(script, request.expected)

LEMMA AcceptedLeaf ==
  ASSUME JudgeInv, phase = "done", Accepted
  PROVE  LeafKnown(Committed)
<1>1. ReaderInv /\ cursor = Len(request.keys)
  BY DEF JudgeInv, DispatchInv, Accepted
<1>2. FactsRead \in OneLeaf!Descriptions(request)
  BY <1>1, AcceptedIsDescribed
<1>3. PICK i : /\ OneLeaf!LeafKeys(request.keys) = {i}
               /\ OneLeaf!Readable(request.keys[i])
               /\ FactsRead = OneLeaf!Facts(request.keys[i].value, request.expected)
  BY <1>2 DEF OneLeaf!Descriptions
<1> DEFINE value == request.keys[i].value
           script == OneLeaf!ScriptOf(value)
<1>4. Committed = script
  BY <1>3 DEF Committed
<1>5. i \in DOMAIN request.keys
  BY <1>3 DEF OneLeaf!LeafKeys
<1>6. value \in Seq(Byte)
  <2>1. request.keys \in Seq(Keys)
    BY <1>1, RequestTyped DEF ReaderInv
  <2>2. request.keys[i] \in Keys
    BY <1>5, <2>1
  <2> QED
    BY <2>2 DEF Keys
<1>7. Len(value) \in 2..MaxValue
  BY <1>3 DEF OneLeaf!Readable
<1>8. script \in Seq(Byte) /\ Len(script) = Len(value) - 1
  <2> HIDE DEF value
  <2>1. Len(value) - 1 \in Nat /\ Len(value) - 1 <= Len(value)
    BY <1>7, SizesAssumption
  <2> QED
    BY <1>6, <2>1, HeadBytes DEF OneLeaf!ScriptOf
<1>9. Len(script) \in Nat /\ Len(script) >= 1
  <2> HIDE DEF value, script
  <2> QED
    BY <1>7, <1>8, SizesAssumption
<1>10. FactsRead = OneLeaf!Facts(value, request.expected)
  BY <1>3
<1> HIDE DEF value
<1>11. /\ tls.leaf_script_len = Len(script)
       /\ meta.buffered = (Len(script) <= MaxScript)
       /\ (IF meta.buffered THEN SubSeq(tls.leaf_script, 1, tls.leaf_script_len)
                            ELSE <<>>)
            = IF Len(script) <= MaxScript THEN script ELSE <<>>
       /\ meta.last_byte = script[Len(script)]
       /\ meta.prefix = OneLeaf!Padded(script, PrefixLen)
       /\ meta.assert_prefix_ok
            = (request.expected # <<>> /\ OneLeaf!BeginsWith(script, request.expected))
  BY <1>10, Zenon DEF FactsRead, OneLeaf!Facts
<1> HIDE DEF script
<1>12. LeafKnown(script)
  BY <1>8, <1>9, <1>11 DEF LeafKnown, leaf_len, Script
<1> QED
  BY <1>4, <1>12

-----------------------------------------------------------------------------
(* What tells the leaves of the flows apart. *)

KindOf(script) ==
  IF Len(script) = EntryLen THEN "claim"
  ELSE IF At(script, EntryLen) = OP_SIZE THEN "wc"
  ELSE IF At(script, EntryLen) # OP_PUSHBYTES_32 THEN "refund"
  ELSE IF Len(script) = 2 * EntryLen THEN "nopayout"
  ELSE IF At(script, VAULT_LEAF_GROUP0_OP_OFF) # OP_CHECKSIG THEN "vault_utxo"
  ELSE IF At(script, Len(script) - 1) = OP_CSV THEN "payout"
  ELSE "assert"

(* Both transactions that spend an Assert output carry a payout leaf. *)
LeafOf(flow) == IF flow = "payout_finalize" THEN "payout" ELSE flow

LEMMA Offsets ==
  /\ EntryLen \in Nat /\ EntryLen >= 4 /\ KeyLen \in Nat
  /\ VAULT_LEAF_GROUP0_OP_OFF = EntryLen + 1 + KeyLen
  /\ VAULT_LEAF_GROUP0_OP_OFF + 1 = 2 * EntryLen
  /\ VAULT_NOPAYOUT_LEAF_LEN = 2 * EntryLen
  /\ VAULT_DEPOSITOR_CLAIM_LEAF_LEN = EntryLen
BY EntryLenTyped, KeyLenAssumption
DEF VAULT_LEAF_GROUP0_OP_OFF, VAULT_LEAF_GROUP0_PUSH_OFF, VAULT_NOPAYOUT_LEAF_LEN,
  VAULT_DEPOSITOR_CLAIM_LEAF_LEN

LEMMA KindOfClaim ==
  ASSUME NEW s, ClaimShaped(s)
  PROVE  KindOf(s) = "claim"
BY DEF ClaimShaped, KindOf

LEMMA KindOfRefund ==
  ASSUME NEW s, RefundShaped(s)
  PROVE  KindOf(s) = "refund"
<1>1. Len(s) # EntryLen /\ At(s, EntryLen) # OP_SIZE /\ At(s, EntryLen) # OP_PUSHBYTES_32
  BY EntryLenTyped DEF RefundShaped, OP_SIZE, OP_PUSHBYTES_32
<1> QED
  BY <1>1 DEF KindOf

LEMMA KindOfNoPayout ==
  ASSUME NEW s, NoPayoutShaped(s)
  PROVE  KindOf(s) = "nopayout"
<1>1. /\ Len(s) # EntryLen /\ Len(s) = 2 * EntryLen
      /\ At(s, EntryLen) # OP_SIZE /\ At(s, EntryLen) = OP_PUSHBYTES_32
  BY EntryLenTyped DEF NoPayoutShaped, OP_SIZE, OP_PUSHBYTES_32
<1> QED
  BY <1>1 DEF KindOf

LEMMA KindOfTwoKeys ==
  ASSUME NEW s, NEW opcode, TwoKeysThenCsv(s, opcode)
  PROVE  KindOf(s) = IF opcode = OP_CHECKSIG THEN "payout" ELSE "vault_utxo"
<1>1. /\ Len(s) # EntryLen /\ Len(s) # 2 * EntryLen
      /\ At(s, EntryLen) # OP_SIZE /\ At(s, EntryLen) = OP_PUSHBYTES_32
  BY EntryLenTyped DEF TwoKeysThenCsv, OP_SIZE, OP_PUSHBYTES_32
<1>2. At(s, VAULT_LEAF_GROUP0_OP_OFF) = opcode /\ At(s, Len(s) - 1) = OP_CSV
  BY Offsets DEF TwoKeysThenCsv
<1> QED
  BY <1>1, <1>2 DEF KindOf

(* A leaf that was built for a flow is one of its kind. *)
LEMMA BuiltKind ==
  ASSUME NEW intent \in Intents, NEW flow \in Flows,
         NEW s \in LeavesFor(intent, flow), s # Unbuilt
  PROVE  KindOf(s) = LeafOf(flow)
<1>1. Buildable(intent) /\ ShortTimelock(intent.htlc_refund_timelock)
  BY ApprovedBuildable, IntentsAssumption
<1>2. CASE flow = "claim"
  <2>1. s = DepositorClaimLeaf(intent, MaxScript)
    BY <1>2 DEF LeavesFor
  <2> QED
    BY <1>1, <1>2, <2>1, ClaimLeafShaped, KindOfClaim DEF LeafOf
<1>3. CASE flow = "refund"
  <2>1. s = HtlcLeaf1(intent, MaxScript)
    BY <1>3 DEF LeavesFor
  <2> QED
    BY <1>1, <1>3, <2>1, RefundLeafShaped, KindOfRefund DEF LeafOf
<1>4. CASE flow = "nopayout"
  <2> DEFINE n == Len(intent.keeper_pks)
             m == Len(intent.challenger_pks)
             leaf(i) == NoPayoutLeaf(intent, i, MaxScript)
  <2>1. LeavesFor(intent, flow) = {leaf(i) : i \in 0..(n + m - 1)}
    BY <1>4 DEF LeavesFor
  <2>2. n \in Nat /\ m \in Nat
    BY <1>1 DEF Buildable, KeyList
  <2> HIDE DEF n, m, leaf
  <2>3. PICK i \in 0..(n + m - 1) : s = leaf(i)
    BY <2>1
  <2>4. i \in Nat /\ i < n + m
    BY <2>2
  <2>5. NoPayoutShaped(s)
    BY <1>1, <2>3, <2>4, NoPayoutLeafShaped DEF n, m, leaf
  <2> QED
    BY <1>4, <2>5, KindOfNoPayout DEF LeafOf
<1>5. CASE flow \in {"payout", "payout_finalize"}
  <2>1. PICK g \in DOMAIN intent.groups, c \in 0..(Len(intent.keeper_pks) + 1) :
          s = Assert0PayoutLeaf(intent, g, c, MaxScript)
    BY <1>5 DEF LeavesFor
  <2>2. TwoKeysThenCsv(s, OP_CHECKSIG)
    BY <1>1, <2>1, PayoutLeafLaid, SizesAssumption DEF Claimers
  <2> QED
    BY <1>5, <2>2, KindOfTwoKeys DEF LeafOf
<1>6. CASE flow = "vault_utxo"
  <2>1. PICK g \in DOMAIN intent.groups : s = VaultUtxoLeaf(intent, g, MaxScript)
    BY <1>6 DEF LeavesFor
  <2>2. TwoKeysThenCsv(s, OP_CHECKSIGVERIFY)
    BY <1>1, <2>1, VaultUtxoLeafShaped
  <2>3. OP_CHECKSIGVERIFY # OP_CHECKSIG
    BY DEF OP_CHECKSIGVERIFY, OP_CHECKSIG
  <2> QED
    BY <1>6, <2>2, <2>3, KindOfTwoKeys DEF LeafOf
<1>7. CASE flow \in {"wc", "assert"}
  BY <1>7 DEF LeavesFor
<1> QED
  BY <1>2, <1>3, <1>4, <1>5, <1>6, <1>7 DEF Flows

(* Leaves of one kind are built for the same flows. *)
LEMMA SameKindSameLeaves ==
  ASSUME NEW intent, NEW a \in Flows, NEW b \in Flows, LeafOf(a) = LeafOf(b)
  PROVE  LeavesFor(intent, a) = LeavesFor(intent, b)
<1>1. a = b \/ (a \in {"payout", "payout_finalize"} /\ b \in {"payout", "payout_finalize"})
  BY DEF LeafOf
<1>2. CASE a = b
  BY <1>2
<1>3. CASE a \in {"payout", "payout_finalize"} /\ b \in {"payout", "payout_finalize"}
  BY <1>3 DEF LeavesFor
<1> QED
  BY <1>1, <1>2, <1>3

-----------------------------------------------------------------------------
(* What a verdict was given for. *)

(* The kept prefix shows the bytes a shape is told by. *)
LEMMA PrefixAt ==
  ASSUME NEW s, LeafKnown(s), NEW off \in Nat, off < Len(s),
         off <= VAULT_LEAF_GROUP0_OP_OFF
  PROVE  At(meta.prefix, off) = At(s, off)
<1>1. off + 1 \in 1..PrefixLen
  BY Offsets, LayoutAssumption, SizesAssumption
<1>2. off + 1 <= Len(s)
  BY DEF LeafKnown
<1> QED
  BY <1>1, <1>2 DEF LeafKnown, OneLeaf!Padded, At

LEMMA ShapeTold ==
  /\ ShapeFlow = "claim" => leaf_len = EntryLen
  /\ ShapeFlow = "wc" => leaf_len > EntryLen /\ At(meta.prefix, EntryLen) = OP_SIZE
  /\ ShapeFlow = "assert" =>
       HasAssertShape(meta.prefix, leaf_len, meta.last_byte) /\ meta.assert_prefix_ok
  /\ ShapeFlow = "refund" => leaf_len > EntryLen /\ At(meta.prefix, EntryLen) # OP_SIZE
BY DEF ShapeFlow, VAULT_DEPOSITOR_CLAIM_LEAF_LEN

RefundVerdict(v) ==
  /\ ShapeFlow = "refund" /\ meta.buffered
  /\ \E leaf \in RefundLeaves(Script) :
       RefundTimelockOk(leaf.csv) /\ v = [flow |-> "refund", key |-> leaf.key, csv |-> leaf.csv]

LEMMA LeafVerdictCases ==
  ASSUME NEW v \in LeafVerdicts
  PROVE  \/ ShapeFlow = "assert" /\ v.flow = "assert"
         \/ ShapeFlow = "claim" /\ v.flow = "claim"
         \/ ShapeFlow = "wc" /\ v.flow = "wc"
         \/ RefundVerdict(v)
<1>1. CASE ShapeFlow = "assert"
  <2>1. LeafVerdicts = {[flow |-> "assert", key |-> LeadingKey(meta.prefix)]}
    BY <1>1 DEF LeafVerdicts
  <2> QED
    BY <1>1, <2>1
<1>2. CASE ShapeFlow = "claim" /\ meta.buffered
  <2>1. LeafVerdicts = {[flow |-> "claim", key |-> key] : key \in ClaimLeafKeys(Script)}
    BY <1>2 DEF LeafVerdicts
  <2> QED
    BY <1>2, <2>1
<1>3. CASE ShapeFlow = "wc" /\ meta.buffered /\ IsWCLeaf(Script)
  <2>1. LeafVerdicts = {[flow |-> "wc", key |-> LeadingKey(Script)]}
    BY <1>3 DEF LeafVerdicts
  <2> QED
    BY <1>3, <2>1
<1>4. CASE ShapeFlow = "refund" /\ meta.buffered
  <2>1. LeafVerdicts =
          {[flow |-> "refund", key |-> leaf.key, csv |-> leaf.csv] :
             leaf \in {l \in RefundLeaves(Script) : RefundTimelockOk(l.csv)}}
    BY <1>4 DEF LeafVerdicts
  <2> QED
    BY <1>4, <2>1 DEF RefundVerdict
<1>5. CASE /\ ShapeFlow # "assert" /\ ~(ShapeFlow = "claim" /\ meta.buffered)
           /\ ~(ShapeFlow = "wc" /\ meta.buffered /\ IsWCLeaf(Script))
           /\ ~(ShapeFlow = "refund" /\ meta.buffered)
  <2>1. LeafVerdicts = {}
    BY <1>5 DEF LeafVerdicts
  <2> QED
    BY <2>1
<1> QED
  BY <1>1, <1>2, <1>3, <1>4, <1>5

(* A verdict that is not a refusal is one of those the validator gives.    *)
LEMMA JudgedOf ==
  ASSUME NEW of, NEW verdicts, Judged(Refused(of), verdicts),
         verdict'.flow # "refused"
  PROVE  verdict' \in verdicts
BY DEF Judged, Refused

(* What stands behind the key of a refund leaf is no second key. *)
LEMMA RefundOperand ==
  ASSUME NEW s, NEW leaf \in RefundLeaves(s)
  PROVE  At(s, EntryLen) # OP_PUSHBYTES_32
<1>1. PICK p \in OperandPushed(s) : TRUE
  BY DEF RefundLeaves
<1> SUFFICES ASSUME At(s, EntryLen) = OP_PUSHBYTES_32
             PROVE  FALSE
  OBVIOUS
<1>2. OperandPushed(s) = NumberPushed(s, EntryLen + 1, 32)
  <2>1. /\ 32 \in OP_PUSHBYTES_1..OP_PUSHBYTES_75
        /\ 32 # OP_PUSHDATA1 /\ 32 \notin OP_1..OP_16
        /\ At(s, EntryLen) = 32
    BY DEF OP_PUSHBYTES_32, OP_PUSHBYTES_1, OP_PUSHBYTES_75, OP_PUSHDATA1, OP_1, OP_16
  <2> QED
    BY <2>1 DEF OperandPushed
<1>3. NumberPushed(s, EntryLen + 1, 32) = {}
  BY DEF NumberPushed, SCRIPT_NUM_MAX_LEN
<1> QED
  BY <1>1, <1>2, <1>3

LEMMA JudgeLeafKind ==
  ASSUME JudgeInv, JudgeLeaf, verdict'.flow # "refused"
  PROVE  KindOf(Committed) = verdict'.flow
<1> DEFINE s == Committed
           v == verdict'
<1> SUFFICES KindOf(s) = v.flow
  OBVIOUS
<1>1. LeafKnown(s)
  BY AcceptedLeaf DEF JudgeLeaf, Judging, Done
<1>2. v \in LeafVerdicts
  BY JudgedOf DEF JudgeLeaf
<1>3. leaf_len = Len(s) /\ Len(s) \in Nat
  BY <1>1 DEF LeafKnown
<1> HIDE DEF s, v
<1>4. CASE ShapeFlow = "claim" /\ v.flow = "claim"
  BY <1>3, <1>4, ShapeTold DEF KindOf
<1>5. CASE ShapeFlow = "wc" /\ v.flow = "wc"
  <2>1. Len(s) > EntryLen /\ At(meta.prefix, EntryLen) = OP_SIZE
    BY <1>3, <1>5, ShapeTold
  <2>2. At(s, EntryLen) = OP_SIZE
    BY <1>1, <1>3, <2>1, PrefixAt, Offsets
  <2> QED
    BY <1>3, <1>5, <2>1, <2>2, Offsets DEF KindOf
<1>6. CASE ShapeFlow = "assert" /\ v.flow = "assert"
  <2>1. HasAssertShape(meta.prefix, Len(s), s[Len(s)])
    BY <1>1, <1>3, <1>6, ShapeTold DEF LeafKnown
  <2>2. /\ Len(s) > 2 * EntryLen
        /\ At(meta.prefix, EntryLen) = OP_PUSHBYTES_32
        /\ At(meta.prefix, VAULT_LEAF_GROUP0_OP_OFF) = OP_CHECKSIG
        /\ s[Len(s)] = OP_TRUE
    BY <2>1, Offsets DEF HasAssertShape, OpensIntoSignerGroup, VAULT_LEAF_GROUP0_PUSH_OFF
  <2>3. At(s, EntryLen) = OP_PUSHBYTES_32
    BY <1>1, <1>3, <2>2, PrefixAt, Offsets
  <2>4. At(s, VAULT_LEAF_GROUP0_OP_OFF) = OP_CHECKSIG
    <3>1. VAULT_LEAF_GROUP0_OP_OFF \in Nat /\ VAULT_LEAF_GROUP0_OP_OFF < Len(s)
      BY <1>3, <2>2, Offsets
    <3> QED
      BY <1>1, <2>2, <3>1, PrefixAt
  <2>5. At(s, Len(s) - 1) = OP_TRUE
    BY <1>3, <2>2 DEF At
  <2>6. OP_TRUE # OP_CSV /\ OP_PUSHBYTES_32 # OP_SIZE
    BY DEF OP_TRUE, OP_1, OP_CSV, OP_PUSHBYTES_32, OP_SIZE
  <2>7. Len(s) # EntryLen /\ Len(s) # 2 * EntryLen
    BY <1>3, <2>2, Offsets
  <2> QED
    BY <1>6, <2>3, <2>4, <2>5, <2>6, <2>7 DEF KindOf
<1>7. CASE RefundVerdict(v)
  <2>1. v.flow = "refund" /\ ShapeFlow = "refund" /\ Script = s
    BY <1>1, <1>7 DEF RefundVerdict, LeafKnown
  <2>2. At(s, EntryLen) # OP_PUSHBYTES_32
    BY <1>7, <2>1, RefundOperand DEF RefundVerdict
  <2>3. Len(s) > EntryLen /\ At(s, EntryLen) # OP_SIZE
    <3>1. Len(s) > EntryLen /\ At(meta.prefix, EntryLen) # OP_SIZE
      BY <1>3, <2>1, ShapeTold
    <3> QED
      BY <1>1, <1>3, <3>1, PrefixAt, Offsets
  <2> QED
    BY <1>3, <2>1, <2>2, <2>3, Offsets DEF KindOf
<1> QED
  BY <1>2, <1>4, <1>5, <1>6, <1>7, LeafVerdictCases

LEMMA JudgePayoutFinalizeKind ==
  ASSUME JudgeInv, JudgePayoutFinalize, verdict'.flow # "refused"
  PROVE  verdict'.flow = "payout_finalize" /\ KindOf(Committed) = "payout"
<1> DEFINE s == Committed
<1>1. LeafKnown(s)
  BY AcceptedLeaf DEF JudgePayoutFinalize, Judging, Done
<1>2. verdict' \in PayoutFinalizeVerdicts
  BY JudgedOf DEF JudgePayoutFinalize
<1>3. meta.buffered /\ verdict'.flow = "payout_finalize" /\ PayoutLeaves(Script) # {}
  BY <1>2 DEF PayoutFinalizeVerdicts
<1>4. Script = s /\ Len(s) \in Nat
  BY <1>1, <1>3 DEF LeafKnown
<1> HIDE DEF s
<1>5. OpensIntoSignerGroup(s, Len(s)) /\ At(s, Len(s) - 1) = OP_CSV
  BY <1>3, <1>4 DEF PayoutLeaves
<1>6. /\ Len(s) > 2 * EntryLen
      /\ At(s, EntryLen) = OP_PUSHBYTES_32
      /\ At(s, VAULT_LEAF_GROUP0_OP_OFF) = OP_CHECKSIG
  BY <1>5, Offsets DEF OpensIntoSignerGroup, VAULT_LEAF_GROUP0_PUSH_OFF
<1>7. Len(s) # EntryLen /\ Len(s) # 2 * EntryLen /\ OP_PUSHBYTES_32 # OP_SIZE
  BY <1>4, <1>6, Offsets DEF OP_PUSHBYTES_32, OP_SIZE
<1>8. KindOf(s) = "payout"
  BY <1>5, <1>6, <1>7 DEF KindOf
<1> QED
  BY <1>3, <1>8 DEF s

LEMMA JudgeNoPayoutKind ==
  ASSUME JudgeInv, JudgeNoPayout, verdict'.flow # "refused"
  PROVE  verdict'.flow = "nopayout" /\ KindOf(Committed) = "nopayout"
<1> DEFINE s == Committed
<1>1. LeafKnown(s)
  BY AcceptedLeaf DEF JudgeNoPayout, Judging, Done
<1>2. verdict' \in NoPayoutVerdicts
  BY JudgedOf DEF JudgeNoPayout
<1>3. meta.buffered /\ verdict'.flow = "nopayout" /\ NoPayoutLeaves(Script) # {}
  BY <1>2 DEF NoPayoutVerdicts
<1>4. Script = s /\ Len(s) \in Nat
  BY <1>1, <1>3 DEF LeafKnown
<1> HIDE DEF s
<1>5. Len(s) = 2 * EntryLen /\ At(s, EntryLen) = OP_PUSHBYTES_32
  BY <1>3, <1>4, Offsets DEF NoPayoutLeaves
<1>6. Len(s) # EntryLen /\ OP_PUSHBYTES_32 # OP_SIZE
  BY <1>4, <1>5, Offsets DEF OP_PUSHBYTES_32, OP_SIZE
<1>7. KindOf(s) = "nopayout"
  BY <1>5, <1>6 DEF KindOf
<1> QED
  BY <1>3, <1>7 DEF s

-----------------------------------------------------------------------------
(* The claimer of a Payout. *)

LEMMA KeepersTold ==
  ASSUME NEW keys \in KeyLists, Ascending(keys),
         NEW i \in DOMAIN keys, NEW j \in DOMAIN keys, keys[i] = keys[j]
  PROVE  i = j
<1>1. i \in Nat /\ j \in Nat
  BY DEF KeyLists
<1>2. \A k \in DOMAIN keys : keys[k] \in PublicKeys
  BY DEF KeyLists
<1>3. ~Precedes(keys[i], keys[i])
  BY <1>2, PublicKeyXonly DEF Precedes
<1>4. ~(i < j) /\ ~(j < i)
  BY <1>3 DEF Ascending
<1> QED
  BY <1>1, <1>4

LEMMA ClaimerPkCases ==
  ASSUME NEW intent, Approvable(intent), NEW g, NEW c \in Claimers(intent)
  PROVE  LET n == Len(intent.keeper_pks)
         IN  /\ n \in Nat /\ DOMAIN intent.keeper_pks = 1..n
             /\ c \in Nat
             /\ \/ c = 0 /\ ClaimerPk(intent, g, c) = intent.groups[g].vault_provider_pk
                \/ c \in 1..n /\ ClaimerPk(intent, g, c) = intent.keeper_pks[c]
                \/ c = n + 1 /\ ClaimerPk(intent, g, c) = intent.depositor_pk
<1> DEFINE n == Len(intent.keeper_pks)
<1>1. n \in Nat /\ DOMAIN intent.keeper_pks = 1..n
  BY ApprovedFields DEF KeyLists
<1>2. c \in Nat /\ c <= n + 1
  BY <1>1 DEF Claimers
<1>3. CASE c = 0
  BY <1>1, <1>3 DEF ClaimerPk
<1>4. CASE c = n + 1
  BY <1>1, <1>4 DEF ClaimerPk
<1>5. CASE c # 0 /\ c # n + 1
  <2>1. c \in 1..n
    BY <1>1, <1>2, <1>5
  <2> QED
    BY <1>1, <1>5, <2>1 DEF ClaimerPk
<1> QED
  BY <1>1, <1>2, <1>3, <1>4, <1>5

(* Nobody is in two roles. *)
LEMMA ClaimersTold ==
  ASSUME NEW intent, Approvable(intent), NEW g \in DOMAIN intent.groups,
         NEW c \in Claimers(intent), NEW d \in Claimers(intent),
         ClaimerPk(intent, g, c) = ClaimerPk(intent, g, d)
  PROVE  c = d
<1> DEFINE keepers == intent.keeper_pks
           provider == intent.groups[g].vault_provider_pk
           depositor == intent.depositor_pk
           n == Len(keepers)
<1>1. keepers \in KeyLists /\ Ascending(keepers)
  BY ApprovedFields DEF Approvable
<1>2. depositor \notin Range(keepers) /\ provider \notin Range(keepers)
        /\ provider # depositor
  BY DEF Approvable
<1>3. /\ DOMAIN keepers = 1..n
      /\ \/ c = 0 /\ ClaimerPk(intent, g, c) = provider
         \/ c \in 1..n /\ ClaimerPk(intent, g, c) = keepers[c]
         \/ c = n + 1 /\ ClaimerPk(intent, g, c) = depositor
  BY ClaimerPkCases
<1>4. \/ d = 0 /\ ClaimerPk(intent, g, d) = provider
      \/ d \in 1..n /\ ClaimerPk(intent, g, d) = keepers[d]
      \/ d = n + 1 /\ ClaimerPk(intent, g, d) = depositor
  BY ClaimerPkCases
<1> HIDE DEF keepers, provider, depositor, n
<1>5. \A i \in 1..n : keepers[i] # provider /\ keepers[i] # depositor
  BY <1>2, <1>3 DEF Range
<1>6. \A i, j \in 1..n : keepers[i] = keepers[j] => i = j
  BY <1>1, <1>3, KeepersTold
<1> QED
  BY <1>2, <1>3, <1>4, <1>5, <1>6

LEMMA LeastOf ==
  ASSUME NEW X \in SUBSET Nat, NEW x \in X
  PROVE  Min(X) \in X
<1>1. PICK n \in X : \A m \in X : n <= m
  BY LeastExists
<1> QED
  BY <1>1 DEF Min

(* The leaf that is rebuilt is as long as the layout allows for.           *)
LEMMA RebuiltFits ==
  ASSUME loaded \in Intents, NEW g \in DOMAIN loaded.groups,
         NEW c \in Claimers(loaded),
         Assert0PayoutLeaf(loaded, g, c, MaxScript) # Unbuilt
  PROVE  LET leaf == Assert0PayoutLeaf(loaded, g, c, MaxScript)
         IN  /\ TwoKeysThenCsv(leaf, OP_CHECKSIG)
             /\ LeadingKey(leaf) = ClaimerPk(loaded, g, c)
             /\ Len(leaf) \in Nat
             /\ Len(leaf) <= MaxScript /\ Len(leaf) <= ActualBufAt
<1> DEFINE leaf == Assert0PayoutLeaf(loaded, g, c, MaxScript)
           n == Len(loaded.keeper_pks)
           m == Len(loaded.challenger_pks)
<1>1. Buildable(loaded) /\ n \in Nat /\ m \in Nat
  <2>1. Buildable(loaded)
    BY IntentsAssumption, ApprovedBuildable
  <2> QED
    BY <2>1 DEF Buildable, KeyList
<1>2. /\ TwoKeysThenCsv(leaf, OP_CHECKSIG)
      /\ LeadingKey(leaf) = ClaimerPk(loaded, g, c)
      /\ Len(leaf) <= MaxScript
      /\ Len(leaf) <= EntryLen * (1 + n + m) + 15
  BY <1>1, PayoutLeafLaid, SizesAssumption
<1>3. EntryLen * (1 + n + m) + 18 <= ActualBufAt
  BY LayoutAssumption
<1>4. Len(leaf) \in Nat
  BY <1>2 DEF TwoKeysThenCsv
<1> DEFINE entries == EntryLen * (1 + n + m)
<1>5. entries \in Nat
  <2> DEFINE k == 1 + n + m
  <2>1. EntryLen \in Nat /\ k \in Nat /\ k <= k
    <3> HIDE DEF n, m
    <3> QED
      BY <1>1, EntryLenTyped
  <2> HIDE DEF k
  <2>2. EntryLen * k \in Nat
    BY <2>1, BlockEnds
  <2> QED
    BY <2>2 DEF k
<1> SUFFICES /\ TwoKeysThenCsv(leaf, OP_CHECKSIG)
             /\ LeadingKey(leaf) = ClaimerPk(loaded, g, c)
             /\ Len(leaf) \in Nat
             /\ Len(leaf) <= MaxScript /\ Len(leaf) <= ActualBufAt
  OBVIOUS
<1>6. Len(leaf) <= entries + 15 /\ entries + 18 <= ActualBufAt
  BY <1>2, <1>3
<1> HIDE DEF leaf, entries
<1>7. Len(leaf) <= ActualBufAt
  BY <1>4, <1>5, <1>6, LayoutAssumption
<1> QED
  BY <1>2, <1>4, <1>7

(* A leaf that was kept is at the start of the buffer. *)
LEMMA KeptBytes ==
  ASSUME NEW s, LeafKnown(s), meta.buffered, tls \in TlsTypes
  PROVE  /\ Len(s) \in Nat /\ Len(s) <= MaxScript
         /\ tls.leaf_script \in Seq(Byte) /\ Len(tls.leaf_script) = MaxScript
         /\ \A i \in 1..Len(s) : tls.leaf_script[i] = s[i]
<1> DEFINE buffer == tls.leaf_script
           n == Len(s)
<1>1. n \in Nat /\ n <= MaxScript /\ SubSeq(buffer, 1, n) = s
  BY DEF LeafKnown, Script, leaf_len
<1>2. buffer \in Seq(Byte) /\ Len(buffer) = MaxScript
  BY SizesAssumption DEF TlsTypes
<1> HIDE DEF buffer
<1>3. \A i \in 1..n : SubSeq(buffer, 1, n)[i] = buffer[i]
  BY <1>1, <1>2, HeadBytes
<1> QED
  BY <1>1, <1>2, <1>3 DEF buffer

LEMMA LeadingKeyKept ==
  ASSUME NEW s, LeafKnown(s), meta.buffered, tls \in TlsTypes, Len(s) >= EntryLen
  PROVE  /\ LeadingKey(tls.leaf_script) = LeadingKey(s)
         /\ At(tls.leaf_script, 0) = At(s, 0)
<1> DEFINE buffer == tls.leaf_script
           a == SubSeq(buffer, 2, KeyLen + 1)
           b == SubSeq(s, 2, KeyLen + 1)
<1>1. /\ Len(s) \in Nat /\ Len(s) <= Len(buffer)
      /\ buffer \in Seq(Byte) /\ s \in Seq(Byte)
      /\ \A i \in 1..Len(s) : buffer[i] = s[i]
  BY KeptBytes DEF LeafKnown
<1>2. KeyLen + 1 \in Nat /\ KeyLen + 1 < Len(s) /\ KeyLen \in Nat
  BY <1>1, Offsets, EntryLenTyped
<1> HIDE DEF buffer
<1>3. /\ a \in Seq(Byte) /\ Len(a) = KeyLen
      /\ \A k \in 1..KeyLen : a[k] = buffer[1 + k]
  <2>1. KeyLen + 1 <= Len(buffer) /\ 1 <= KeyLen + 1 /\ 1 + 1 = 2 /\ (KeyLen + 1) - 1 = KeyLen
    BY <1>1, <1>2
  <2> QED
    BY <1>1, <1>2, <2>1, Stretch
<1>4. /\ b \in Seq(Byte) /\ Len(b) = KeyLen
      /\ \A k \in 1..KeyLen : b[k] = s[1 + k]
  <2>1. KeyLen + 1 <= Len(s) /\ 1 <= KeyLen + 1 /\ 1 + 1 = 2 /\ (KeyLen + 1) - 1 = KeyLen
    BY <1>1, <1>2
  <2> QED
    BY <1>1, <1>2, <2>1, Stretch
<1>5. \A k \in 1..KeyLen : buffer[1 + k] = s[1 + k]
  BY <1>1, <1>2
<1>6. buffer[1] = s[1]
  BY <1>1, <1>2
<1> HIDE DEF a, b
<1>7. a = b
  BY <1>3, <1>4, <1>5, SeqEqual
<1>8. LeadingKey(buffer) = a /\ LeadingKey(s) = b
  BY <1>2 DEF LeadingKey, Slice, a, b
<1> QED
  BY <1>6, <1>7, <1>8 DEF At, buffer

LEMMA BytesAreNumbers ==
  ASSUME NEW s \in Seq(Byte)
  PROVE  s \in Seq(Nat) /\ \A i \in 1..Len(s) : s[i] \in Nat /\ s[i] <= 255
<1>1. \A i \in 1..Len(s) : s[i] \in Byte
  BY ElementOfSeq
<1>2. \A byte \in Byte : byte \in Nat /\ byte <= 255
  BY BytesAssumption
<1>3. \A i \in 1..Len(s) : s[i] \in Nat
  BY <1>1, <1>2
<1>4. Len(s) \in Nat /\ s = [i \in 1..Len(s) |-> s[i]]
  BY LenProperties
<1>5. s \in Seq(Nat)
  BY <1>3, <1>4
<1> QED
  BY <1>1, <1>2, <1>5

(* Rebuilding a leaf that fits leaves the one that was read alone. *)
LEMMA OverlaidBehind ==
  ASSUME NEW buffer \in Seq(Byte), NEW leaf \in Seq(Nat), NEW n \in Nat,
         n <= Len(buffer), n <= ActualBufAt
  PROVE  SubSeq(Overlaid(buffer, leaf), 1, n) = SubSeq(buffer, 1, n)
<1> DEFINE over == Overlaid(buffer, leaf)
           a == SubSeq(over, 0 + 1, n)
           b == SubSeq(buffer, 0 + 1, n)
<1>1. \A i \in 1..Len(buffer) : buffer[i] \in Nat
  BY BytesAreNumbers
<1>2. DOMAIN over = 1..Len(buffer) /\ Len(buffer) \in Nat
  BY DEF Overlaid
<1>3. ASSUME NEW i \in 1..Len(buffer)
      PROVE  over[i] \in Nat /\ (i <= ActualBufAt => over[i] = buffer[i])
  <2>1. buffer[i] \in Nat
    BY <1>1, <1>3
  <2>2. CASE i > ActualBufAt /\ i <= ActualBufAt + Len(leaf)
    <3>1. over[i] = leaf[i - ActualBufAt]
      BY <1>2, <2>2 DEF Overlaid
    <3>2. i - ActualBufAt \in 1..Len(leaf)
      BY <1>2, <2>2, LayoutAssumption
    <3>3. leaf[i - ActualBufAt] \in Nat
      BY <3>2
    <3> QED
      BY <1>2, <2>2, <3>1, <3>3, LayoutAssumption
  <2>3. CASE ~(i > ActualBufAt /\ i <= ActualBufAt + Len(leaf))
    BY <1>2, <2>1, <2>3 DEF Overlaid
  <2> QED
    BY <2>2, <2>3
<1>4. over \in Seq(Nat) /\ Len(over) = Len(buffer)
  <2>1. over = [i \in 1..Len(buffer) |-> over[i]]
    BY <1>2 DEF Overlaid
  <2> HIDE DEF over
  <2> QED
    BY <1>2, <1>3, <2>1
<1> HIDE DEF over
<1>5. a \in Seq(Nat) /\ Len(a) = n /\ \A k \in 1..n : a[k] = over[k]
  <2>1. 0 <= n /\ n <= Len(over) /\ n - 0 = n /\ \A k \in 1..n : 0 + k = k
    BY <1>2, <1>4
  <2> QED
    BY <1>4, <2>1, Stretch
<1>6. b \in Seq(Byte) /\ Len(b) = n /\ \A k \in 1..n : b[k] = buffer[k]
  BY HeadBytes
<1>7. \A k \in 1..n : over[k] = buffer[k]
  BY <1>2, <1>3, LayoutAssumption
<1>8. b \in Seq(Nat)
  <2> HIDE DEF b
  <2> QED
    BY <1>6, BytesAreNumbers
<1> HIDE DEF a, b
<1>9. a = b
  BY <1>5, <1>6, <1>7, <1>8, SeqEqual
<1> QED
  BY <1>9 DEF a, b, over

(* The leaf of claimer d, where it can be built, is told by its key. *)
LEMMA LeafOfClaimer ==
  ASSUME JudgeInv, phase = "done", Accepted, loaded \in Intents,
         NEW g \in DOMAIN loaded.groups, NEW d \in Claimers(loaded),
         Committed = Assert0PayoutLeaf(loaded, g, d, MaxScript)
  PROVE  LeadingKeyReadable /\ ClaimersWithKey(g) = {d}
<1> DEFINE s == Committed
<1>1. LeafKnown(s)
  BY AcceptedLeaf
<1>2. s # Unbuilt
  <2> HIDE DEF s
  <2> QED
    BY <1>1 DEF LeafKnown, Unbuilt
<1>3. /\ TwoKeysThenCsv(s, OP_CHECKSIG)
      /\ LeadingKey(s) = ClaimerPk(loaded, g, d)
      /\ Len(s) \in Nat /\ Len(s) <= MaxScript
  BY <1>2, RebuiltFits
<1>4. tls \in TlsTypes
  BY DEF JudgeInv, DispatchInv, ReaderInv, ReaderTypeOK
<1> HIDE DEF s
<1>5. meta.buffered /\ leaf_len = Len(s) /\ Len(s) >= EntryLen /\ At(s, 0) = OP_PUSHBYTES_32
  BY <1>1, <1>3, Offsets DEF LeafKnown, TwoKeysThenCsv, OpensWith
<1>6. LeadingKey(tls.leaf_script) = LeadingKey(s) /\ At(tls.leaf_script, 0) = At(s, 0)
  BY <1>1, <1>4, <1>5, LeadingKeyKept
<1>7. LeadingKeyReadable
  BY <1>5, <1>6 DEF LeadingKeyReadable
<1>8. d \in ClaimersWithKey(g)
  BY <1>3, <1>6 DEF ClaimersWithKey, Claimers
<1>9. ASSUME NEW c \in ClaimersWithKey(g)
      PROVE  c = d
  <2>1. c \in Claimers(loaded) /\ ClaimerPk(loaded, g, c) = ClaimerPk(loaded, g, d)
    BY <1>3, <1>6, <1>9 DEF ClaimersWithKey, Claimers
  <2> QED
    BY <2>1, ClaimersTold, IntentsAssumption
<1> QED
  BY <1>7, <1>8, <1>9

(* Comparing with the leaf that was rebuilt over the buffer is comparing   *)
(* the leaf that was read.                                                 *)
LEMMA ComparedExactly ==
  ASSUME JudgeInv, phase = "done", Accepted, loaded \in Intents, LeadingKeyReadable,
         NEW g \in DOMAIN loaded.groups, NEW c \in Claimers(loaded)
  PROVE  LET leaf == Assert0PayoutLeaf(loaded, g, c, MaxScript)
         IN  SameLeaf(Overlaid(tls.leaf_script, leaf), leaf) <=> Committed = leaf
<1> DEFINE leaf == Assert0PayoutLeaf(loaded, g, c, MaxScript)
           s == Committed
           buffer == tls.leaf_script
           n == Len(leaf)
<1> SUFFICES SameLeaf(Overlaid(buffer, leaf), leaf) <=> s = leaf
  OBVIOUS
<1>1. LeafKnown(s) /\ meta.buffered
  BY AcceptedLeaf DEF LeadingKeyReadable
<1>2. tls \in TlsTypes
  BY DEF JudgeInv, DispatchInv, ReaderInv, ReaderTypeOK
<1>3. /\ s # Unbuilt /\ leaf_len = Len(s) /\ Len(s) \in Nat /\ Len(s) <= Len(buffer)
      /\ buffer \in Seq(Byte) /\ SubSeq(buffer, 1, leaf_len) = s
  <2>1. /\ leaf_len = Len(s) /\ SubSeq(buffer, 1, leaf_len) = s /\ Len(s) >= 1
    BY <1>1 DEF LeafKnown, Script
  <2>2. /\ Len(s) \in Nat /\ Len(s) <= Len(buffer) /\ buffer \in Seq(Byte)
    BY <1>1, <1>2, KeptBytes
  <2>3. s # Unbuilt
    <3> HIDE DEF s
    <3> QED
      BY <2>1, <2>2 DEF Unbuilt
  <2> QED
    BY <2>1, <2>2, <2>3
<1>4. CASE leaf = Unbuilt
  BY <1>3, <1>4 DEF SameLeaf
<1>5. CASE leaf # Unbuilt
  <2>1. leaf \in Seq(Nat) /\ n \in Nat /\ n <= ActualBufAt
    BY <1>5, RebuiltFits DEF TwoKeysThenCsv
  <2> HIDE DEF leaf, s, buffer
  <2>2. n = leaf_len => SubSeq(Overlaid(buffer, leaf), 1, n) = s
    BY <1>3, <2>1, OverlaidBehind
  <2> QED
    BY <1>3, <1>5, <2>1, <2>2 DEF SameLeaf
<1> QED
  BY <1>4, <1>5

(* What _validate_payout makes of the leaf. *)
LEMMA PayoutJudged ==
  ASSUME JudgeInv, loaded \in Intents, NEW g \in DOMAIN loaded.groups,
         JudgeStrangersPayout(g) \/ JudgePayout(g)
  PROVE  \/ /\ verdict'.flow = "payout" /\ verdict'.group = g
            /\ verdict'.claimer \in Claimers(loaded)
            /\ Committed = Assert0PayoutLeaf(loaded, g, verdict'.claimer, MaxScript)
         \/ /\ verdict'.flow = "refused" /\ verdict'.group = g
            /\ \A d \in Claimers(loaded) :
                 Committed # Assert0PayoutLeaf(loaded, g, d, MaxScript)
<1>1. phase = "done" /\ Accepted
  BY DEF JudgeStrangersPayout, JudgePayout, Judging, Done
<1>2. CASE JudgeStrangersPayout(g)
  <2>1. verdict'.flow = "refused" /\ verdict'.group = g
    BY <1>2 DEF JudgeStrangersPayout, PayoutRefused
  <2>2. ~LeadingKeyReadable \/ ClaimersWithKey(g) = {}
    BY <1>2 DEF JudgeStrangersPayout
  <2>3. ASSUME NEW d \in Claimers(loaded),
               Committed = Assert0PayoutLeaf(loaded, g, d, MaxScript)
        PROVE  FALSE
    BY <1>1, <2>2, <2>3, LeafOfClaimer
  <2> QED
    BY <2>1, <2>3
<1>3. CASE JudgePayout(g)
  <2> DEFINE c == Min(ClaimersWithKey(g))
             leaf == Assert0PayoutLeaf(loaded, g, c, MaxScript)
             found == [flow |-> "payout", group |-> g, claimer |-> c]
  <2>1. c \in Claimers(loaded)
    <3>1. ClaimersWithKey(g) # {} /\ ClaimersWithKey(g) \in SUBSET Claimers(loaded)
      BY <1>3 DEF JudgePayout, ClaimersWithKey, Claimers
    <3>2. Claimers(loaded) \in SUBSET Nat
      BY DEF Claimers
    <3> QED
      BY <3>1, <3>2, LeastOf
  <2>2. tls'.leaf_script = Overlaid(tls.leaf_script, leaf)
    <3>1. tls \in TlsTypes
      BY <1>1 DEF JudgeInv, DispatchInv, ReaderInv, ReaderTypeOK
    <3>2. tls' = [tls EXCEPT !.leaf_script = Overlaid(tls.leaf_script, Rebuilt(g))]
      BY <1>3 DEF JudgePayout
    <3> QED
      BY <3>1, <3>2 DEF TlsTypes, Rebuilt
  <2>3. SameLeaf(tls'.leaf_script, leaf) <=> Committed = leaf
    <3>1. LeadingKeyReadable
      BY <1>3 DEF JudgePayout
    <3> QED
      BY <1>1, <2>1, <2>2, <3>1, ComparedExactly
  <2>4. verdict' \in IF SameLeaf(tls'.leaf_script, leaf) THEN {found}
                     ELSE {PayoutRefused(g)}
    BY <1>3 DEF JudgePayout, Judged, Rebuilt
  <2>5. CASE Committed = leaf
    <3>1. verdict' = found
      BY <2>3, <2>4, <2>5
    <3>2. verdict'.flow = "payout" /\ verdict'.group = g /\ verdict'.claimer = c
      BY <3>1
    <3> QED
      BY <2>1, <2>5, <3>2
  <2>6. CASE Committed # leaf
    <3>1. verdict'.flow = "refused" /\ verdict'.group = g
      BY <2>3, <2>4, <2>6 DEF PayoutRefused
    <3>2. ASSUME NEW d \in Claimers(loaded),
                 Committed = Assert0PayoutLeaf(loaded, g, d, MaxScript)
          PROVE  FALSE
      <4>1. ClaimersWithKey(g) = {d} /\ c \in ClaimersWithKey(g)
        <5>1. ClaimersWithKey(g) = {d}
          BY <1>1, <3>2, LeafOfClaimer
        <5>2. d \in Nat
          BY DEF Claimers
        <5>3. {d} \in SUBSET Nat /\ d \in {d}
          BY <5>2
        <5>4. Min({d}) \in {d}
          BY <5>3, LeastOf
        <5> QED
          BY <5>1, <5>4
      <4> QED
        BY <2>6, <3>2, <4>1
    <3> QED
      BY <3>1, <3>2
  <2> QED
    BY <2>5, <2>6
<1> QED
  BY <1>2, <1>3

(* What is committed to and who it is judged for stays as it is.           *)
LEMMA JudgeKeepsCommitted ==
  ASSUME JudgeInv, Judge
  PROVE  /\ phase = "done" /\ request' = request /\ loaded' = loaded /\ honest' = honest
         /\ Committed' = Committed
<1>1. /\ phase = "done" /\ request' = request /\ loaded' = loaded /\ honest' = honest
  BY JudgeIsDone DEF JudgeInv, DispatchInv, Done
<1> QED
  BY <1>1 DEF Committed

(* Outside of a judgement nothing is newly judged. *)
LEMMA NotJudged ==
  ASSUME JudgeInv, StartRead \/ Read
  PROVE  verdict' = NoVerdict
BY ReadGoesOn DEF JudgeInv, StartRead

(* A Payout's claimer is found exactly when the leaf is the one the intent *)
(* prescribes for that claimer, for intents of any size and leaves of any  *)
(* bytes: the leading key is one claimer's alone, and the rebuilt leaf     *)
(* stays off the one that was read (_detect_payout_claimer).               *)
THEOREM ClaimersFound == Spec => []ClaimerExact
<1>1. Init => ClaimerExact
  BY DEF Init, NoVerdict, ClaimerExact
<1>2. ASSUME JudgeInv, ClaimerExact, [Next]_vars
      PROVE  ClaimerExact'
  <2>1. CASE StartRead \/ Read
    BY <1>2, <2>1, NotJudged DEF NoVerdict, ClaimerExact
  <2>2. CASE Judge
    <3>1. loaded' = loaded /\ Committed' = Committed
      BY <1>2, <2>2, JudgeKeepsCommitted
    <3>2. CASE JudgePayouts
      <4>1. PICK g \in DOMAIN loaded.groups : JudgeStrangersPayout(g) \/ JudgePayout(g)
        BY <3>2 DEF JudgePayouts
      <4>2. loaded \in Intents
        BY <1>2, <3>2 DEF JudgePayouts, JudgeInv, DispatchInv
      <4>3. CASE verdict'.flow = "payout"
        BY <1>2, <3>1, <4>1, <4>2, <4>3, PayoutJudged DEF ClaimerExact
      <4>4. CASE verdict'.flow = "refused"
        BY <1>2, <3>1, <4>1, <4>2, <4>4, PayoutJudged DEF ClaimerExact, Claimers
      <4> QED
        BY <1>2, <4>1, <4>2, <4>3, <4>4, PayoutJudged
    <3>3. CASE JudgeUnread
      BY <3>3 DEF JudgeUnread, Refused, ClaimerExact
    <3>4. CASE JudgeLeaf
      <4>1. CASE verdict'.flow = "refused"
        <5>1. verdict'.of = "leaf"
          <6>1. \A v \in LeafVerdicts : v.flow # "refused"
            BY LeafVerdictCases DEF RefundVerdict
          <6> QED
            BY <3>4, <4>1, <6>1 DEF JudgeLeaf, Judged, Refused
        <5> QED
          BY <4>1, <5>1 DEF ClaimerExact
      <4>2. CASE verdict'.flow # "refused"
        <5>1. verdict'.flow # "payout"
          BY <3>4, <4>2, JudgedOf, LeafVerdictCases DEF JudgeLeaf, RefundVerdict
        <5> QED
          BY <4>2, <5>1 DEF ClaimerExact
      <4> QED
        BY <4>1, <4>2
    <3>5. CASE JudgePayoutFinalize
      <4>1. \/ verdict' = Refused("payout_finalize")
            \/ verdict'.flow = "payout_finalize"
        BY <3>5 DEF JudgePayoutFinalize, Judged, PayoutFinalizeVerdicts
      <4> QED
        BY <4>1 DEF Refused, ClaimerExact
    <3>6. CASE JudgeNoPayout
      <4>1. \/ verdict' = Refused("nopayout")
            \/ verdict'.flow = "nopayout"
        BY <3>6 DEF JudgeNoPayout, Judged, NoPayoutVerdicts
      <4> QED
        BY <4>1 DEF Refused, ClaimerExact
    <3> QED
      BY <2>2, <3>2, <3>3, <3>4, <3>5, <3>6 DEF Judge
  <2>3. CASE UNCHANGED vars
    BY <1>2, <2>3 DEF vars, ClaimerExact, Committed
  <2> QED
    BY <1>2, <2>1, <2>2, <2>3 DEF Next
<1> QED
  BY <1>1, <1>2, Judgements, PTL DEF Spec

LEMMA VerdictKind ==
  ASSUME JudgeInv, Judge, verdict'.flow # "refused"
  PROVE  /\ Accepted /\ verdict'.flow \in Flows
         /\ KindOf(Committed) = LeafOf(verdict'.flow)
<1>1. CASE JudgeUnread
  BY <1>1 DEF JudgeUnread, Refused
<1>2. CASE JudgeLeaf
  <2>1. verdict'.flow \in {"claim", "wc", "assert", "refund"}
    BY <1>2, JudgedOf, LeafVerdictCases DEF JudgeLeaf, RefundVerdict
  <2>2. KindOf(Committed) = verdict'.flow
    BY <1>2, JudgeLeafKind
  <2> QED
    BY <1>2, <2>1, <2>2 DEF JudgeLeaf, LeafOf, Flows
<1>3. CASE JudgePayoutFinalize
  BY <1>3, JudgePayoutFinalizeKind DEF JudgePayoutFinalize, LeafOf, Flows
<1>4. CASE JudgeNoPayout
  BY <1>4, JudgeNoPayoutKind DEF JudgeNoPayout, LeafOf, Flows
<1>5. CASE JudgePayouts
  <2>1. PICK g \in DOMAIN loaded.groups : JudgeStrangersPayout(g) \/ JudgePayout(g)
    BY <1>5 DEF JudgePayouts
  <2>2. loaded \in Intents /\ phase = "done" /\ Accepted
    BY <1>5, <2>1
    DEF JudgePayouts, JudgeInv, DispatchInv, JudgeStrangersPayout, JudgePayout, Judging, Done
  <2>3. PICK c \in Claimers(loaded) :
          /\ verdict'.flow = "payout"
          /\ Committed = Assert0PayoutLeaf(loaded, g, c, MaxScript)
    BY <2>1, <2>2, PayoutJudged
  <2>4. LeafKnown(Committed)
    BY <2>2, AcceptedLeaf
  <2>5. Committed # Unbuilt
    BY <2>4 DEF LeafKnown, Unbuilt
  <2>6. TwoKeysThenCsv(Committed, OP_CHECKSIG)
    BY <2>2, <2>3, <2>5, RebuiltFits
  <2> QED
    BY <2>2, <2>3, <2>6, KindOfTwoKeys DEF LeafOf, Flows
<1> QED
  BY <1>1, <1>2, <1>3, <1>4, <1>5 DEF Judge

(* A leaf the device builds for one purpose is accepted for that purpose   *)
(* and for no other one, whatever intents there are, and in any session    *)
(* (validate_and_display_transaction: "patterns MUST remain mutually       *)
(* exclusive").                                                            *)
THEOREM FlowsApart == Spec => []LeafInItsOwnFlow
<1>1. Init => LeafInItsOwnFlow
  BY DEF Init, Judgement, LeafInItsOwnFlow
<1>2. ASSUME JudgeInv, LeafInItsOwnFlow, [Next]_vars
      PROVE  LeafInItsOwnFlow'
  <2>1. CASE StartRead \/ Read
    BY <1>2, <2>1, NotJudged DEF Judgement, LeafInItsOwnFlow
  <2>2. CASE Judge
    <3>1. phase = "done" /\ Committed' = Committed
      BY <1>2, <2>2, JudgeKeepsCommitted
    <3>2. ASSUME verdict'.flow # "refused", NEW intent \in Intents, NEW flow \in Flows,
                 Committed \in LeavesFor(intent, flow)
          PROVE  Committed \in LeavesFor(intent, verdict'.flow)
      <4>1. /\ Accepted /\ verdict'.flow \in Flows
            /\ KindOf(Committed) = LeafOf(verdict'.flow)
        BY <1>2, <2>2, <3>2, VerdictKind
      <4>2. LeafKnown(Committed)
        BY <1>2, <3>1, <4>1, AcceptedLeaf
      <4>3. Committed # Unbuilt
        BY <4>2 DEF LeafKnown, Unbuilt
      <4>4. KindOf(Committed) = LeafOf(flow)
        BY <3>2, <4>3, BuiltKind
      <4>5. LeavesFor(intent, flow) = LeavesFor(intent, verdict'.flow)
        BY <4>1, <4>4, SameKindSameLeaves
      <4> QED
        BY <3>2, <4>5
    <3> QED
      BY <3>1, <3>2 DEF LeafInItsOwnFlow
  <2>3. CASE UNCHANGED vars
    BY <1>2, <2>3 DEF vars, LeafInItsOwnFlow, Judgement, Committed
  <2> QED
    BY <1>2, <2>1, <2>2, <2>3 DEF Next
<1> QED
  BY <1>1, <1>2, Judgements, PTL DEF Spec

(* An Assert is accepted only for a leaf that begins with the whole signer *)
(* prefix of the intent in force, whatever the host puts behind it, and    *)
(* however it cuts the stream (assert_prefix_ok).                          *)
THEOREM AssertsBound == Spec => []AssertBoundToIntent
<1>1. Init => AssertBoundToIntent
  BY DEF Init, NoVerdict, AssertBoundToIntent
<1>2. ASSUME JudgeInv, AssertBoundToIntent, [Next]_vars
      PROVE  AssertBoundToIntent'
  <2>1. CASE StartRead \/ Read
    BY <1>2, <2>1, NotJudged DEF NoVerdict, AssertBoundToIntent
  <2>2. CASE Judge
    <3>1. /\ phase = "done" /\ loaded' = loaded /\ Committed' = Committed
      BY <1>2, <2>2, JudgeKeepsCommitted
    <3>2. CASE verdict'.flow = "assert"
      <4>1. JudgeLeaf
        <5>1. ~JudgeUnread
          BY <3>2 DEF JudgeUnread, Refused
        <5>2. ~JudgePayoutFinalize
          BY <1>2, <3>2, JudgePayoutFinalizeKind
        <5>3. ~JudgeNoPayout
          BY <1>2, <3>2, JudgeNoPayoutKind
        <5>4. ~JudgePayouts
          <6>1. ASSUME JudgePayouts PROVE FALSE
            <7>1. PICK g \in DOMAIN loaded.groups : JudgeStrangersPayout(g) \/ JudgePayout(g)
              BY <6>1 DEF JudgePayouts
            <7>2. loaded \in Intents
              BY <1>2, <6>1 DEF JudgePayouts, JudgeInv, DispatchInv
            <7> QED
              BY <1>2, <3>2, <7>1, <7>2, PayoutJudged
          <6> QED
            BY <6>1
        <5> QED
          BY <2>2, <5>1, <5>2, <5>3, <5>4 DEF Judge
      <4>2. Accepted /\ LeafKnown(Committed)
        BY <1>2, <3>1, <4>1, AcceptedLeaf DEF JudgeLeaf
      <4>3. meta.assert_prefix_ok
        <5>1. ShapeFlow = "assert"
          BY <3>2, <4>1, JudgedOf, LeafVerdictCases DEF JudgeLeaf, RefundVerdict
        <5> QED
          BY <5>1, ShapeTold
      <4>4. request.expected # <<>> /\ OneLeaf!BeginsWith(Committed, request.expected)
        BY <4>2, <4>3 DEF LeafKnown
      <4>5. loaded # NoIntent /\ request.expected = AssertPrefix(loaded)
        BY <1>2, <3>1, <4>4 DEF JudgeInv
      <4>6. AssertPrefix(loaded) = SignerPrefix(loaded)
        <5>1. Buildable(loaded)
          BY <1>2, <4>5, IntentsAssumption, ApprovedBuildable DEF JudgeInv, DispatchInv
        <5> QED
          BY <5>1, PrefixLaid DEF Buildable
      <4>7. OneLeaf!BeginsWith(Committed,
              Entry(loaded.depositor_pk, OP_CHECKSIGVERIFY)
                \o MultisigGroup(loaded.keeper_pks, FALSE)
                \o MultisigGroup(loaded.challenger_pks, FALSE))
        BY <4>4, <4>5, <4>6 DEF SignerPrefix
      <4> DEFINE bound == OneLeaf!BeginsWith(Committed,
                            Entry(loaded.depositor_pk, OP_CHECKSIGVERIFY)
                              \o MultisigGroup(loaded.keeper_pks, FALSE)
                              \o MultisigGroup(loaded.challenger_pks, FALSE))
      <4>8. bound' = bound
        BY <3>1 DEF OneLeaf!BeginsWith
      <4> QED
        BY <3>1, <4>5, <4>7, <4>8 DEF AssertBoundToIntent
    <3> QED
      BY <3>2 DEF AssertBoundToIntent
  <2>3. CASE UNCHANGED vars
    BY <1>2, <2>3 DEF vars, AssertBoundToIntent, Committed, OneLeaf!BeginsWith
  <2> QED
    BY <1>2, <2>1, <2>2, <2>3 DEF Next
<1> QED
  BY <1>1, <1>2, Judgements, PTL DEF Spec

(* The timelock of a refund is at least the shortest one allowed. *)
LEMMA RefundLongEnough ==
  ASSUME JudgeInv, NEW csv, RefundTimelockOk(csv)
  PROVE  csv >= 72
<1>1. CASE loaded = NoIntent
  BY <1>1 DEF RefundTimelockOk, VAULT_TIMELOCK_MIN
<1>2. CASE loaded # NoIntent
  <2>1. Approvable(loaded)
    BY <1>2, IntentsAssumption DEF JudgeInv, DispatchInv
  <2>2. loaded.htlc_refund_timelock >= 72
    BY <2>1, ApprovedTimelocks
  <2> QED
    BY <1>2, <2>2 DEF RefundTimelockOk
<1> QED
  BY <1>1, <1>2

LEMMA SmallRemainder ==
  ASSUME NEW x \in Nat, x <= 65535
  PROVE  x % 65536 = x
OBVIOUS

LEMMA EnforcedAsStated ==
  ASSUME NEW script, NEW csv \in Nat, csv <= BIP68_SEQUENCE_MASK,
         \E n \in 1..4 : EnforcedBy(OperandOf(script), n, csv)
  PROVE  LET push == SubSeq(script, EntryLen + 1, Len(script) - 1)
         IN  \E n \in 1..4 :
               LET data == SubSeq(push, Len(push) - n + 1, Len(push))
               IN  /\ push \in {<<n>> \o data, <<OP_PUSHDATA1, n>> \o data}
                   /\ data[n] < 128
                   /\ Number(data) % (BIP68_SEQUENCE_MASK + 1) = csv
<1>1. csv % (BIP68_SEQUENCE_MASK + 1) = csv
  <2>1. BIP68_SEQUENCE_MASK + 1 = 65536 /\ csv <= 65535
    BY DEF BIP68_SEQUENCE_MASK
  <2> QED
    BY <2>1, SmallRemainder
<1> QED
  BY <1>1, Zenon DEF EnforcedBy, OperandOf, TailOf

(* A verdict of another kind than a Payout's comes of the dispatcher.      *)
LEMMA RefundComesOfLeaf ==
  ASSUME JudgeInv, Judge, verdict'.flow = "refund"
  PROVE  JudgeLeaf
<1>1. ~JudgeUnread
  BY DEF JudgeUnread, Refused
<1>2. ~JudgePayoutFinalize
  BY JudgePayoutFinalizeKind
<1>3. ~JudgeNoPayout
  BY JudgeNoPayoutKind
<1>4. ASSUME JudgePayouts PROVE FALSE
  <2>1. PICK g \in DOMAIN loaded.groups : JudgeStrangersPayout(g) \/ JudgePayout(g)
    BY <1>4 DEF JudgePayouts
  <2>2. loaded \in Intents
    BY <1>4 DEF JudgePayouts, JudgeInv, DispatchInv
  <2> QED
    BY <2>1, <2>2, PayoutJudged
<1> QED
  BY <1>1, <1>2, <1>3, <1>4 DEF Judge

(* The timelock a refund is shown with is the one its script enforces, for *)
(* leaves of any bytes: the number is read whole and without a sign, from  *)
(* the push in front of OP_CSV, and none is accepted that consensus would  *)
(* truncate (parse_refund_leaf_script).                                    *)
THEOREM ShownIsEnforced == Spec => []ShownTimelockEnforced
<1>1. Init => ShownTimelockEnforced
  BY DEF Init, NoVerdict, ShownTimelockEnforced
<1>2. ASSUME JudgeInv, ShownTimelockEnforced, [Next]_vars
      PROVE  ShownTimelockEnforced'
  <2>1. CASE StartRead \/ Read
    BY <1>2, <2>1, NotJudged DEF NoVerdict, ShownTimelockEnforced
  <2>2. CASE Judge
    <3>1. phase = "done" /\ Committed' = Committed
      BY <1>2, <2>2, JudgeKeepsCommitted
    <3>2. CASE verdict'.flow = "refund"
      <4>1. JudgeLeaf
        BY <1>2, <2>2, <3>2, RefundComesOfLeaf
      <4>2. LeafKnown(Committed)
        BY <1>2, <3>1, <4>1, AcceptedLeaf DEF JudgeLeaf
      <4>3. RefundVerdict(verdict')
        BY <3>2, <4>1, JudgedOf, LeafVerdictCases DEF JudgeLeaf
      <4>4. PICK leaf \in RefundLeaves(Committed) :
              RefundTimelockOk(leaf.csv) /\ verdict'.csv = leaf.csv
        BY <4>2, <4>3 DEF RefundVerdict, LeafKnown
      <4>5. leaf.csv >= 72
        BY <1>2, <4>4, RefundLongEnough
      <4>6. leaf.csv \notin 1..16
        BY <4>5
      <4>7. Committed \in Seq(Nat)
        BY <4>2, BytesAreNumbers DEF LeafKnown
      <4>8. /\ leaf.csv \in Nat /\ leaf.csv <= BIP68_SEQUENCE_MASK
            /\ \E n \in 1..4 : EnforcedBy(OperandOf(Committed), n, leaf.csv)
        BY <4>4, <4>6, <4>7, RefundEnforced
      <4>9. LET push == SubSeq(Committed, EntryLen + 1, Len(Committed) - 1)
            IN  \E n \in 1..4 :
                  LET data == SubSeq(push, Len(push) - n + 1, Len(push))
                  IN  /\ push \in {<<n>> \o data, <<OP_PUSHDATA1, n>> \o data}
                      /\ data[n] < 128
                      /\ Number(data) % (BIP68_SEQUENCE_MASK + 1) = verdict'.csv
        BY <4>4, <4>8, EnforcedAsStated
      <4> QED
        BY <3>1, <4>9 DEF ShownTimelockEnforced
    <3> QED
      BY <3>2 DEF ShownTimelockEnforced
  <2>3. CASE UNCHANGED vars
    BY <1>2, <2>3 DEF vars, ShownTimelockEnforced, Committed
  <2> QED
    BY <1>2, <2>1, <2>2, <2>3 DEF Next
<1> QED
  BY <1>1, <1>2, Judgements, PTL DEF Spec

-----------------------------------------------------------------------------
(* The order of keys. *)

LEMMA NeverPrecedesItself ==
  ASSUME NEW a \in PublicKeys
  PROVE  ~Precedes(a, a)
<1> SUFFICES ASSUME NEW i \in 1..KeyLen, a[i] < a[i]
             PROVE  FALSE
  BY DEF Precedes
<1>1. a[i] \in Nat
  BY PublicKeyXonly
<1> QED
  BY <1>1

(* Two keys that differ do so for the first time somewhere. *)
LEMMA OneOfThemPrecedes ==
  ASSUME NEW a \in PublicKeys, NEW b \in PublicKeys, a # b
  PROVE  Precedes(a, b) \/ Precedes(b, a)
<1> DEFINE X == {i \in 1..KeyLen : a[i] # b[i]}
<1>1. /\ a \in Seq(Nat) /\ b \in Seq(Nat) /\ Len(a) = KeyLen /\ Len(b) = KeyLen
      /\ KeyLen \in Nat
  BY PublicKeyXonly, KeyLenAssumption DEF Xonly
<1>2. PICK x \in X : TRUE
  <2>1. ~(\A i \in 1..Len(a) : a[i] = b[i])
    BY <1>1, SeqEqual
  <2> QED
    BY <1>1, <2>1
<1>3. X \in SUBSET Nat
  BY <1>1
<1> HIDE DEF X
<1>4. PICK i \in X : \A m \in X : i <= m
  BY <1>2, <1>3, LeastExists
<1>5. i \in 1..KeyLen /\ a[i] # b[i] /\ i \in Nat
  BY <1>3, <1>4 DEF X
<1>6. ASSUME NEW j \in 1..(i - 1)
      PROVE  a[j] = b[j]
  <2>1. j \in 1..KeyLen /\ ~(i <= j)
    BY <1>1, <1>5
  <2> QED
    BY <1>4, <2>1 DEF X
<1>7. a[i] \in Nat /\ b[i] \in Nat
  BY <1>5, PublicKeyXonly
<1>8. CASE a[i] < b[i]
  BY <1>5, <1>6, <1>8 DEF Precedes
<1>9. CASE b[i] < a[i]
  BY <1>5, <1>6, <1>9 DEF Precedes
<1> QED
  BY <1>5, <1>7, <1>8, <1>9

-----------------------------------------------------------------------------
(* The list of those who may challenge. *)

KeysInOrder(keys) == \A i \in 1..(Len(keys) - 1) : Precedes(keys[i], keys[i + 1])

(* A list that is short of one key, and the key behind all it does not     *)
(* precede.                                                                *)
LEMMA PlacedInOrder ==
  ASSUME NEW others \in Seq(PublicKeys), NEW provider \in PublicKeys,
         NEW list, NEW i \in 1..(Len(others) + 1),
         PlacedAt(list, others, provider, i),
         KeysInOrder(others), \A k \in 1..Len(others) : others[k] # provider
  PROVE  /\ Len(list) = Len(others) + 1
         /\ KeysInOrder(list)
         /\ \A k \in 1..Len(list) : list[k] = provider \/ \E j \in 1..Len(others) : list[k] = others[j]
         /\ \E k \in 1..Len(list) : list[k] = provider
<1> DEFINE n == Len(others)
<1>1. n \in Nat /\ i \in Nat /\ 1 <= i /\ i <= n + 1
  OBVIOUS
<1>2. /\ list = InsertAt(others, i, provider)
      /\ i <= n => Precedes(provider, others[i])
      /\ \A k \in 1..(i - 1) : ~Precedes(provider, others[k])
  BY DEF PlacedAt
<1>3. Len(list) = n + 1
  BY <1>2, Inserted
<1>4. \A k \in 1..(n + 1) :
        list[k] = IF k < i THEN others[k] ELSE IF k = i THEN provider ELSE others[k - 1]
  BY <1>2, Inserted
<1>5. \A k \in 1..n : others[k] \in PublicKeys
  OBVIOUS
<1>6. \A k \in 1..(n - 1) : Precedes(others[k], others[k + 1])
  BY DEF KeysInOrder
<1>7. ASSUME NEW k \in 1..(i - 1)
      PROVE  Precedes(others[k], provider)
  <2>1. k \in 1..n
    BY <1>1
  <2> QED
    BY <1>2, <1>5, <2>1, OneOfThemPrecedes
<1> HIDE DEF n
<1>8. ASSUME NEW k \in 1..n
      PROVE  Precedes(list[k], list[k + 1])
  <2>1. k \in 1..(n + 1) /\ k + 1 \in 1..(n + 1) /\ (k + 1) - 1 = k /\ k \in Nat
    BY <1>1
  <2>2. CASE k + 1 < i
    <3>1. k < i /\ k \in 1..(n - 1)
      BY <1>1, <2>1, <2>2
    <3>2. list[k] = others[k] /\ list[k + 1] = others[k + 1]
      BY <1>4, <2>1, <2>2, <3>1
    <3> QED
      BY <1>6, <3>1, <3>2
  <2>3. CASE k + 1 = i
    <3>1. k < i /\ ~(k + 1 < i) /\ k \in 1..(i - 1)
      BY <1>1, <2>1, <2>3
    <3>2. list[k] = others[k] /\ list[k + 1] = provider
      BY <1>4, <2>1, <2>3, <3>1
    <3> QED
      BY <1>7, <3>1, <3>2
  <2>4. CASE k = i
    <3>1. ~(k < i) /\ ~(k + 1 < i) /\ k + 1 # i /\ i <= n
      BY <1>1, <2>1, <2>4
    <3>2. list[k] = provider /\ list[k + 1] = others[i]
      BY <1>4, <2>1, <2>4, <3>1
    <3> QED
      BY <1>2, <3>1, <3>2
  <2>5. CASE k > i
    <3>1. /\ ~(k < i) /\ k # i /\ ~(k + 1 < i) /\ k + 1 # i
          /\ k - 1 \in 1..(n - 1) /\ (k - 1) + 1 = k
      BY <1>1, <2>1, <2>5
    <3>2. list[k] = others[k - 1] /\ list[k + 1] = others[k]
      BY <1>4, <2>1, <3>1
    <3>3. Precedes(others[k - 1], others[(k - 1) + 1])
      BY <1>6, <3>1
    <3> QED
      BY <3>1, <3>2, <3>3
  <2> QED
    BY <1>1, <2>1, <2>2, <2>3, <2>4, <2>5
<1>9. KeysInOrder(list)
  <2>1. Len(list) - 1 = n
    BY <1>1, <1>3
  <2> QED
    BY <1>8, <2>1 DEF KeysInOrder
<1>10. ASSUME NEW k \in 1..(n + 1)
       PROVE  list[k] = provider \/ \E j \in 1..n : list[k] = others[j]
  <2>1. CASE k < i
    <3>1. k \in 1..n
      BY <1>1, <2>1
    <3> QED
      BY <1>4, <2>1, <3>1
  <2>2. CASE k = i
    BY <1>1, <1>4, <2>2
  <2>3. CASE k > i
    <3>1. k - 1 \in 1..n /\ ~(k < i) /\ k # i
      BY <1>1, <2>3
    <3> QED
      BY <1>4, <3>1
  <2> QED
    BY <1>1, <2>1, <2>2, <2>3
<1>11. i \in 1..(n + 1) /\ list[i] = provider
  BY <1>1, <1>4
<1> QED
  BY <1>3, <1>9, <1>10, <1>11 DEF n

(* Keys in ascending order, one of them taken out.                         *)
LEMMA RemovedInOrder ==
  ASSUME NEW keys \in Seq(PublicKeys), Ascending(keys), NEW c \in 1..Len(keys)
  PROVE  /\ RemoveAt(keys, c) \in Seq(PublicKeys)
         /\ Len(RemoveAt(keys, c)) = Len(keys) - 1
         /\ KeysInOrder(RemoveAt(keys, c))
         /\ \A k \in 1..(Len(keys) - 1) :
              \E j \in 1..Len(keys) : j # c /\ RemoveAt(keys, c)[k] = keys[j]
<1> DEFINE n == Len(keys)
           others == RemoveAt(keys, c)
<1>1. n \in Nat /\ c \in Nat /\ DOMAIN keys = 1..n
  OBVIOUS
<1>2. others \in Seq(PublicKeys) /\ Len(others) = n - 1
  BY Removed
<1>3. \A k \in 1..(n - 1) : others[k] = IF k < c THEN keys[k] ELSE keys[k + 1]
  BY Removed
<1>4. \A i, j \in 1..n : i < j => Precedes(keys[i], keys[j])
  BY <1>1 DEF Ascending
<1> HIDE DEF others, n
<1>5. ASSUME NEW k \in 1..((n - 1) - 1)
      PROVE  Precedes(others[k], others[k + 1])
  <2>1. k \in 1..(n - 1) /\ k + 1 \in 1..(n - 1) /\ k \in Nat
    BY <1>1
  <2>2. PICK i \in 1..n : others[k] = keys[i] /\ i = IF k < c THEN k ELSE k + 1
    BY <1>1, <1>3, <2>1
  <2>3. PICK j \in 1..n : others[k + 1] = keys[j] /\ j = IF k + 1 < c THEN k + 1 ELSE k + 2
    BY <1>1, <1>3, <2>1
  <2>4. i < j
    BY <1>1, <2>1, <2>2, <2>3
  <2> QED
    BY <1>4, <2>2, <2>3, <2>4
<1>6. ASSUME NEW k \in 1..(n - 1)
      PROVE  \E j \in 1..n : j # c /\ others[k] = keys[j]
  <2> DEFINE j == IF k < c THEN k ELSE k + 1
  <2>1. j \in 1..n /\ j # c
    BY <1>1
  <2>2. others[k] = keys[j]
    BY <1>3
  <2> QED
    BY <2>1, <2>2
<1>7. KeysInOrder(others)
  BY <1>2, <1>5 DEF KeysInOrder
<1> QED
  BY <1>2, <1>6, <1>7 DEF n, others

(* Who may challenge one claimer of an approved intent. *)
ListedInOrder(intent, g, c) ==
  LET list == AppChallengers(intent, g, c)
      keepers == Range(intent.keeper_pks)
      provider == intent.groups[g].vault_provider_pk
  IN  /\ Len(list) = Len(intent.keeper_pks)
      /\ \A i \in 1..(Len(list) - 1) : Precedes(list[i], list[i + 1])
      /\ Range(list) \subseteq (keepers \cup {provider}) \ {ClaimerPk(intent, g, c)}
      /\ c \in DOMAIN intent.keeper_pks => provider \in Range(list)

LEMMA ChallengersListed ==
  ASSUME NEW intent, Approvable(intent), NEW g \in DOMAIN intent.groups,
         NEW c \in Claimers(intent)
  PROVE  ListedInOrder(intent, g, c)
<1> DEFINE keepers == intent.keeper_pks
           provider == intent.groups[g].vault_provider_pk
           depositor == intent.depositor_pk
           list == AppChallengers(intent, g, c)
           claimer == ClaimerPk(intent, g, c)
           n == Len(keepers)
<1>1. /\ keepers \in KeyLists /\ keepers \in Seq(PublicKeys) /\ Ascending(keepers)
      /\ provider \in PublicKeys
  BY ApprovedFields DEF Approvable, KeyLists
<1>2. /\ depositor \notin Range(keepers) /\ provider \notin Range(keepers)
      /\ provider # depositor
  BY DEF Approvable
<1>3. /\ n \in Nat /\ DOMAIN keepers = 1..n
      /\ \/ c = 0 /\ claimer = provider
         \/ c \in 1..n /\ claimer = keepers[c]
         \/ c = n + 1 /\ claimer = depositor
  BY ClaimerPkCases
<1>4. Buildable(intent)
  BY ApprovedBuildable
<1> SUFFICES /\ Len(list) = n
             /\ \A i \in 1..(Len(list) - 1) : Precedes(list[i], list[i + 1])
             /\ Range(list) \subseteq (Range(keepers) \cup {provider}) \ {claimer}
             /\ c \in DOMAIN keepers => provider \in Range(list)
  BY Zenon DEF ListedInOrder
<1>5. CASE c \in {0, n + 1}
  <2>1. list = keepers
    BY <1>5, Zenon DEF AppChallengers
  <2>2. claimer \notin Range(keepers) /\ c \notin DOMAIN keepers
    BY <1>2, <1>3, <1>5
  <2> HIDE DEF list, claimer, keepers, n
  <2>3. ASSUME NEW i \in 1..(n - 1)
        PROVE  Precedes(keepers[i], keepers[i + 1])
    <3>1. i \in 1..n /\ i + 1 \in 1..n /\ i < i + 1
      BY <1>3
    <3> QED
      BY <1>1, <1>3, <3>1 DEF Ascending
  <2> QED
    BY <2>1, <2>2, <2>3 DEF n
<1>6. CASE c \notin {0, n + 1}
  <2> DEFINE others == RemoveAt(keepers, c)
  <2>1. c \in 1..n /\ claimer = keepers[c]
    BY <1>3, <1>6
  <2>2. PICK i \in 1..n : PlacedAt(list, others, provider, i)
    BY <1>4, <2>1, ProviderPlaced
  <2>3. /\ others \in Seq(PublicKeys) /\ Len(others) = n - 1 /\ KeysInOrder(others)
        /\ \A k \in 1..(n - 1) : \E j \in 1..n : j # c /\ others[k] = keepers[j]
    BY <1>1, <2>1, RemovedInOrder
  <2> HIDE DEF others, list, claimer, keepers, provider, depositor, n
  <2>4. \A j \in 1..n : keepers[j] # provider
    BY <1>2, <1>3 DEF Range
  <2>5. \A k \in 1..Len(others) : others[k] # provider
    BY <2>3, <2>4
  <2>6. i \in 1..(Len(others) + 1) /\ Len(others) = n - 1 /\ (n - 1) + 1 = n
    BY <1>3, <2>3
  <2>7. /\ Len(list) = Len(others) + 1
        /\ KeysInOrder(list)
        /\ \A k \in 1..Len(list) :
             list[k] = provider \/ \E j \in 1..Len(others) : list[k] = others[j]
        /\ \E k \in 1..Len(list) : list[k] = provider
    BY <1>1, <2>2, <2>3, <2>5, <2>6, PlacedInOrder
  <2>8. DOMAIN list = 1..Len(list)
    <3>2. list = InsertAt(others, i, provider)
      BY <2>2 DEF PlacedAt
    <3>3. list \in Seq(PublicKeys)
      BY <1>1, <2>3, <2>6, <3>2, Inserted
    <3> QED
      BY <3>3
  <2>9. ASSUME NEW x \in Range(list)
        PROVE  x \in (Range(keepers) \cup {provider}) \ {claimer}
    <3>1. PICK k \in 1..Len(list) : x = list[k]
      BY <2>8 DEF Range
    <3>2. CASE x = provider
      BY <2>1, <2>4, <3>2
    <3>3. CASE \E m \in 1..Len(others) : x = others[m]
      <4>1. PICK j \in 1..n : j # c /\ x = keepers[j]
        BY <2>3, <3>3
      <4>2. keepers[j] # keepers[c]
        BY <1>1, <1>3, <2>1, <4>1, KeepersTold
      <4> QED
        BY <1>3, <2>1, <4>1, <4>2 DEF Range
    <3> QED
      BY <2>7, <3>1, <3>2, <3>3
  <2>10. provider \in Range(list)
    BY <2>7, <2>8 DEF Range
  <2>11. Len(list) = n
    BY <2>6, <2>7
  <2> QED
    BY <2>7, <2>9, <2>10, <2>11 DEF KeysInOrder
<1> QED
  BY <1>5, <1>6

(* Whoever claims, those who may challenge the claim are listed in         *)
(* strictly ascending order, as many as there are keepers and never the    *)
(* claimer, for every number of keepers and wherever the provider's key    *)
(* falls among theirs (build_app_challengers).                             *)
THEOREM ChallengersOrdered == Spec => []AppChallengersInOrder
<1>1. ASSUME DispatchInv PROVE AppChallengersInOrder
  <2>1. ASSUME AtFirst PROVE Approvable(loaded)
    BY <1>1, <2>1, IntentsAssumption DEF AtFirst, DispatchInv
  <2>2. ASSUME AtFirst, NEW g \in DOMAIN loaded.groups,
               NEW c \in 0..(Len(loaded.keeper_pks) + 1)
        PROVE  ListedInOrder(loaded, g, c)
    BY <2>1, <2>2, ChallengersListed DEF Claimers
  <2> QED
    BY <2>2, Zenon DEF AppChallengersInOrder, ListedInOrder
<1> QED
  BY <1>1, Dispatch, PTL

-----------------------------------------------------------------------------
(* Timelocks, read back. *)

LEMMA InBetween ==
  ASSUME NEW low \in Nat, NEW high \in Nat, NEW t \in low..high
  PROVE  t \in Nat /\ t >= low /\ t <= high
OBVIOUS

(* A leaf, cut off in front of its timelock, and with another one behind.  *)
LEMMA EndReplaced ==
  ASSUME NEW front \in Seq(Nat), NEW push \in Seq(Nat), NEW new \in Seq(Nat),
         NEW byte \in Nat
  PROVE  LET leaf == front \o (push \o <<byte>>)
         IN  SubSeq(leaf, 1, Len(leaf) - Len(push) - 1) \o new \o <<byte>>
               = front \o (new \o <<byte>>)
<1> DEFINE last == <<byte>>
           end == push \o last
           leaf == front \o end
           n == Len(leaf) - Len(push) - 1
           head == SubSeq(leaf, 1, n)
<1>1. last \in Seq(Nat) /\ Len(last) = 1
  OBVIOUS
<1> HIDE DEF last
<1>2. end \in Seq(Nat) /\ Len(end) = Len(push) + 1
  <2>1. end \in Seq(Nat)
    BY <1>1, ConcatAt
  <2>2. Len(end) = Len(push) + Len(last)
    BY <1>1, ConcatAt
  <2> QED
    BY <1>1, <2>1, <2>2
<1> HIDE DEF end
<1>3. leaf \in Seq(Nat) /\ Len(leaf) = Len(front) + Len(end)
  BY <1>2, ConcatAt
<1>4. \A m \in 1..Len(front) : leaf[m] = front[m]
  BY <1>2, ConcatAt
<1>5. n = Len(front) /\ n \in Nat /\ n <= Len(leaf)
  BY <1>2, <1>3
<1> HIDE DEF leaf, n
<1>6. head = front
  <2>1. SubSeq(leaf, 0 + 1, n) \in Seq(Nat) /\ Len(SubSeq(leaf, 0 + 1, n)) = n - 0
    BY <1>3, <1>5, Stretch
  <2>2. \A k \in 1..(n - 0) : SubSeq(leaf, 0 + 1, n)[k] = leaf[0 + k]
    BY <1>3, <1>5, Stretch
  <2>3. 0 + 1 = 1 /\ n - 0 = n /\ \A k \in 1..n : 0 + k = k
    BY <1>5
  <2>4. head \in Seq(Nat) /\ Len(head) = n /\ \A k \in 1..n : head[k] = leaf[k]
    BY <2>1, <2>2, <2>3
  <2> HIDE DEF head
  <2>5. Len(head) = Len(front) /\ \A k \in 1..Len(head) : head[k] = front[k]
    BY <1>4, <1>5, <2>4
  <2> QED
    BY <2>4, <2>5, SeqEqual
<1>7. (front \o new) \o last = front \o (new \o last)
  BY <1>1, ConcatAssociative
<1> QED
  BY <1>6, <1>7, Zenon DEF head, n, leaf, end, last

(* The largest leaf of either kind fits.                                   *)
LEMMA RoomToBuild ==
  ASSUME NEW intent \in Intents, Buildable(intent)
  PROVE  /\ MaxScript \in Nat
         /\ EntryLen + 4 <= MaxScript
         /\ EntryLen * (1 + Len(intent.keeper_pks) + Len(intent.challenger_pks)) + 18
              <= MaxScript
<1> DEFINE n == Len(intent.keeper_pks)
           m == Len(intent.challenger_pks)
           x == EntryLen * n
           y == EntryLen * m
           most == EntryLen * (1 + n + m)
<1>1. n \in Nat /\ m \in Nat
  BY DEF Buildable, KeyList
<1>2. MaxScript \in Nat /\ ActualBufAt \in Nat /\ ActualBufAt <= MaxScript
        /\ most + 18 <= ActualBufAt
  BY LayoutAssumption, SizesAssumption
<1> HIDE DEF n, m
<1>3. EntryLen \in Nat
  BY EntryLenTyped
<1>4. most = EntryLen + x + y /\ x \in Nat /\ y \in Nat
  BY <1>1, <1>3
<1> HIDE DEF most, x, y
<1>5. most + 18 <= MaxScript /\ EntryLen + 4 <= MaxScript
  BY <1>2, <1>3, <1>4
<1> QED
  BY <1>2, <1>5 DEF most, n, m

(* The refund timelock of an intent can be any.                            *)
RefundRead(intent, t) ==
  RefundLeaves(HtlcLeaf1([intent EXCEPT !.htlc_refund_timelock = t], MaxScript))
    = {[key |-> intent.depositor_pk, csv |-> t]}

RefundTimelock(t) == t \in VAULT_TIMELOCK_MIN..VAULT_HTLC_REFUND_TIMELOCK_MAX

LEMMA RefundTimelockBounds ==
  ASSUME NEW t, RefundTimelock(t)
  PROVE  t \in Nat /\ t > 16 /\ t <= 32767
<1>1. /\ t \in VAULT_TIMELOCK_MIN..VAULT_HTLC_REFUND_TIMELOCK_MAX
      /\ VAULT_TIMELOCK_MIN = 72 /\ VAULT_HTLC_REFUND_TIMELOCK_MAX = 4320
  <2>1. t \in VAULT_TIMELOCK_MIN..VAULT_HTLC_REFUND_TIMELOCK_MAX
    BY Zenon DEF RefundTimelock
  <2>2. VAULT_TIMELOCK_MIN = 72 /\ VAULT_HTLC_REFUND_TIMELOCK_MAX = 4320
    BY DEF VAULT_TIMELOCK_MIN, VAULT_HTLC_REFUND_TIMELOCK_MAX
  <2> QED
    BY <2>1, <2>2
<1>2. VAULT_TIMELOCK_MIN \in Nat /\ VAULT_HTLC_REFUND_TIMELOCK_MAX \in Nat
  BY <1>1
<1>3. t \in Nat /\ t >= VAULT_TIMELOCK_MIN /\ t <= VAULT_HTLC_REFUND_TIMELOCK_MAX
  BY <1>1, <1>2, InBetween
<1> QED
  BY <1>1, <1>3

LEMMA RefundTimelockRead ==
  ASSUME NEW intent \in Intents, Approvable(intent), NEW t, RefundTimelock(t)
  PROVE  RefundRead(intent, t)
<1> DEFINE changed == [intent EXCEPT !.htlc_refund_timelock = t]
<1>1. Buildable(intent) /\ intent \in VaultIntents
  BY ApprovedBuildable, ApprovedFields
<1>2. /\ changed.depositor_pk = intent.depositor_pk
      /\ changed.keeper_pks = intent.keeper_pks
      /\ changed.challenger_pks = intent.challenger_pks
      /\ changed.groups = intent.groups
      /\ changed.pegin_csv_timelock = intent.pegin_csv_timelock
      /\ changed.payout_timelock = intent.payout_timelock
      /\ changed.htlc_refund_timelock = t
  BY <1>1 DEF VaultIntents
<1> HIDE DEF changed
<1>3. Buildable(changed)
  BY <1>1, <1>2, RefundTimelockBounds DEF Buildable
<1>4. MaxScript \in Nat /\ EntryLen + 4 <= MaxScript
  BY <1>1, RoomToBuild, Zenon
<1>5. HtlcLeaf1(changed, MaxScript)
        = Entry(intent.depositor_pk, OP_CHECKSIGVERIFY) \o TimelockEnd(t)
  BY <1>2, <1>3, <1>4, RoomForRefund
<1>6. Xonly(intent.depositor_pk) /\ t \in Nat /\ t > 16 /\ t <= 32767
  BY <1>1, RefundTimelockBounds DEF Buildable
<1>7. RefundLeaves(HtlcLeaf1(changed, MaxScript)) = {[key |-> intent.depositor_pk, csv |-> t]}
  BY <1>5, <1>6, RefundReadBack
<1> QED
  BY <1>7, Zenon DEF changed, RefundRead

(* The depositor's payout leaf, with any payout timelock.                  *)
PayoutRead(intent, t) ==
  LET c == Len(intent.keeper_pks) + 1
      leaf == Assert0PayoutLeaf(intent, 1, c, MaxScript)
      head == SubSeq(leaf, 1, Len(leaf) - Len(PushNumber(intent.payout_timelock)) - 1)
  IN  PayoutLeaves(head \o PushNumber(t) \o <<OP_CSV>>)
        = {[key |-> intent.depositor_pk, csv |-> t]}

LEMMA PayoutTimelockRead ==
  ASSUME NEW intent \in Intents, Approvable(intent), NEW t, PayoutTimelock(t)
  PROVE  PayoutRead(intent, t)
<1> DEFINE c == Len(intent.keeper_pks) + 1
           leaf == Assert0PayoutLeaf(intent, 1, c, MaxScript)
           old == PushNumber(intent.payout_timelock)
           new == PushNumber(t)
           head == SubSeq(leaf, 1, Len(leaf) - Len(old) - 1)
           key == intent.depositor_pk
           list == AppChallengers(intent, 1, c)
           others == intent.challenger_pks
           front == PayoutFront(key, list, others)
<1> SUFFICES PayoutLeaves(head \o new \o <<OP_CSV>>) = {[key |-> key, csv |-> t]}
  BY Zenon DEF PayoutRead
<1>1. Buildable(intent) /\ intent.payout_timelock \in Nat /\ t \in Nat
  BY ApprovedBuildable DEF Buildable, PayoutTimelock
<1>2. 1 \in DOMAIN intent.groups
  <2>1. intent.groups \in Seq(VaultGroups) \ {<<>>}
    BY ApprovedFields DEF VaultIntents
  <2> QED
    BY <2>1
<1>3. c \in Claimers(intent) /\ ClaimerPk(intent, 1, c) = key
  <2>1. Len(intent.keeper_pks) \in Nat /\ DOMAIN intent.keeper_pks = 1..Len(intent.keeper_pks)
    BY <1>1 DEF Buildable, KeyList
  <2>2. c \in Claimers(intent) /\ c # 0 /\ c \notin DOMAIN intent.keeper_pks
    BY <2>1 DEF Claimers
  <2> QED
    BY <2>2 DEF ClaimerPk
<1>4. Xonly(key) /\ KeyList(list) /\ KeyList(others)
  BY <1>1, <1>2, <1>3, ChallengersTyped DEF Buildable
<1>5. leaf = front \o TimelockEnd(intent.payout_timelock)
  <2>1. /\ MaxScript \in Nat
        /\ EntryLen * (1 + Len(intent.keeper_pks) + Len(intent.challenger_pks)) + 18
             <= MaxScript
    BY <1>1, RoomToBuild
  <2>2. leaf = PayoutFront(ClaimerPk(intent, 1, c), list, others)
                 \o TimelockEnd(intent.payout_timelock)
    BY <1>1, <1>2, <1>3, <2>1, RoomForPayout
  <2> QED
    BY <1>3, <2>2, Zenon
<1>6. front \in Seq(Nat) /\ old \in Seq(Nat) /\ new \in Seq(Nat) /\ OP_CSV \in Nat
  <2>1. OP_CHECKSIGVERIFY \in Nat /\ OP_CSV \in Nat
    BY DEF OP_CHECKSIGVERIFY, OP_CSV
  <2>2. front \in Seq(Nat)
    <3> DEFINE entry == Entry(key, OP_CHECKSIGVERIFY)
               second == MultisigGroup(list, FALSE)
               third == MultisigGroup(others, FALSE)
    <3>1. entry \in Seq(Nat)
      BY <1>4, <2>1, EntryBytes
    <3>2. second \in Seq(Nat) /\ third \in Seq(Nat)
      BY <1>4, GroupTyped
    <3>3. front = entry \o second \o third
      BY Zenon DEF PayoutFront
    <3> HIDE DEF entry, second, third
    <3> QED
      BY <3>1, <3>2, <3>3, ThreeScripts
  <2> QED
    BY <1>1, <2>1, <2>2, PushNumberTyped
<1>7. PayoutLeaves(front \o TimelockEnd(t)) = {[key |-> key, csv |-> t]}
  <2> HIDE DEF key, list, others
  <2> QED
    BY <1>4, PayoutReadBack
<1> HIDE DEF front, leaf, old, new
<1>8. head \o new \o <<OP_CSV>> = front \o (new \o <<OP_CSV>>)
  BY <1>5, <1>6, EndReplaced, Zenon DEF TimelockEnd, old
<1> QED
  BY <1>7, <1>8, Zenon DEF TimelockEnd, new

LEMMA PayoutTimelockWithin ==
  ASSUME NEW t \in (VAULT_PAYOUT_TIMELOCK_MIN + 1)..(VAULT_PAYOUT_TIMELOCK_MAX - 1)
  PROVE  PayoutTimelock(t)
<1> DEFINE low == VAULT_PAYOUT_TIMELOCK_MIN + 1
           high == VAULT_PAYOUT_TIMELOCK_MAX - 1
<1>1. low = 91 /\ high = 4031 /\ low \in Nat /\ high \in Nat
  BY DEF VAULT_PAYOUT_TIMELOCK_MIN, VAULT_PAYOUT_TIMELOCK_MAX
<1>2. t \in low..high
  OBVIOUS
<1> HIDE DEF low, high
<1>3. t \in Nat /\ t >= low /\ t <= high
  BY <1>1, <1>2, InBetween
<1> QED
  BY <1>1, <1>3 DEF PayoutTimelock

(* The timelock a validator reads out of a leaf is the one that was built  *)
(* into it, for every timelock an intent may carry and every number of     *)
(* signers (parse_refund_leaf_script, parse_payout_leaf_script,            *)
(* _push_number).                                                          *)
THEOREM TimelocksRead == Spec => []TimelocksReadBack
<1>1. ASSUME DispatchInv PROVE TimelocksReadBack
  <2>1. ASSUME AtFirst PROVE loaded \in Intents /\ Approvable(loaded)
    BY <1>1, <2>1, IntentsAssumption DEF AtFirst, DispatchInv
  <2>2. ASSUME AtFirst, NEW t \in VAULT_TIMELOCK_MIN..VAULT_HTLC_REFUND_TIMELOCK_MAX
        PROVE  RefundRead(loaded, t)
    BY <2>1, <2>2, RefundTimelockRead DEF RefundTimelock
  <2>3. ASSUME AtFirst,
               NEW t \in (VAULT_PAYOUT_TIMELOCK_MIN + 1)..(VAULT_PAYOUT_TIMELOCK_MAX - 1)
        PROVE  PayoutRead(loaded, t)
    BY <2>1, <2>3, PayoutTimelockWithin, PayoutTimelockRead
  <2> QED
    BY <2>2, <2>3, Zenon DEF TimelocksReadBack, RefundRead, PayoutRead
<1> QED
  BY <1>1, Dispatch, PTL
=============================================================================
