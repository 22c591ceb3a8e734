-------------------------- MODULE VaultScriptProofs --------------------------
(***************************************************************************)
(* The scripts, for every number of keepers and challengers and keys of    *)
(* every length.                                                           *)
(***************************************************************************)
EXTENDS LeafShapes, SequenceLemmas

(* A key, or a hash, and the keys of a group. *)
Xonly(key) == key \in Seq(Nat) /\ Len(key) = KeyLen

XonlyKeys == {key \in Seq(Nat) : Len(key) = KeyLen}

KeyList(keys) ==
  /\ keys \in Seq(XonlyKeys)
  /\ Len(keys) \in Nat \ {0}
  /\ DOMAIN keys = 1..Len(keys)
  /\ \A i \in 1..Len(keys) : Xonly(keys[i])

-----------------------------------------------------------------------------
(* Pieces. *)

(* The encodings of a number, by its size.                                 *)
ZeroPushed == <<0>>
SmallPushed(n) == <<OP_1 - 1 + n>>
OneBytePushed(n) == <<1, n>>
TwoBytesPushed(n) == <<2, n % 256, n \div 256>>
ThreeBytesPushed(n) == <<3, n % 256, n \div 256, 0>>

LEMMA PushNumberCases ==
  ASSUME NEW n \in Nat
  PROVE  /\ n = 0 => PushNumber(n) = ZeroPushed
         /\ 1 <= n /\ n <= 16 => PushNumber(n) = SmallPushed(n)
         /\ 17 <= n /\ n <= 127 => PushNumber(n) = OneBytePushed(n)
         /\ 128 <= n /\ n <= 32767 => PushNumber(n) = TwoBytesPushed(n)
         /\ n > 32767 => PushNumber(n) = ThreeBytesPushed(n)
<1> DEFINE zero == n = 0
           small == n \in 1..16
           one_byte == n \in 17..127
           low == 128
           high == 32767
           two_bytes == n \in low..high
           three_bytes == n > 32767
<1>1. PushNumber(n) = CASE zero -> ZeroPushed [] small -> SmallPushed(n)
                        [] one_byte -> OneBytePushed(n)
                        [] two_bytes -> TwoBytesPushed(n)
                        [] three_bytes -> ThreeBytesPushed(n)
  BY DEF PushNumber, ZeroPushed, SmallPushed, OneBytePushed, TwoBytesPushed,
         ThreeBytesPushed
<1>2. zero <=> n = 0
  OBVIOUS
<1>3. small <=> 1 <= n /\ n <= 16
  OBVIOUS
<1>4. one_byte <=> 17 <= n /\ n <= 127
  OBVIOUS
<1>5. two_bytes <=> 128 <= n /\ n <= 32767
  <2>1. low \in Nat /\ high \in Nat
    OBVIOUS
  <2>2. (low <= n <=> 128 <= n) /\ (n <= high <=> n <= 32767)
    OBVIOUS
  <2> HIDE DEF low, high
  <2>3. n \in low..high <=> low <= n /\ n <= high
    BY <2>1
  <2> QED
    BY <2>2, <2>3
<1>6. three_bytes <=> 32767 < n
  OBVIOUS
<1> HIDE DEF zero, small, one_byte, two_bytes, three_bytes
<1>7. n = 0 => PushNumber(n) = ZeroPushed
  BY <1>1, <1>2, <1>3, <1>4, <1>5, <1>6
<1>8. 1 <= n /\ n <= 16 => PushNumber(n) = SmallPushed(n)
  BY <1>1, <1>2, <1>3, <1>4, <1>5, <1>6
<1>9. 17 <= n /\ n <= 127 => PushNumber(n) = OneBytePushed(n)
  BY <1>1, <1>2, <1>3, <1>4, <1>5, <1>6
<1>10. 128 <= n /\ n <= 32767 => PushNumber(n) = TwoBytesPushed(n)
  BY <1>1, <1>2, <1>3, <1>4, <1>5, <1>6
<1>11. n > 32767 => PushNumber(n) = ThreeBytesPushed(n)
  BY <1>1, <1>2, <1>3, <1>4, <1>5, <1>6
<1> QED
  BY <1>7, <1>8, <1>9, <1>10, <1>11

(* At most four bytes, the opcode included.                                *)
LEMMA PushNumberTyped ==
  ASSUME NEW n \in Nat
  PROVE  PushNumber(n) \in Seq(Nat) /\ Len(PushNumber(n)) \in 1..4
<1>1. n % 256 \in Nat /\ n \div 256 \in Nat /\ OP_1 - 1 + n \in Nat
  BY DEF OP_1
<1> DEFINE Small(s) == s \in Seq(Nat) /\ Len(s) \in 1..4
<1>2. Small(ZeroPushed)
  BY DEF ZeroPushed
<1>3. Small(SmallPushed(n))
  BY <1>1 DEF SmallPushed
<1>4. Small(OneBytePushed(n))
  BY DEF OneBytePushed
<1>5. Small(TwoBytesPushed(n))
  BY <1>1 DEF TwoBytesPushed
<1>6. Small(ThreeBytesPushed(n))
  BY <1>1 DEF ThreeBytesPushed
<1>7. \/ PushNumber(n) = ZeroPushed \/ PushNumber(n) = SmallPushed(n)
      \/ PushNumber(n) = OneBytePushed(n) \/ PushNumber(n) = TwoBytesPushed(n)
      \/ PushNumber(n) = ThreeBytesPushed(n)
  BY PushNumberCases
<1> HIDE DEF Small
<1>8. Small(PushNumber(n))
  BY <1>2, <1>3, <1>4, <1>5, <1>6, <1>7, Zenon
<1> QED
  BY <1>8 DEF Small

LEMMA PushNumberBounds ==
  ASSUME NEW n \in Nat
  PROVE  /\ PushNumber(n) \in Seq(Nat)
         /\ Len(PushNumber(n)) \in Nat
         /\ Len(PushNumber(n)) >= 1 /\ Len(PushNumber(n)) <= 4
<1> DEFINE k == Len(PushNumber(n))
<1>1. PushNumber(n) \in Seq(Nat) /\ k \in 1..4
  BY PushNumberTyped
<1> HIDE DEF k
<1>2. k \in Nat /\ k >= 1 /\ k <= 4
  BY <1>1
<1> QED
  BY <1>1, <1>2 DEF k

(* Three pieces of a script.                                               *)
LEMMA ThreeScripts ==
  ASSUME NEW a \in Seq(Nat), NEW b \in Seq(Nat), NEW c \in Seq(Nat)
  PROVE  /\ a \o b \o c \in Seq(Nat)
         /\ Len(a \o b \o c) = Len(a) + Len(b) + Len(c)
         /\ \A m \in 1..Len(a) : (a \o b \o c)[m] = a[m]
         /\ \A m \in 1..Len(b) : (a \o b \o c)[Len(a) + m] = b[m]
         /\ \A m \in 1..Len(c) : (a \o b \o c)[Len(a) + Len(b) + m] = c[m]
<1> DEFINE all == a \o b \o c
<1>1. all \in Seq(Nat)
  BY ThreePieces
<1>2. Len(all) = Len(a) + Len(b) + Len(c)
  BY ThreePieces
<1>3. \A m \in 1..(Len(a) + Len(b) + Len(c)) :
         all[m] = IF m <= Len(a) THEN a[m]
                  ELSE IF m <= Len(a) + Len(b) THEN b[m - Len(a)]
                  ELSE c[m - (Len(a) + Len(b))]
  BY ThreePieces
<1>4. Len(a) \in Nat /\ Len(b) \in Nat /\ Len(c) \in Nat
  OBVIOUS
<1> HIDE DEF all
<1>5. ASSUME NEW m \in 1..Len(a)
      PROVE  all[m] = a[m]
  BY <1>3, <1>4
<1>6. ASSUME NEW m \in 1..Len(b)
      PROVE  all[Len(a) + m] = b[m]
  <2> DEFINE k == Len(a) + m
  <2>1. k \in 1..(Len(a) + Len(b) + Len(c)) /\ ~(k <= Len(a)) /\ k <= Len(a) + Len(b)
        /\ k - Len(a) = m
    BY <1>4
  <2> QED
    BY <1>3, <2>1, Zenon
<1>7. ASSUME NEW m \in 1..Len(c)
      PROVE  all[Len(a) + Len(b) + m] = c[m]
  <2> DEFINE k == Len(a) + Len(b) + m
  <2>1. k \in 1..(Len(a) + Len(b) + Len(c)) /\ ~(k <= Len(a)) /\ ~(k <= Len(a) + Len(b))
        /\ k - (Len(a) + Len(b)) = m
    BY <1>4
  <2> QED
    BY <1>3, <2>1, Zenon
<1> QED
  BY <1>1, <1>2, <1>5, <1>6, <1>7 DEF all

LEMMA EntryBytes ==
  ASSUME NEW key, Xonly(key), NEW opcode \in Nat
  PROVE  /\ Entry(key, opcode) \in Seq(Nat)
         /\ Len(Entry(key, opcode)) = EntryLen
         /\ Entry(key, opcode)[1] = OP_PUSHBYTES_32
         /\ \A m \in 1..KeyLen : Entry(key, opcode)[1 + m] = key[m]
         /\ Entry(key, opcode)[EntryLen] = opcode
<1> DEFINE a == <<OP_PUSHBYTES_32>>
           c == <<opcode>>
<1>1. /\ a \in Seq(Nat) /\ Len(a) = 1 /\ a[1] = OP_PUSHBYTES_32
      /\ c \in Seq(Nat) /\ Len(c) = 1 /\ c[1] = opcode
      /\ key \in Seq(Nat) /\ Len(key) = KeyLen
      /\ KeyLen \in Nat /\ KeyLen >= 2
  BY KeyLenAssumption DEF OP_PUSHBYTES_32, Xonly
<1>2. Entry(key, opcode) = a \o key \o c
  BY DEF Entry
<1> HIDE DEF a, c
<1>3. /\ a \o key \o c \in Seq(Nat)
      /\ Len(a \o key \o c) = Len(a) + Len(key) + Len(c)
  BY <1>1, ThreeScripts
<1>4. \A m \in 1..Len(a) : (a \o key \o c)[m] = a[m]
  BY <1>1, ThreeScripts
<1>5. \A m \in 1..Len(key) : (a \o key \o c)[Len(a) + m] = key[m]
  BY <1>1, ThreeScripts
<1>6. \A m \in 1..Len(c) : (a \o key \o c)[Len(a) + Len(key) + m] = c[m]
  BY <1>1, ThreeScripts
<1>7. EntryLen = 1 + KeyLen + 1
  BY DEF EntryLen
<1> QED
  BY <1>1, <1>2, <1>3, <1>4, <1>5, <1>6, <1>7

(* The entries of a group, end to end.                                     *)
Opcode(i) == IF i = 1 THEN OP_CHECKSIG ELSE OP_CHECKSIGADD
Entries(keys) == FlattenSeq([i \in DOMAIN keys |-> Entry(keys[i], Opcode(i))])

LEMMA EntryLenTyped == EntryLen \in Nat /\ EntryLen >= 4 /\ EntryLen = KeyLen + 2
BY KeyLenAssumption DEF EntryLen

LEMMA EntriesLaid ==
  ASSUME NEW keys, KeyList(keys)
  PROVE  /\ Entries(keys) \in Seq(Nat)
         /\ Len(Entries(keys)) = EntryLen * Len(keys)
         /\ \A i \in 1..Len(keys), k \in 1..EntryLen :
              Entries(keys)[EntryLen * (i - 1) + k] = Entry(keys[i], Opcode(i))[k]
<1> DEFINE s == [i \in DOMAIN keys |-> Entry(keys[i], Opcode(i))]
           n == Len(keys)
<1>1. n \in Nat /\ n # 0 /\ DOMAIN keys = 1..n
  BY DEF KeyList
<1>2. Len(s) = n
  BY <1>1
<1>3. ASSUME NEW i \in 1..n
      PROVE  s[i] = Entry(keys[i], Opcode(i)) /\ s[i] \in Seq(Nat) /\ Len(s[i]) = EntryLen
  <2>1. Xonly(keys[i])
    BY DEF KeyList
  <2>2. Opcode(i) \in Nat
    BY DEF Opcode, OP_CHECKSIG, OP_CHECKSIGADD
  <2> QED
    BY <1>1, <2>1, <2>2, EntryBytes
<1>4. Entries(keys) = FlattenSeq(s)
  BY DEF Entries
<1> HIDE DEF s
<1> DEFINE L == EntryLen
<1>5. /\ L \in Nat /\ Len(s) \in Nat /\ Len(s) # 0
      /\ \A i \in 1..Len(s) : s[i] \in Seq(Nat) /\ Len(s[i]) = L
  BY <1>1, <1>2, <1>3, EntryLenTyped
<1> HIDE DEF L
<1>6. FlattenSeq(s) \in Seq(Nat)
  BY <1>5, FlattenBlocks
<1>7. Len(FlattenSeq(s)) = L * Len(s)
  BY <1>5, FlattenBlocks
<1>8. BlocksLaid(FlattenSeq(s), s, L)
  BY <1>5, FlattenBlocks
<1>9. \A i \in 1..Len(s), k \in 1..L : FlattenSeq(s)[L * (i - 1) + k] = s[i][k]
  BY <1>8, Zenon DEF BlocksLaid
<1> QED
  BY <1>2, <1>3, <1>4, <1>6, <1>7, <1>9 DEF L

(* A group: the entries, the count and an opcode.                          *)
Compare(is_final) == IF is_final THEN OP_NUMEQUAL ELSE OP_NUMEQUALVERIFY

LEMMA GroupPieces ==
  ASSUME NEW keys, KeyList(keys), NEW is_final \in BOOLEAN
  PROVE  /\ MultisigGroup(keys, is_final)
              = Entries(keys) \o PushNumber(Len(keys)) \o <<Compare(is_final)>>
         /\ PushNumber(Len(keys)) \in Seq(Nat) /\ Len(PushNumber(Len(keys))) \in 1..4
         /\ <<Compare(is_final)>> \in Seq(Nat) /\ Len(<<Compare(is_final)>>) = 1
<1>1. MultisigGroup(keys, is_final)
        = Entries(keys) \o PushNumber(Len(keys)) \o <<Compare(is_final)>>
  BY Zenon DEF MultisigGroup, Entries, Opcode, Compare
<1>2. Len(keys) \in Nat
  BY DEF KeyList
<1>3. Compare(is_final) \in Nat
  BY DEF Compare, OP_NUMEQUAL, OP_NUMEQUALVERIFY
<1> QED
  BY <1>1, <1>2, <1>3, PushNumberTyped

LEMMA GroupTyped ==
  ASSUME NEW keys, KeyList(keys), NEW is_final \in BOOLEAN
  PROVE  /\ MultisigGroup(keys, is_final) \in Seq(Nat)
         /\ Len(MultisigGroup(keys, is_final)) = MultisigGroupLen(Len(keys))
         /\ MultisigGroupLen(Len(keys)) \in Nat
<1> DEFINE e == Entries(keys)
           c == PushNumber(Len(keys))
           l == <<Compare(is_final)>>
<1>1. /\ e \in Seq(Nat) /\ Len(e) = EntryLen * Len(keys)
      /\ c \in Seq(Nat) /\ Len(c) \in 1..4 /\ l \in Seq(Nat) /\ Len(l) = 1
      /\ MultisigGroup(keys, is_final) = e \o c \o l
  BY EntriesLaid, GroupPieces
<1>2. EntryLen * Len(keys) \in Nat
  BY EntryLenTyped DEF KeyList
<1>3. MultisigGroupLen(Len(keys)) = EntryLen * Len(keys) + Len(c) + 1
  BY DEF MultisigGroupLen
<1> HIDE DEF e, c, l
<1>4. e \o c \o l \in Seq(Nat) /\ Len(e \o c \o l) = Len(e) + Len(c) + Len(l)
  BY <1>1, ThreeScripts
<1> QED
  BY <1>1, <1>2, <1>3, <1>4

-----------------------------------------------------------------------------
(* The description of a group, byte by byte, is the group. *)

(* The byte an offset into the entries stands for.                         *)
LEMMA EntryOffset ==
  ASSUME NEW n \in Nat, NEW off \in Nat, off < EntryLen * n
  PROVE  /\ off \div EntryLen \in 0..(n - 1)
         /\ off % EntryLen \in 0..(KeyLen + 1)
         /\ off = EntryLen * (off \div EntryLen) + (off % EntryLen)
<1> DEFINE L == EntryLen
           q == off \div L
           r == off % L
<1>1. L \in Nat \ {0} /\ L = KeyLen + 2 /\ KeyLen \in Nat
  BY EntryLenTyped, KeyLenAssumption
<1> HIDE DEF L
<1>2. q \in Nat /\ r \in 0..(L - 1)
  BY <1>1
<1>3. off = L * q + r
  BY <1>1
<1> HIDE DEF q, r
<1>4. L * q + r < L * n
  BY <1>3 DEF L
<1>5. q < n
  BY <1>1, <1>2, <1>4
<1>6. q \in 0..(n - 1)
  BY <1>2, <1>5
<1>7. r \in 0..(KeyLen + 1)
  BY <1>1, <1>2
<1> QED
  BY <1>3, <1>6, <1>7 DEF L, q, r

LEMMA GroupByteCases ==
  ASSUME NEW keys, KeyList(keys), NEW off \in Nat
  PROVE  LET entries == EntryLen * Len(keys)
             i == off \div EntryLen
             k == off % EntryLen
             count == PushNumber(Len(keys))
         IN  /\ off < entries /\ k = 0 => GroupByte(keys, off) = OP_PUSHBYTES_32
             /\ off < entries /\ k \in 1..KeyLen => GroupByte(keys, off) = keys[i + 1][k]
             /\ off < entries /\ k = KeyLen + 1 =>
                  GroupByte(keys, off) = IF i = 0 THEN OP_CHECKSIG ELSE OP_CHECKSIGADD
             /\ entries <= off /\ off < entries + Len(count) =>
                  GroupByte(keys, off) = count[off - entries + 1]
             /\ off = entries + Len(count) => GroupByte(keys, off) = OP_NUMEQUALVERIFY
<1> DEFINE entries == EntryLen * Len(keys)
           i == off \div EntryLen
           k == off % EntryLen
           count == PushNumber(Len(keys))
           g1 == off < entries /\ k = 0
           g2 == off < entries /\ k \in 1..KeyLen
           g3 == off < entries /\ k = KeyLen + 1
           g4 == off \in entries..(entries + Len(count) - 1)
           g5 == off = entries + Len(count)
           v2 == keys[i + 1][k]
           v3 == IF i = 0 THEN OP_CHECKSIG ELSE OP_CHECKSIGADD
           v4 == count[off - entries + 1]
<1>1. GroupByte(keys, off) = CASE g1 -> OP_PUSHBYTES_32 [] g2 -> v2 [] g3 -> v3
                               [] g4 -> v4 [] g5 -> OP_NUMEQUALVERIFY
  BY DEF GroupByte
<1>2. entries \in Nat /\ Len(count) \in 1..4 /\ KeyLen \in Nat /\ k \in Nat
  BY EntryLenTyped, PushNumberTyped, KeyLenAssumption DEF KeyList
<1> HIDE DEF entries, i, k, count, v2, v3, v4
<1>3. g1 <=> off < entries /\ k = 0
  OBVIOUS
<1>4. g2 <=> off < entries /\ 1 <= k /\ k <= KeyLen
  BY <1>2
<1>5. g3 <=> off < entries /\ k = KeyLen + 1
  OBVIOUS
<1>6. g4 <=> entries <= off /\ off < entries + Len(count)
  BY <1>2
<1>7. g5 <=> off = entries + Len(count)
  OBVIOUS
<1>8. k \in 1..KeyLen <=> 1 <= k /\ k <= KeyLen
  BY <1>2
<1> HIDE DEF g1, g2, g3, g4, g5
<1>9. off < entries /\ k = 0 => GroupByte(keys, off) = OP_PUSHBYTES_32
  BY <1>1, <1>2, <1>3, <1>4, <1>5, <1>6, <1>7
<1>10. off < entries /\ k \in 1..KeyLen => GroupByte(keys, off) = v2
  BY <1>1, <1>2, <1>3, <1>4, <1>5, <1>6, <1>7, <1>8
<1>11. off < entries /\ k = KeyLen + 1 => GroupByte(keys, off) = v3
  BY <1>1, <1>2, <1>3, <1>4, <1>5, <1>6, <1>7
<1>12. entries <= off /\ off < entries + Len(count) => GroupByte(keys, off) = v4
  BY <1>1, <1>2, <1>3, <1>4, <1>5, <1>6, <1>7
<1>13. off = entries + Len(count) => GroupByte(keys, off) = OP_NUMEQUALVERIFY
  BY <1>1, <1>2, <1>3, <1>4, <1>5, <1>6, <1>7
<1> QED
  BY <1>9, <1>10, <1>11, <1>12, <1>13, Zenon DEF entries, i, k, count, v2, v3, v4

(* The byte of an entry an offset stands for.                              *)
LEMMA EntriesAt ==
  ASSUME NEW keys, KeyList(keys), NEW off \in Nat, off < EntryLen * Len(keys)
  PROVE  Entries(keys)[off + 1] = GroupByte(keys, off)
<1> DEFINE n == Len(keys)
           i == off \div EntryLen
           k == off % EntryLen
           m == i + 1
           entry == Entry(keys[m], Opcode(m))
<1>1. n \in Nat /\ KeyLen \in Nat /\ EntryLen = KeyLen + 2 /\ EntryLen \in Nat
  BY EntryLenTyped, KeyLenAssumption DEF KeyList
<1>2. i \in 0..(n - 1) /\ k \in 0..(KeyLen + 1) /\ off = EntryLen * i + k
  BY <1>1, EntryOffset
<1>3. /\ off < EntryLen * n /\ k = 0 => GroupByte(keys, off) = OP_PUSHBYTES_32
      /\ off < EntryLen * n /\ k \in 1..KeyLen => GroupByte(keys, off) = keys[m][k]
      /\ off < EntryLen * n /\ k = KeyLen + 1 =>
           GroupByte(keys, off) = IF i = 0 THEN OP_CHECKSIG ELSE OP_CHECKSIGADD
  BY GroupByteCases, Zenon
<1>4. m \in 1..n /\ k + 1 \in 1..EntryLen /\ off + 1 = EntryLen * (m - 1) + (k + 1)
  <2> HIDE DEF i, k
  <2>1. (i + 1) - 1 = i /\ i + 1 \in 1..n
    BY <1>1, <1>2
  <2>2. EntryLen * i \in Nat
    BY <1>1, <1>2
  <2> QED
    BY <1>1, <1>2, <2>1, <2>2
<1>5. Entries(keys)[EntryLen * (m - 1) + (k + 1)] = entry[k + 1]
  BY <1>4, EntriesLaid, Zenon
<1>6. Xonly(keys[m]) /\ Opcode(m) \in Nat
  BY <1>4 DEF KeyList, Opcode, OP_CHECKSIG, OP_CHECKSIGADD
<1>7. /\ entry[1] = OP_PUSHBYTES_32
      /\ \A j \in 1..KeyLen : entry[1 + j] = keys[m][j]
      /\ entry[EntryLen] = Opcode(m)
  BY <1>6, EntryBytes
<1>8. Opcode(m) = IF i = 0 THEN OP_CHECKSIG ELSE OP_CHECKSIGADD
  <2> HIDE DEF i
  <2> QED
    BY <1>2 DEF Opcode
<1>9. entry[k + 1] = GroupByte(keys, off)
  <2> HIDE DEF i, k, m, entry
  <2>1. CASE k = 0
    BY <1>3, <1>7, <2>1
  <2>2. CASE k \in 1..KeyLen
    <3>1. k + 1 = 1 + k
      BY <1>1, <2>2
    <3> QED
      BY <1>3, <1>7, <2>2, <3>1
  <2>3. CASE k = KeyLen + 1
    <3>1. k + 1 = EntryLen
      BY <1>1, <2>3
    <3> QED
      BY <1>3, <1>7, <1>8, <2>3, <3>1
  <2> QED
    BY <1>1, <1>2, <2>1, <2>2, <2>3
<1> QED
  BY <1>4, <1>5, <1>9, Zenon

LEMMA GroupBytes ==
  ASSUME NEW keys, KeyList(keys), NEW off \in Nat, off < MultisigGroupLen(Len(keys))
  PROVE  MultisigGroup(keys, FALSE)[off + 1] = GroupByte(keys, off)
<1> DEFINE e == Entries(keys)
           c == PushNumber(Len(keys))
           l == <<Compare(FALSE)>>
<1>1. /\ e \in Seq(Nat) /\ Len(e) = EntryLen * Len(keys)
      /\ c \in Seq(Nat) /\ Len(c) \in 1..4 /\ l \in Seq(Nat) /\ Len(l) = 1
      /\ MultisigGroup(keys, FALSE) = e \o c \o l
  BY EntriesLaid, GroupPieces
<1>2. EntryLen * Len(keys) \in Nat
  BY EntryLenTyped DEF KeyList
<1>3. MultisigGroupLen(Len(keys)) = EntryLen * Len(keys) + Len(c) + 1
  BY DEF MultisigGroupLen
<1>4. l[1] = OP_NUMEQUALVERIFY
  BY DEF Compare
<1>5. /\ off < Len(e) => e[off + 1] = GroupByte(keys, off)
      /\ Len(e) <= off /\ off < Len(e) + Len(c) =>
           GroupByte(keys, off) = c[off - Len(e) + 1]
      /\ off = Len(e) + Len(c) => GroupByte(keys, off) = OP_NUMEQUALVERIFY
  <2>1. off \in Nat
    BY <1>1, <1>2, <1>3
  <2>2. off < Len(e) => e[off + 1] = GroupByte(keys, off)
    BY <1>1, <2>1, EntriesAt
  <2>3. Len(e) <= off /\ off < Len(e) + Len(c) =>
           GroupByte(keys, off) = c[off - Len(e) + 1]
    BY <1>1, <2>1, GroupByteCases
  <2>4. off = Len(e) + Len(c) => GroupByte(keys, off) = OP_NUMEQUALVERIFY
    BY <1>1, <2>1, GroupByteCases
  <2> QED
    BY <2>2, <2>3, <2>4
<1> HIDE DEF e, c, l
<1>6. \A m \in 1..Len(e) : (e \o c \o l)[m] = e[m]
  BY <1>1, ThreeScripts
<1>7. \A m \in 1..Len(c) : (e \o c \o l)[Len(e) + m] = c[m]
  BY <1>1, ThreeScripts
<1>8. \A m \in 1..Len(l) : (e \o c \o l)[Len(e) + Len(c) + m] = l[m]
  BY <1>1, ThreeScripts
<1>9. Len(e) \in Nat /\ Len(c) \in Nat /\ off \in Nat /\ off < Len(e) + Len(c) + 1
  BY <1>1, <1>2, <1>3
<1>10. CASE off < Len(e)
  <2>1. off + 1 \in 1..Len(e)
    BY <1>9, <1>10
  <2>2. (e \o c \o l)[off + 1] = e[off + 1]
    BY <1>6, <2>1, Zenon
  <2> QED
    BY <1>1, <1>5, <1>10, <2>2, Zenon
<1>11. CASE Len(e) <= off /\ off < Len(e) + Len(c)
  <2> DEFINE m == off - Len(e) + 1
  <2>1. m \in 1..Len(c) /\ Len(e) + m = off + 1
    BY <1>9, <1>11
  <2> QED
    BY <1>1, <1>5, <1>7, <1>11, <2>1, Zenon
<1>12. CASE off = Len(e) + Len(c)
  <2>1. 1 \in 1..Len(l) /\ Len(e) + Len(c) + 1 = off + 1
    BY <1>1, <1>9, <1>12
  <2>2. (e \o c \o l)[off + 1] = l[1]
    BY <1>8, <2>1, Zenon
  <2> QED
    BY <1>1, <1>4, <1>5, <1>12, <2>2, Zenon
<1>13. off < Len(e) \/ (Len(e) <= off /\ off < Len(e) + Len(c)) \/ off = Len(e) + Len(c)
  BY <1>9
<1> QED
  BY <1>10, <1>11, <1>12, <1>13

(* The whole prefix.                                                       *)
SignerPrefix(intent) ==
  Entry(intent.depositor_pk, OP_CHECKSIGVERIFY)
    \o MultisigGroup(intent.keeper_pks, FALSE)
    \o MultisigGroup(intent.challenger_pks, FALSE)

LEMMA PrefixLaid ==
  ASSUME NEW intent, Xonly(intent.depositor_pk), KeyList(intent.keeper_pks),
         KeyList(intent.challenger_pks)
  PROVE  /\ AssertPrefix(intent) = SignerPrefix(intent)
         /\ AssertPrefix(intent) \in Seq(Nat)
         /\ Len(AssertPrefix(intent)) = AssertPrefixLen(intent)
         /\ AssertPrefixLen(intent) \in Nat /\ AssertPrefixLen(intent) >= EntryLen
<1> DEFINE a == Entry(intent.depositor_pk, OP_CHECKSIGVERIFY)
           b == MultisigGroup(intent.keeper_pks, FALSE)
           c == MultisigGroup(intent.challenger_pks, FALSE)
           len == AssertPrefixLen(intent)
<1>1. /\ a \in Seq(Nat) /\ Len(a) = EntryLen
      /\ b \in Seq(Nat) /\ Len(b) = MultisigGroupLen(Len(intent.keeper_pks))
      /\ c \in Seq(Nat) /\ Len(c) = MultisigGroupLen(Len(intent.challenger_pks))
  <2>1. OP_CHECKSIGVERIFY \in Nat
    BY DEF OP_CHECKSIGVERIFY
  <2> QED
    BY <2>1, EntryBytes, GroupTyped
<1>2. len = Len(a) + Len(b) + Len(c)
  BY <1>1 DEF AssertPrefixLen
<1>3. Len(a) \in Nat /\ Len(b) \in Nat /\ Len(c) \in Nat
  BY <1>1, LenProperties
<1> DEFINE byte(off) == AssertPrefixByte(intent, off)
<1>4. ASSUME NEW off \in Nat
      PROVE  /\ off < Len(a) => byte(off) = a[off + 1]
             /\ Len(a) <= off /\ off < Len(a) + Len(b) =>
                  byte(off) = GroupByte(intent.keeper_pks, off - Len(a))
             /\ Len(a) + Len(b) <= off /\ off < len =>
                  byte(off) = GroupByte(intent.challenger_pks, off - (Len(a) + Len(b)))
  <2> DEFINE k == GroupByte(intent.keeper_pks, off - Len(a))
             h == GroupByte(intent.challenger_pks, off - (Len(a) + Len(b)))
             p == a[off + 1]
             g1 == off < Len(a)
             g2 == off \in Len(a)..(Len(a) + Len(b) - 1)
             g3 == off \in (Len(a) + Len(b))..(len - 1)
  <2>1. byte(off) = CASE g1 -> p [] g2 -> k [] g3 -> h
    BY <1>1 DEF AssertPrefixByte
  <2> HIDE DEF a, b, c, len, byte, k, h, p
  <2>2. g1 <=> off < Len(a)
    OBVIOUS
  <2>3. g2 <=> Len(a) <= off /\ off < Len(a) + Len(b)
    BY <1>3
  <2>4. g3 <=> Len(a) + Len(b) <= off /\ off < len
    BY <1>2, <1>3
  <2> HIDE DEF g1, g2, g3
  <2>5. off < Len(a) => byte(off) = p
    BY <1>3, <2>1, <2>2, <2>3, <2>4
  <2>6. Len(a) <= off /\ off < Len(a) + Len(b) => byte(off) = k
    BY <1>3, <2>1, <2>2, <2>3, <2>4
  <2>7. Len(a) + Len(b) <= off /\ off < len => byte(off) = h
    BY <1>3, <2>1, <2>2, <2>3, <2>4
  <2> QED
    BY <2>5, <2>6, <2>7 DEF k, h, p
<1>5. ASSUME NEW off \in Nat, off < Len(b)
      PROVE  b[off + 1] = GroupByte(intent.keeper_pks, off)
  BY <1>1, <1>5, GroupBytes
<1>6. ASSUME NEW off \in Nat, off < Len(c)
      PROVE  c[off + 1] = GroupByte(intent.challenger_pks, off)
  BY <1>1, <1>6, GroupBytes
<1>7. SignerPrefix(intent) = a \o b \o c
  BY DEF SignerPrefix
<1>8. AssertPrefix(intent) = [m \in 1..len |-> byte(m - 1)]
  BY DEF AssertPrefix
<1> HIDE DEF a, b, c, len, byte
<1>9. a \o b \o c \in Seq(Nat)
  BY <1>1, ThreeScripts
<1>10. Len(a \o b \o c) = len
  <2>1. Len(a \o b \o c) = Len(a) + Len(b) + Len(c)
    BY <1>1, ThreeScripts
  <2> QED
    BY <1>2, <2>1
<1>11. \A m \in 1..Len(a) : (a \o b \o c)[m] = a[m]
  BY <1>1, ThreeScripts
<1>12. \A m \in 1..Len(b) : (a \o b \o c)[Len(a) + m] = b[m]
  BY <1>1, ThreeScripts
<1>13. \A m \in 1..Len(c) : (a \o b \o c)[Len(a) + Len(b) + m] = c[m]
  BY <1>1, ThreeScripts
<1>14. ASSUME NEW m \in 1..len
       PROVE  byte(m - 1) = (a \o b \o c)[m]
  <2>1. m - 1 \in Nat /\ m \in Nat /\ (m - 1) + 1 = m
    BY <1>2, <1>3
  <2>2. CASE m <= Len(a)
    BY <1>3, <1>4, <1>11, <2>1, <2>2
  <2>3. CASE Len(a) < m /\ m <= Len(a) + Len(b)
    <3> DEFINE off == (m - 1) - Len(a)
    <3>1. off \in Nat /\ off < Len(b) /\ off + 1 \in 1..Len(b) /\ Len(a) + (off + 1) = m
      BY <1>3, <2>1, <2>3
    <3>2. byte(m - 1) = GroupByte(intent.keeper_pks, off)
      BY <1>3, <1>4, <2>1, <2>3
    <3>3. (a \o b \o c)[m] = b[off + 1]
      BY <1>12, <3>1, Zenon
    <3> QED
      BY <1>5, <3>1, <3>2, <3>3, Zenon
  <2>4. CASE Len(a) + Len(b) < m
    <3> DEFINE off == (m - 1) - (Len(a) + Len(b))
    <3>1. off \in Nat /\ off < Len(c) /\ off + 1 \in 1..Len(c)
            /\ Len(a) + Len(b) + (off + 1) = m
      BY <1>2, <1>3, <2>1, <2>4
    <3>2. byte(m - 1) = GroupByte(intent.challenger_pks, off)
      BY <1>2, <1>3, <1>4, <2>1, <2>4
    <3>3. (a \o b \o c)[m] = c[off + 1]
      BY <1>13, <3>1, Zenon
    <3> QED
      BY <1>6, <3>1, <3>2, <3>3, Zenon
  <2>5. m <= Len(a) \/ (Len(a) < m /\ m <= Len(a) + Len(b)) \/ Len(a) + Len(b) < m
    BY <1>3, <2>1
  <2> QED
    BY <2>2, <2>3, <2>4, <2>5
<1>15. AssertPrefix(intent) = a \o b \o c
  <2>1. a \o b \o c = [m \in 1..len |-> (a \o b \o c)[m]]
    <3> DEFINE abc == a \o b \o c
    <3>1. abc \in Seq(Nat) /\ Len(abc) = len
      BY <1>9, <1>10
    <3> HIDE DEF abc
    <3>2. abc = [m \in 1..len |-> abc[m]]
      BY <3>1
    <3> QED
      BY <3>2 DEF abc
  <2>2. [m \in 1..len |-> byte(m - 1)] = [m \in 1..len |-> (a \o b \o c)[m]]
    BY <1>14, Zenon
  <2> QED
    BY <1>8, <2>1, <2>2, Zenon
<1>16. len \in Nat /\ len >= EntryLen
  BY <1>1, <1>2, <1>3, EntryLenTyped
<1> QED
  BY <1>7, <1>9, <1>10, <1>15, <1>16 DEF len

-----------------------------------------------------------------------------
(* Leaves, piece by piece. *)

LEMMA BytesOne ==
  ASSUME NEW p
  PROVE  Bytes(<<p>>) = p.bytes
<1> DEFINE pieces == <<p>>
           y == [i \in DOMAIN pieces |-> pieces[i].bytes]
<1>1. Len(y) = 1 /\ y[1] = p.bytes
  OBVIOUS
<1>10. Bytes(pieces) = FlattenSeq(y)
  BY DEF Bytes
<1>11. Len(y) \in Nat /\ Len(y) # 0
  BY <1>1
<1> HIDE DEF y, pieces
<1> PICK f : /\ FlattenSeq(y) = f[Len(y)]
             /\ f[1] = y[1]
             /\ \A i \in 2..Len(y) : f[i] = f[i - 1] \o y[i]
  BY <1>11, FlattenSeqSteps, Zenon
<1> QED
  BY <1>1, <1>10 DEF pieces

LEMMA BytesTwo ==
  ASSUME NEW pieces, DOMAIN pieces = 1..2
  PROVE  Bytes(pieces) = pieces[1].bytes \o pieces[2].bytes
<1> DEFINE y == [i \in DOMAIN pieces |-> pieces[i].bytes]
<1>1. Len(y) = 2 /\ y[1] = pieces[1].bytes /\ y[2] = pieces[2].bytes
  OBVIOUS
<1>10. Bytes(pieces) = FlattenSeq(y)
  BY DEF Bytes
<1>11. Len(y) \in Nat /\ Len(y) # 0
  BY <1>1
<1> HIDE DEF y
<1> PICK f : /\ FlattenSeq(y) = f[Len(y)]
             /\ f[1] = y[1]
             /\ \A i \in 2..Len(y) : f[i] = f[i - 1] \o y[i]
  BY <1>11, FlattenSeqSteps, Zenon
<1>2. f[2] = pieces[1].bytes \o pieces[2].bytes
  <2>1. 2 \in 2..Len(y) /\ 2 - 1 = 1
    BY <1>1
  <2>2. f[2] = f[2 - 1] \o y[2]
    BY <2>1, Zenon
  <2> QED
    BY <1>1, <2>1, <2>2
<1> QED
  BY <1>1, <1>2, <1>10

LEMMA BytesThree ==
  ASSUME NEW pieces, DOMAIN pieces = 1..3
  PROVE  Bytes(pieces) = pieces[1].bytes \o pieces[2].bytes \o pieces[3].bytes
<1> DEFINE y == [i \in DOMAIN pieces |-> pieces[i].bytes]
<1>1. Len(y) = 3 /\ y[1] = pieces[1].bytes /\ y[2] = pieces[2].bytes /\ y[3] = pieces[3].bytes
  OBVIOUS
<1>10. Bytes(pieces) = FlattenSeq(y)
  BY DEF Bytes
<1>11. Len(y) \in Nat /\ Len(y) # 0
  BY <1>1
<1> HIDE DEF y
<1> PICK f : /\ FlattenSeq(y) = f[Len(y)]
             /\ f[1] = y[1]
             /\ \A i \in 2..Len(y) : f[i] = f[i - 1] \o y[i]
  BY <1>11, FlattenSeqSteps, Zenon
<1>2. f[2] = pieces[1].bytes \o pieces[2].bytes
  <2>1. 2 \in 2..Len(y) /\ 2 - 1 = 1
    BY <1>1
  <2>2. f[2] = f[2 - 1] \o y[2]
    BY <2>1, Zenon
  <2> QED
    BY <1>1, <2>1, <2>2
<1>3. f[3] = pieces[1].bytes \o pieces[2].bytes \o pieces[3].bytes
  <2>1. 3 \in 2..Len(y) /\ 3 - 1 = 2
    BY <1>1
  <2>2. f[3] = f[3 - 1] \o y[3]
    BY <2>1, Zenon
  <2> QED
    BY <1>1, <1>2, <2>1, <2>2
<1> QED
  BY <1>1, <1>3, <1>10

LEMMA BytesFour ==
  ASSUME NEW pieces, DOMAIN pieces = 1..4
  PROVE  Bytes(pieces) = pieces[1].bytes \o pieces[2].bytes \o pieces[3].bytes \o pieces[4].bytes
<1> DEFINE y == [i \in DOMAIN pieces |-> pieces[i].bytes]
<1>1. Len(y) = 4 /\ y[1] = pieces[1].bytes /\ y[2] = pieces[2].bytes /\ y[3] = pieces[3].bytes /\ y[4] = pieces[4].bytes
  OBVIOUS
<1>10. Bytes(pieces) = FlattenSeq(y)
  BY DEF Bytes
<1>11. Len(y) \in Nat /\ Len(y) # 0
  BY <1>1
<1> HIDE DEF y
<1> PICK f : /\ FlattenSeq(y) = f[Len(y)]
             /\ f[1] = y[1]
             /\ \A i \in 2..Len(y) : f[i] = f[i - 1] \o y[i]
  BY <1>11, FlattenSeqSteps, Zenon
<1>2. f[2] = pieces[1].bytes \o pieces[2].bytes
  <2>1. 2 \in 2..Len(y) /\ 2 - 1 = 1
    BY <1>1
  <2>2. f[2] = f[2 - 1] \o y[2]
    BY <2>1, Zenon
  <2> QED
    BY <1>1, <2>1, <2>2
<1>3. f[3] = pieces[1].bytes \o pieces[2].bytes \o pieces[3].bytes
  <2>1. 3 \in 2..Len(y) /\ 3 - 1 = 2
    BY <1>1
  <2>2. f[3] = f[3 - 1] \o y[3]
    BY <2>1, Zenon
  <2> QED
    BY <1>1, <1>2, <2>1, <2>2
<1>4. f[4] = pieces[1].bytes \o pieces[2].bytes \o pieces[3].bytes \o pieces[4].bytes
  <2>1. 4 \in 2..Len(y) /\ 4 - 1 = 3
    BY <1>1
  <2>2. f[4] = f[4 - 1] \o y[4]
    BY <2>1, Zenon
  <2> QED
    BY <1>1, <1>3, <2>1, <2>2
<1> QED
  BY <1>1, <1>4, <1>10

LEMMA BytesFive ==
  ASSUME NEW pieces, DOMAIN pieces = 1..5
  PROVE  Bytes(pieces) = pieces[1].bytes \o pieces[2].bytes \o pieces[3].bytes \o pieces[4].bytes \o pieces[5].bytes
<1> DEFINE y == [i \in DOMAIN pieces |-> pieces[i].bytes]
<1>1. Len(y) = 5 /\ y[1] = pieces[1].bytes /\ y[2] = pieces[2].bytes /\ y[3] = pieces[3].bytes /\ y[4] = pieces[4].bytes /\ y[5] = pieces[5].bytes
  OBVIOUS
<1>10. Bytes(pieces) = FlattenSeq(y)
  BY DEF Bytes
<1>11. Len(y) \in Nat /\ Len(y) # 0
  BY <1>1
<1> HIDE DEF y
<1> PICK f : /\ FlattenSeq(y) = f[Len(y)]
             /\ f[1] = y[1]
             /\ \A i \in 2..Len(y) : f[i] = f[i - 1] \o y[i]
  BY <1>11, FlattenSeqSteps, Zenon
<1>2. f[2] = pieces[1].bytes \o pieces[2].bytes
  <2>1. 2 \in 2..Len(y) /\ 2 - 1 = 1
    BY <1>1
  <2>2. f[2] = f[2 - 1] \o y[2]
    BY <2>1, Zenon
  <2> QED
    BY <1>1, <2>1, <2>2
<1>3. f[3] = pieces[1].bytes \o pieces[2].bytes \o pieces[3].bytes
  <2>1. 3 \in 2..Len(y) /\ 3 - 1 = 2
    BY <1>1
  <2>2. f[3] = f[3 - 1] \o y[3]
    BY <2>1, Zenon
  <2> QED
    BY <1>1, <1>2, <2>1, <2>2
<1>4. f[4] = pieces[1].bytes \o pieces[2].bytes \o pieces[3].bytes \o pieces[4].bytes
  <2>1. 4 \in 2..Len(y) /\ 4 - 1 = 3
    BY <1>1
  <2>2. f[4] = f[4 - 1] \o y[4]
    BY <2>1, Zenon
  <2> QED
    BY <1>1, <1>3, <2>1, <2>2
<1>5. f[5] = pieces[1].bytes \o pieces[2].bytes \o pieces[3].bytes \o pieces[4].bytes \o pieces[5].bytes
  <2>1. 5 \in 2..Len(y) /\ 5 - 1 = 4
    BY <1>1
  <2>2. f[5] = f[5 - 1] \o y[5]
    BY <2>1, Zenon
  <2> QED
    BY <1>1, <1>4, <2>1, <2>2
<1> QED
  BY <1>1, <1>5, <1>10

(* A leaf is unbuilt or all there, and it fits.                            *)
LEMMA BuiltAll ==
  ASSUME NEW pieces, NEW buf_max
  PROVE  Built(pieces, buf_max) \in {Unbuilt, Bytes(pieces)}
BY DEF Built

LEMMA BuiltFourFits ==
  ASSUME NEW pieces, DOMAIN pieces = 1..4, NEW buf_max \in Nat,
         Built(pieces, buf_max) # Unbuilt,
         pieces[1].bytes \in Seq(Nat), pieces[2].bytes \in Seq(Nat),
         pieces[3].bytes \in Seq(Nat), pieces[4].bytes \in Seq(Nat),
         pieces[4].at_most \in Nat, Len(pieces[4].bytes) <= pieces[4].at_most
  PROVE  Len(Bytes(pieces)) <= buf_max
<1> DEFINE a == pieces[1].bytes
           b == pieces[2].bytes
           c == pieces[3].bytes
           d == pieces[4].bytes
           most == pieces[4].at_most
           front == a \o b \o c
           head == SubSeq(pieces, 1, 3)
<1>1. \A i \in DOMAIN pieces :
         Len(Bytes(SubSeq(pieces, 1, i - 1))) + pieces[i].at_most <= buf_max
  BY DEF Built
<1>2. 4 \in DOMAIN pieces /\ 4 - 1 = 3
  OBVIOUS
<1>3. DOMAIN head = 1..3 /\ head[1] = pieces[1] /\ head[2] = pieces[2]
        /\ head[3] = pieces[3]
  OBVIOUS
<1>4. Len(Bytes(head)) + most <= buf_max
  <2>1. Len(Bytes(SubSeq(pieces, 1, 4 - 1))) + pieces[4].at_most <= buf_max
    BY <1>1, <1>2, Zenon
  <2> QED
    BY <2>1, <1>2
<1> HIDE DEF head
<1>5. Bytes(head) = front
  <2>1. Bytes(head) = head[1].bytes \o head[2].bytes \o head[3].bytes
    BY <1>3, BytesThree
  <2> QED
    BY <1>3, <2>1
<1>6. front \in Seq(Nat)
  BY ThreeScripts
<1> HIDE DEF front
<1>7. Len(front \o d) = Len(front) + Len(d) /\ Len(front) \in Nat /\ Len(d) \in Nat
  BY <1>6, LenProperties
<1>8. Len(front \o d) <= buf_max
  BY <1>4, <1>5, <1>7
<1>9. Bytes(pieces) = a \o b \o c \o d
  BY BytesFour
<1> QED
  BY <1>8, <1>9 DEF front

-----------------------------------------------------------------------------
(* Who may challenge a claim. *)

LEMMA IsKeyList ==
  ASSUME NEW keys \in Seq(XonlyKeys), Len(keys) # 0
  PROVE  KeyList(keys)
BY DEF KeyList, XonlyKeys, Xonly

(* What is looked up of an intent when leaves are built.                   *)
Buildable(intent) ==
  /\ Xonly(intent.depositor_pk)
  /\ KeyList(intent.keeper_pks) /\ KeyList(intent.challenger_pks)
  /\ \A g \in DOMAIN intent.groups : Xonly(intent.groups[g].vault_provider_pk)
  /\ intent.pegin_csv_timelock \in Nat
  /\ intent.payout_timelock \in Nat
  /\ intent.htlc_refund_timelock \in Nat

Claimers(intent) == 0..(Len(intent.keeper_pks) + 1)

(* list is others with the provider in front of the first that follows it. *)
PlacedAt(list, others, provider, i) ==
  /\ list = InsertAt(others, i, provider)
  /\ i <= Len(others) => Precedes(provider, others[i])
  /\ \A k \in 1..(i - 1) : ~Precedes(provider, others[k])

(* When a keeper claims, the provider takes its place in the order.        *)
LEMMA ProviderPlaced ==
  ASSUME NEW intent, Buildable(intent), NEW g \in DOMAIN intent.groups,
         NEW claimer \in 1..Len(intent.keeper_pks)
  PROVE  \E i \in 1..Len(intent.keeper_pks) :
           PlacedAt(AppChallengers(intent, g, claimer),
                    RemoveAt(intent.keeper_pks, claimer),
                    intent.groups[g].vault_provider_pk, i)
<1> DEFINE n == Len(intent.keeper_pks)
           provider == intent.groups[g].vault_provider_pk
           others == RemoveAt(intent.keeper_pks, claimer)
           list == AppChallengers(intent, g, claimer)
           later == {i \in DOMAIN others : Precedes(provider, others[i])}
           place == IF later = {} THEN Len(others) + 1 ELSE Min(later)
<1> SUFFICES \E i \in 1..n : PlacedAt(list, others, provider, i)
  OBVIOUS
<1>1. n \in Nat /\ intent.keeper_pks \in Seq(XonlyKeys)
  BY DEF Buildable, KeyList
<1>2. others \in Seq(XonlyKeys) /\ Len(others) = n - 1
  BY <1>1, Removed
<1>3. list = InsertAt(others, place, provider)
  <2>1. claimer \notin {0, n + 1}
    BY <1>1
  <2> QED
    BY <2>1, Zenon DEF AppChallengers
<1> HIDE DEF others, list, provider
<1>4. DOMAIN others = 1..(n - 1) /\ n - 1 \in Nat
  BY <1>1, <1>2
<1>5. CASE later = {}
  <2>1. place = n /\ n \in 1..n
    BY <1>1, <1>2, <1>5
  <2>2. \A k \in 1..(n - 1) : ~Precedes(provider, others[k])
    BY <1>4, <1>5
  <2>3. ~(n <= Len(others))
    BY <1>1, <1>2
  <2> HIDE DEF place, later, n
  <2>4. PlacedAt(list, others, provider, n)
    BY <1>3, <2>1, <2>2, <2>3 DEF PlacedAt
  <2> QED
    BY <2>1, <2>4
<1>6. CASE later # {}
  <2>1. later \subseteq 1..(n - 1) /\ later \in SUBSET Nat
    BY <1>4
  <2> HIDE DEF later
  <2>2. \E i \in later : \A m \in later : i <= m
    BY <1>6, <2>1, LeastExists
  <2>3. Min(later) \in later /\ \A m \in later : Min(later) <= m
    BY <2>2 DEF Min
  <2>4. place = Min(later)
    BY <1>6
  <2>5. place \in 1..n /\ place \in 1..(n - 1) /\ Precedes(provider, others[place])
    <3>1. place \in 1..(n - 1)
      BY <2>1, <2>3, <2>4
    <3>2. Precedes(provider, others[place])
      BY <2>3, <2>4 DEF later
    <3> QED
      BY <1>1, <3>1, <3>2
  <2>6. ASSUME NEW k \in 1..(place - 1)
        PROVE  ~Precedes(provider, others[k])
    <3>1. k \in 1..(n - 1) /\ ~(place <= k)
      BY <1>1, <2>5
    <3>2. k \notin later
      BY <2>3, <2>4, <3>1
    <3> QED
      BY <1>4, <3>1, <3>2 DEF later
  <2> HIDE DEF place, n
  <2>7. PlacedAt(list, others, provider, place)
    BY <1>3, <2>5, <2>6 DEF PlacedAt
  <2> QED
    BY <2>5, <2>7
<1> QED
  BY <1>5, <1>6

LEMMA ChallengersTyped ==
  ASSUME NEW intent, Buildable(intent), NEW g \in DOMAIN intent.groups,
         NEW claimer \in Claimers(intent)
  PROVE  /\ KeyList(AppChallengers(intent, g, claimer))
         /\ Len(AppChallengers(intent, g, claimer)) = Len(intent.keeper_pks)
         /\ Xonly(ClaimerPk(intent, g, claimer))
<1> DEFINE n == Len(intent.keeper_pks)
           list == AppChallengers(intent, g, claimer)
           provider == intent.groups[g].vault_provider_pk
<1>1. /\ n \in Nat /\ n # 0 /\ DOMAIN intent.keeper_pks = 1..n
      /\ intent.keeper_pks \in Seq(XonlyKeys)
      /\ \A i \in 1..n : Xonly(intent.keeper_pks[i])
      /\ Xonly(provider) /\ Xonly(intent.depositor_pk)
      /\ claimer \in 0..(n + 1)
  BY DEF Buildable, KeyList, Claimers
<1>2. Xonly(ClaimerPk(intent, g, claimer))
  <2>1. CASE claimer = 0
    BY <1>1, <2>1 DEF ClaimerPk
  <2>2. CASE claimer \in 1..n
    BY <1>1, <2>2 DEF ClaimerPk
  <2>3. CASE claimer = n + 1
    <3>1. claimer # 0 /\ claimer \notin DOMAIN intent.keeper_pks
      BY <1>1, <2>3
    <3> QED
      BY <1>1, <2>3, <3>1 DEF ClaimerPk
  <2> QED
    BY <1>1, <2>1, <2>2, <2>3
<1>3. list \in Seq(XonlyKeys) /\ Len(list) = n
  <2>1. CASE claimer \in {0, n + 1}
    BY <1>1, <2>1 DEF AppChallengers
  <2>2. CASE claimer \notin {0, n + 1}
    <3> DEFINE others == RemoveAt(intent.keeper_pks, claimer)
    <3>1. claimer \in 1..n
      BY <1>1, <2>2
    <3>2. PICK i \in 1..n : list = InsertAt(others, i, provider)
      BY <3>1, ProviderPlaced DEF PlacedAt
    <3>3. others \in Seq(XonlyKeys) /\ Len(others) = n - 1
      BY <1>1, <3>1, Removed
    <3>4. provider \in XonlyKeys
      BY <1>1 DEF Xonly, XonlyKeys
    <3> HIDE DEF others
    <3>5. i \in 1..(Len(others) + 1)
      BY <1>1, <3>3
    <3> QED
      BY <1>1, <3>2, <3>3, <3>4, <3>5, Inserted
  <2> QED
    BY <2>1, <2>2
<1> QED
  BY <1>1, <1>2, <1>3, IsKeyList

-----------------------------------------------------------------------------
(* What each leaf looks like from outside: enough to tell it from others.  *)

JoinedFour(all, a, b, c, d) ==
  /\ all \in Seq(Nat)
  /\ Len(all) = Len(a) + Len(b) + Len(c) + Len(d)
  /\ \A m \in 1..Len(a) : all[m] = a[m]
  /\ \A m \in 1..Len(b) : all[Len(a) + m] = b[m]
  /\ \A m \in 1..Len(d) : all[Len(a) + Len(b) + Len(c) + m] = d[m]

LEMMA FourScripts ==
  ASSUME NEW a \in Seq(Nat), NEW b \in Seq(Nat), NEW c \in Seq(Nat), NEW d \in Seq(Nat)
  PROVE  JoinedFour(a \o b \o c \o d, a, b, c, d)
<1> DEFINE x == a \o b \o c
           y == x \o d
<1>1. /\ x \in Seq(Nat) /\ Len(x) = Len(a) + Len(b) + Len(c)
      /\ \A m \in 1..Len(a) : x[m] = a[m]
      /\ \A m \in 1..Len(b) : x[Len(a) + m] = b[m]
  BY ThreeScripts
<1>2. Len(a) \in Nat /\ Len(b) \in Nat /\ Len(c) \in Nat /\ Len(d) \in Nat
  OBVIOUS
<1> HIDE DEF x
<1>3. /\ y \in Seq(Nat) /\ Len(y) = Len(x) + Len(d)
      /\ \A m \in 1..Len(x) : y[m] = x[m]
      /\ \A m \in 1..Len(d) : y[Len(x) + m] = d[m]
  <2>1. x \in Seq(Nat)
    BY <1>1
  <2>2. y \in Seq(Nat) /\ Len(y) = Len(x) + Len(d)
    BY <2>1, ConcatAt
  <2>3. \A m \in 1..Len(x) : y[m] = x[m]
    BY <2>1, ConcatAt
  <2>4. \A m \in 1..Len(d) : y[Len(x) + m] = d[m]
    BY <2>1, ConcatAt
  <2> QED
    BY <2>2, <2>3, <2>4
<1> HIDE DEF y
<1>4. \A m \in 1..Len(a) : y[m] = a[m]
  BY <1>1, <1>2, <1>3
<1>5. ASSUME NEW m \in 1..Len(b)
      PROVE  y[Len(a) + m] = b[m]
  <2>1. Len(a) + m \in 1..Len(x)
    BY <1>1, <1>2
  <2>2. y[Len(a) + m] = x[Len(a) + m]
    BY <1>3, <2>1
  <2> QED
    BY <1>1, <2>2
<1>6. \A m \in 1..Len(d) : y[Len(a) + Len(b) + Len(c) + m] = d[m]
  BY <1>1, <1>3
<1>7. y \in Seq(Nat) /\ Len(y) = Len(a) + Len(b) + Len(c) + Len(d)
  BY <1>1, <1>2, <1>3
<1>8. JoinedFour(y, a, b, c, d)
  BY <1>4, <1>5, <1>6, <1>7 DEF JoinedFour
<1> QED
  BY <1>8 DEF x, y

(* A script that begins with an entry opens with its key and opcode.       *)
LEMMA EntryOpens ==
  ASSUME NEW key, Xonly(key), NEW opcode \in Nat, NEW leaf \in Seq(Nat),
         Len(leaf) >= EntryLen,
         \A m \in 1..EntryLen : leaf[m] = Entry(key, opcode)[m]
  PROVE  OpensWith(leaf, opcode) /\ LeadingKey(leaf) = key
<1>1. EntryLen \in Nat /\ EntryLen = KeyLen + 2 /\ KeyLen \in Nat
  BY EntryLenTyped, KeyLenAssumption
<1>2. /\ leaf[1] = OP_PUSHBYTES_32 /\ leaf[EntryLen] = opcode
      /\ \A m \in 1..KeyLen : leaf[1 + m] = key[m]
  <2> DEFINE entry == Entry(key, opcode)
  <2>1. /\ entry[1] = OP_PUSHBYTES_32 /\ entry[EntryLen] = opcode
        /\ \A m \in 1..KeyLen : entry[1 + m] = key[m]
    BY EntryBytes, Zenon
  <2>2. \A m \in 1..EntryLen : leaf[m] = entry[m]
    OBVIOUS
  <2> HIDE DEF entry
  <2>3. 1 \in 1..EntryLen /\ EntryLen \in 1..EntryLen
    BY <1>1
  <2>4. ASSUME NEW m \in 1..KeyLen
        PROVE  leaf[1 + m] = key[m]
    <3>1. 1 + m \in 1..EntryLen
      BY <1>1
    <3> QED
      BY <2>1, <2>2, <3>1
  <2> QED
    BY <2>1, <2>2, <2>3, <2>4
<1>3. OpensWith(leaf, opcode)
  BY <1>1, <1>2 DEF OpensWith, At
<1>4. LeadingKey(leaf) = SubSeq(leaf, 1 + 1, 1 + KeyLen)
  BY DEF LeadingKey, Slice
<1>5. /\ SubSeq(leaf, 1 + 1, 1 + KeyLen) \in Seq(Nat)
      /\ Len(SubSeq(leaf, 1 + 1, 1 + KeyLen)) = KeyLen
      /\ \A k \in 1..KeyLen : SubSeq(leaf, 1 + 1, 1 + KeyLen)[k] = leaf[1 + k]
  BY <1>1, Stretch
<1>6. key \in Seq(Nat) /\ Len(key) = KeyLen
  BY DEF Xonly
<1> DEFINE head == SubSeq(leaf, 1 + 1, 1 + KeyLen)
<1> HIDE DEF head
<1>7. head = key
  <2>1. head \in Seq(Nat) /\ Len(head) = KeyLen /\ \A k \in 1..KeyLen : head[k] = key[k]
    BY <1>2, <1>5 DEF head
  <2> QED
    BY <1>6, <2>1, SeqEqual
<1> QED
  BY <1>3, <1>4, <1>7 DEF head

LEMMA GroupOpens ==
  ASSUME NEW keys, KeyList(keys), NEW is_final \in BOOLEAN
  PROVE  /\ MultisigGroup(keys, is_final)[1] = OP_PUSHBYTES_32
         /\ MultisigGroup(keys, is_final)[EntryLen] = OP_CHECKSIG
         /\ Len(MultisigGroup(keys, is_final)) > EntryLen
         /\ Len(MultisigGroup(keys, is_final)) <= EntryLen * Len(keys) + 5
<1> DEFINE entries == Entries(keys)
           count == PushNumber(Len(keys))
           compare == <<Compare(is_final)>>
           group == MultisigGroup(keys, is_final)
           n == Len(keys)
<1>1. /\ entries \in Seq(Nat) /\ Len(entries) = EntryLen * n
      /\ \A i \in 1..n, k \in 1..EntryLen :
           entries[EntryLen * (i - 1) + k] = Entry(keys[i], Opcode(i))[k]
  BY EntriesLaid
<1>2. n \in Nat /\ n >= 1 /\ Xonly(keys[1])
  BY DEF KeyList
<1>3. EntryLen \in Nat /\ EntryLen >= 4 /\ EntryLen = KeyLen + 2
  BY EntryLenTyped
<1>4. \A k \in 1..EntryLen : entries[k] = Entry(keys[1], OP_CHECKSIG)[k]
  <2>1. \A k \in 1..EntryLen : EntryLen * (1 - 1) + k = k
    BY <1>3
  <2>2. 1 \in 1..n /\ Opcode(1) = OP_CHECKSIG
    BY <1>2 DEF Opcode
  <2> QED
    BY <1>1, <2>1, <2>2
<1>5. entries[1] = OP_PUSHBYTES_32 /\ entries[EntryLen] = OP_CHECKSIG
  <2> DEFINE entry == Entry(keys[1], OP_CHECKSIG)
  <2>1. entry[1] = OP_PUSHBYTES_32 /\ entry[EntryLen] = OP_CHECKSIG
    <3>1. OP_CHECKSIG \in Nat
      BY DEF OP_CHECKSIG
    <3> QED
      BY <1>2, <3>1, EntryBytes, Zenon
  <2>2. \A k \in 1..EntryLen : entries[k] = entry[k]
    BY <1>4
  <2> HIDE DEF entry, entries
  <2> QED
    BY <1>3, <2>1, <2>2
<1>6. EntryLen * n \in Nat /\ EntryLen * n >= EntryLen
  BY <1>2, <1>3
<1>7. /\ group = entries \o count \o compare
      /\ count \in Seq(Nat) /\ Len(count) \in 1..4
      /\ compare \in Seq(Nat) /\ Len(compare) = 1
  BY GroupPieces
<1> HIDE DEF entries, count, compare, group
<1>8. /\ Len(group) = Len(entries) + Len(count) + Len(compare)
      /\ \A m \in 1..Len(entries) : group[m] = entries[m]
  BY <1>1, <1>7, ThreeScripts
<1>9. 1 \in 1..Len(entries) /\ EntryLen \in 1..Len(entries)
  BY <1>1, <1>3, <1>6
<1>10. group[1] = OP_PUSHBYTES_32 /\ group[EntryLen] = OP_CHECKSIG
  BY <1>5, <1>8, <1>9
<1>11. Len(group) > EntryLen /\ Len(group) <= EntryLen * n + 5
  <2> DEFINE all == EntryLen * n
  <2>1. all \in Nat /\ all >= EntryLen /\ Len(entries) = all
    BY <1>1, <1>6
  <2> HIDE DEF all
  <2>2. /\ Len(group) = all + Len(count) + 1
        /\ Len(count) \in Nat /\ Len(count) >= 1 /\ Len(count) <= 4
    <3>1. Len(count) \in Nat /\ Len(count) >= 1 /\ Len(count) <= 4
      BY <1>2, PushNumberBounds DEF count
    <3> QED
      BY <1>7, <1>8, <2>1, <3>1
  <2>3. Len(group) > EntryLen /\ Len(group) <= all + 5
    BY <1>3, <2>1, <2>2
  <2> QED
    BY <2>3 DEF all
<1> QED
  BY <1>10, <1>11 DEF group

(* The end of a leaf with a timelock. *)
TimelockEnd(timelock) == PushNumber(timelock) \o <<OP_CSV>>

LEMMA TimelockEndTyped ==
  ASSUME NEW t \in Nat
  PROVE  /\ TimelockEnd(t) \in Seq(Nat)
         /\ Len(TimelockEnd(t)) = Len(PushNumber(t)) + 1
         /\ Len(TimelockEnd(t)) \in Nat
         /\ Len(TimelockEnd(t)) >= 2 /\ Len(TimelockEnd(t)) <= 5
         /\ \A m \in 1..Len(PushNumber(t)) : TimelockEnd(t)[m] = PushNumber(t)[m]
         /\ TimelockEnd(t)[Len(TimelockEnd(t))] = OP_CSV
<1>1. /\ PushNumber(t) \in Seq(Nat) /\ Len(PushNumber(t)) \in Nat
      /\ Len(PushNumber(t)) >= 1 /\ Len(PushNumber(t)) <= 4
  BY PushNumberBounds
<1>2. <<OP_CSV>> \in Seq(Nat) /\ Len(<<OP_CSV>>) = 1 /\ <<OP_CSV>>[1] = OP_CSV
  BY DEF OP_CSV
<1> DEFINE end == <<OP_CSV>>
<1> HIDE DEF end
<1>3. /\ PushNumber(t) \o end \in Seq(Nat)
      /\ Len(PushNumber(t) \o end) = Len(PushNumber(t)) + 1
      /\ \A m \in 1..Len(PushNumber(t)) : (PushNumber(t) \o end)[m] = PushNumber(t)[m]
      /\ (PushNumber(t) \o end)[Len(PushNumber(t)) + 1] = OP_CSV
  BY <1>1, <1>2, ConcatAt DEF end
<1> DEFINE whole == TimelockEnd(t)
           count == PushNumber(t)
<1>4. whole = count \o end
  BY DEF TimelockEnd, end
<1> HIDE DEF whole, count
<1>5. /\ whole \in Seq(Nat) /\ Len(whole) = Len(count) + 1
      /\ \A m \in 1..Len(count) : whole[m] = count[m]
      /\ whole[Len(count) + 1] = OP_CSV
  BY <1>3, <1>4 DEF count
<1>6. Len(whole) \in Nat /\ Len(whole) >= 2 /\ Len(whole) <= 5
  BY <1>1, <1>5 DEF count
<1>7. whole[Len(whole)] = OP_CSV
  BY <1>5
<1> QED
  BY <1>5, <1>6, <1>7 DEF whole, count

(* The end of a leaf begins with the first byte of the number in it.       *)
LEMMA TimelockEndOpens ==
  ASSUME NEW t \in Nat
  PROVE  TimelockEnd(t)[1] = PushNumber(t)[1]
<1>1. Len(PushNumber(t)) \in Nat /\ Len(PushNumber(t)) >= 1
  BY PushNumberBounds
<1>2. \A m \in 1..Len(PushNumber(t)) : TimelockEnd(t)[m] = PushNumber(t)[m]
  BY TimelockEndTyped
<1>3. 1 \in 1..Len(PushNumber(t))
  BY <1>1
<1> QED
  BY <1>2, <1>3

(* A leaf of an entry and more behind it. *)
OpensInto(leaf, key, opcode, rest) ==
  /\ leaf \in Seq(Nat)
  /\ Len(leaf) = EntryLen + Len(rest)
  /\ OpensWith(leaf, opcode)
  /\ LeadingKey(leaf) = key
  /\ \A m \in 1..Len(rest) : leaf[EntryLen + m] = rest[m]

LEMMA EntryThen ==
  ASSUME NEW key, Xonly(key), NEW opcode \in Nat, NEW rest \in Seq(Nat)
  PROVE  OpensInto(Entry(key, opcode) \o rest, key, opcode, rest)
<1> DEFINE entry == Entry(key, opcode)
           leaf == entry \o rest
<1>1. entry \in Seq(Nat) /\ Len(entry) = EntryLen
  BY EntryBytes
<1>2. EntryLen \in Nat /\ EntryLen >= 4
  BY EntryLenTyped
<1> HIDE DEF entry
<1>3. leaf \in Seq(Nat) /\ Len(leaf) = Len(entry) + Len(rest)
  BY <1>1, ConcatAt
<1>4. \A m \in 1..Len(entry) : leaf[m] = entry[m]
  BY <1>1, ConcatAt
<1>5. \A m \in 1..Len(rest) : leaf[Len(entry) + m] = rest[m]
  BY <1>1, ConcatAt
<1> HIDE DEF leaf
<1>6. Len(leaf) >= EntryLen /\ \A m \in 1..EntryLen : leaf[m] = entry[m]
  BY <1>1, <1>2, <1>3, <1>4
<1>7. OpensWith(leaf, opcode) /\ LeadingKey(leaf) = key
  <2> USE DEF entry
  <2> HIDE DEF leaf
  <2>1. leaf \in Seq(Nat) /\ Len(leaf) >= EntryLen
          /\ \A m \in 1..EntryLen : leaf[m] = Entry(key, opcode)[m]
    BY <1>3, <1>6
  <2> QED
    BY <2>1, EntryOpens, Zenon
<1>8. OpensInto(leaf, key, opcode, rest)
  BY <1>1, <1>3, <1>5, <1>7 DEF OpensInto
<1> QED
  BY <1>8 DEF leaf, entry

(* The bytes of the pieces leaves are built of.                            *)
LEMMA RequiredBytes ==
  ASSUME NEW key
  PROVE  Required(key).bytes = Entry(key, OP_CHECKSIGVERIFY)
BY DEF Required, Fixed

LEMMA FixedBytes ==
  ASSUME NEW script
  PROVE  Fixed(script).bytes = script
BY DEF Fixed

LEMMA GroupBytesOf ==
  ASSUME NEW keys, NEW is_final
  PROVE  Group(keys, is_final).bytes = MultisigGroup(keys, is_final)
BY DEF Group

LEMMA CsvBytes ==
  ASSUME NEW timelock, NEW at_most
  PROVE  /\ Csv(timelock, at_most).bytes = TimelockEnd(timelock)
         /\ Csv(timelock, at_most).at_most = at_most
BY DEF Csv, TimelockEnd

LEMMA BuiltTwo ==
  ASSUME NEW pieces, DOMAIN pieces = 1..2, NEW buf_max, Built(pieces, buf_max) # Unbuilt,
         NEW a, NEW b, pieces[1].bytes = a, pieces[2].bytes = b
  PROVE  Built(pieces, buf_max) = a \o b
BY BuiltAll, BytesTwo

ClaimShaped(leaf) ==
  /\ leaf \in Seq(Nat)
  /\ Len(leaf) = EntryLen
  /\ OpensWith(leaf, OP_CHECKSIG)

(* Behind the key stands a number of one or two bytes. *)
RefundShaped(leaf) ==
  /\ leaf \in Seq(Nat)
  /\ Len(leaf) > EntryLen
  /\ OpensWith(leaf, OP_CHECKSIGVERIFY)
  /\ At(leaf, EntryLen) \in {1, 2}

NoPayoutShaped(leaf) ==
  /\ leaf \in Seq(Nat)
  /\ Len(leaf) = 2 * EntryLen
  /\ OpensWith(leaf, OP_CHECKSIGVERIFY)
  /\ At(leaf, EntryLen) = OP_PUSHBYTES_32

(* Two keys, of which the second has this opcode, and CSV at the end. *)
TwoKeysThenCsv(leaf, opcode) ==
  /\ leaf \in Seq(Nat)
  /\ Len(leaf) > 2 * EntryLen
  /\ OpensWith(leaf, OP_CHECKSIGVERIFY)
  /\ At(leaf, EntryLen) = OP_PUSHBYTES_32
  /\ At(leaf, EntryLen + 1 + KeyLen) = opcode
  /\ At(leaf, Len(leaf) - 1) = OP_CSV

LEMMA ClaimLeafShaped ==
  ASSUME NEW intent, Buildable(intent), NEW buf_max,
         DepositorClaimLeaf(intent, buf_max) # Unbuilt
  PROVE  ClaimShaped(DepositorClaimLeaf(intent, buf_max))
<1> DEFINE leaf == DepositorClaimLeaf(intent, buf_max)
           entry == Entry(intent.depositor_pk, OP_CHECKSIG)
<1>1. leaf = entry
  BY BuiltAll, BytesOne, FixedBytes DEF DepositorClaimLeaf
<1>2. Xonly(intent.depositor_pk) /\ OP_CHECKSIG \in Nat
  BY DEF Buildable, OP_CHECKSIG
<1>3. entry \in Seq(Nat) /\ Len(entry) = EntryLen
  BY <1>2, EntryBytes
<1>4. OpensWith(entry, OP_CHECKSIG)
  BY <1>2, <1>3, EntryOpens, EntryLenTyped
<1> QED
  BY <1>1, <1>3, <1>4 DEF ClaimShaped

(* The numbers an intent's refund timelock may be.                         *)
LEMMA ShortNumber ==
  ASSUME NEW t \in Nat, t > 16, t <= 32767
  PROVE  PushNumber(t)[1] \in {1, 2} /\ Len(PushNumber(t)) = PushNumber(t)[1] + 1
<1>1. CASE t <= 127
  <2>1. PushNumber(t) = OneBytePushed(t)
    BY <1>1, PushNumberCases
  <2> QED
    BY <2>1 DEF OneBytePushed
<1>2. CASE ~(t <= 127)
  <2>1. PushNumber(t) = TwoBytesPushed(t)
    BY <1>2, PushNumberCases
  <2> QED
    BY <2>1 DEF TwoBytesPushed
<1> QED
  BY <1>1, <1>2

LEMMA RefundLeafLaid ==
  ASSUME NEW intent, Buildable(intent), NEW buf_max,
         HtlcLeaf1(intent, buf_max) # Unbuilt
  PROVE  HtlcLeaf1(intent, buf_max)
           = Entry(intent.depositor_pk, OP_CHECKSIGVERIFY)
               \o TimelockEnd(intent.htlc_refund_timelock)
<1> DEFINE pieces == <<Required(intent.depositor_pk), Csv(intent.htlc_refund_timelock, 4)>>
           a == Entry(intent.depositor_pk, OP_CHECKSIGVERIFY)
           b == TimelockEnd(intent.htlc_refund_timelock)
<1>1. HtlcLeaf1(intent, buf_max) = Built(pieces, buf_max)
  BY Zenon DEF HtlcLeaf1
<1>2. DOMAIN pieces = 1..2 /\ pieces[1].bytes = a /\ pieces[2].bytes = b
  BY RequiredBytes, CsvBytes
<1> HIDE DEF pieces, a, b
<1>3. HtlcLeaf1(intent, buf_max) = a \o b
  BY <1>1, <1>2, BuiltTwo
<1> QED
  BY <1>3 DEF a, b

(* A refund timelock, and its bytes. *)
ShortTimelock(t) ==
  /\ t \in Nat
  /\ TimelockEnd(t) \in Seq(Nat) /\ Len(TimelockEnd(t)) >= 2
  /\ TimelockEnd(t)[1] \in {1, 2}

LEMMA RefundTimelockShort ==
  ASSUME NEW t \in Nat, t > 16, t <= 32767
  PROVE  ShortTimelock(t)
<1>1. TimelockEnd(t)[1] \in {1, 2}
  <2>1. PushNumber(t)[1] \in {1, 2}
    BY ShortNumber
  <2> QED
    BY <2>1, TimelockEndOpens
<1> QED
  BY <1>1, TimelockEndTyped DEF ShortTimelock

LEMMA RefundLeafShaped ==
  ASSUME NEW intent, Buildable(intent), NEW buf_max,
         ShortTimelock(intent.htlc_refund_timelock),
         HtlcLeaf1(intent, buf_max) # Unbuilt
  PROVE  RefundShaped(HtlcLeaf1(intent, buf_max))
<1> DEFINE leaf == HtlcLeaf1(intent, buf_max)
           key == intent.depositor_pk
           end == TimelockEnd(intent.htlc_refund_timelock)
<1>1. leaf = Entry(key, OP_CHECKSIGVERIFY) \o end
  BY RefundLeafLaid
<1>2. Xonly(key) /\ OP_CHECKSIGVERIFY \in Nat
  BY DEF Buildable, OP_CHECKSIGVERIFY
<1>3. end \in Seq(Nat) /\ Len(end) \in Nat /\ Len(end) >= 2 /\ end[1] \in {1, 2}
  BY DEF ShortTimelock
<1> HIDE DEF leaf, key, end
<1>6. OpensInto(leaf, key, OP_CHECKSIGVERIFY, end)
  BY <1>1, <1>2, <1>3, EntryThen
<1>7. EntryLen \in Nat
  BY EntryLenTyped
<1>8. leaf[EntryLen + 1] \in {1, 2}
  BY <1>3, <1>6 DEF OpensInto
<1>9. RefundShaped(leaf)
  BY <1>3, <1>6, <1>7, <1>8 DEF OpensInto, RefundShaped, At
<1> QED
  BY <1>9 DEF leaf

(* The key a NoPayout leaf is built for.                                   *)
LEMMA ChallengerTyped ==
  ASSUME NEW intent, Buildable(intent),
         NEW i \in Nat, i < Len(intent.keeper_pks) + Len(intent.challenger_pks)
  PROVE  Xonly((intent.keeper_pks \o intent.challenger_pks)[i + 1])
<1> DEFINE a == intent.keeper_pks
           b == intent.challenger_pks
           pks == a \o b
<1>1. a \in Seq(XonlyKeys) /\ b \in Seq(XonlyKeys)
  BY DEF Buildable, KeyList
<1>2. i < Len(a) + Len(b)
  OBVIOUS
<1> HIDE DEF a, b
<1>3. pks \in Seq(XonlyKeys) /\ Len(pks) = Len(a) + Len(b)
  BY <1>1, ConcatAt
<1>4. i + 1 \in 1..Len(pks)
  BY <1>1, <1>2, <1>3
<1> HIDE DEF pks
<1>5. pks[i + 1] \in XonlyKeys
  BY <1>3, <1>4, ElementOfSeq
<1>6. Xonly(pks[i + 1])
  BY <1>5 DEF Xonly, XonlyKeys
<1> QED
  BY <1>6 DEF pks, a, b

LEMMA NoPayoutLeafShaped ==
  ASSUME NEW intent, Buildable(intent), NEW buf_max,
         NEW challenger \in Nat,
         challenger < Len(intent.keeper_pks) + Len(intent.challenger_pks),
         NoPayoutLeaf(intent, challenger, buf_max) # Unbuilt
  PROVE  NoPayoutShaped(NoPayoutLeaf(intent, challenger, buf_max))
<1> DEFINE leaf == NoPayoutLeaf(intent, challenger, buf_max)
           key == intent.depositor_pk
           other == (intent.keeper_pks \o intent.challenger_pks)[challenger + 1]
           second == Entry(other, OP_CHECKSIG)
           required == Required(key)
           fixed == Fixed(second)
           pieces == <<required, fixed>>
<1>1. Xonly(other)
  BY ChallengerTyped
<1>2. Xonly(key) /\ OP_CHECKSIGVERIFY \in Nat /\ OP_CHECKSIG \in Nat
  BY DEF Buildable, OP_CHECKSIGVERIFY, OP_CHECKSIG
<1>3. leaf = Built(pieces, buf_max) /\ leaf # Unbuilt
  BY Zenon DEF NoPayoutLeaf
<1>4. DOMAIN pieces = 1..2 /\ pieces[1].bytes = Entry(key, OP_CHECKSIGVERIFY)
        /\ pieces[2].bytes = second
  <2>1. required.bytes = Entry(key, OP_CHECKSIGVERIFY) /\ fixed.bytes = second
    BY RequiredBytes, FixedBytes, Zenon
  <2> HIDE DEF required, fixed, second, key, other
  <2>2. DOMAIN pieces = 1..2 /\ pieces[1] = required /\ pieces[2] = fixed
    OBVIOUS
  <2> QED
    BY <2>1, <2>2
<1> HIDE DEF pieces, leaf, key, other
<1>5. leaf = Entry(key, OP_CHECKSIGVERIFY) \o second
  BY <1>3, <1>4, BuiltTwo
<1>6. second \in Seq(Nat) /\ Len(second) = EntryLen /\ second[1] = OP_PUSHBYTES_32
  BY <1>1, <1>2, EntryBytes
<1> HIDE DEF second
<1>7. OpensInto(leaf, key, OP_CHECKSIGVERIFY, second)
  BY <1>2, <1>5, <1>6, EntryThen
<1>8. EntryLen \in Nat /\ EntryLen >= 4
  BY EntryLenTyped
<1>9. leaf[EntryLen + 1] = OP_PUSHBYTES_32
  BY <1>6, <1>7, <1>8 DEF OpensInto
<1>10. NoPayoutShaped(leaf)
  BY <1>6, <1>7, <1>8, <1>9 DEF OpensInto, NoPayoutShaped, At
<1> QED
  BY <1>10 DEF leaf

(* What may stand behind the first key of a payout leaf, or a vault's: a   *)
(* script that opens with a key of its own, more keys, and a timelock.     *)
(* A group, or an entry, followed by at least one more of a leaf.          *)
OpensWithKey(script, opcode) ==
  /\ script \in Seq(Nat)
  /\ Len(script) >= EntryLen
  /\ script[1] = OP_PUSHBYTES_32
  /\ script[EntryLen] = opcode

EndsInCsv(script) ==
  /\ script \in Seq(Nat)
  /\ Len(script) > 0
  /\ script[Len(script)] = OP_CSV

LEMMA TwoKeysLaid ==
  ASSUME NEW key, Xonly(key), NEW opcode,
         NEW second, OpensWithKey(second, opcode),
         NEW third \in Seq(Nat), Len(third) > 0,
         NEW end, EndsInCsv(end)
  PROVE  LET leaf == Entry(key, OP_CHECKSIGVERIFY) \o second \o third \o end
         IN  /\ TwoKeysThenCsv(leaf, opcode)
             /\ LeadingKey(leaf) = key
             /\ Len(leaf) = EntryLen + Len(second) + Len(third) + Len(end)
<1> DEFINE entry == Entry(key, OP_CHECKSIGVERIFY)
           leaf == entry \o second \o third \o end
<1> SUFFICES /\ TwoKeysThenCsv(leaf, opcode)
             /\ LeadingKey(leaf) = key
             /\ Len(leaf) = EntryLen + Len(second) + Len(third) + Len(end)
  BY Zenon
<1>0. OP_CHECKSIGVERIFY \in Nat
  BY DEF OP_CHECKSIGVERIFY
<1>1. entry \in Seq(Nat) /\ Len(entry) = EntryLen
  BY <1>0, EntryBytes
<1>2. EntryLen \in Nat /\ EntryLen >= 4 /\ EntryLen = KeyLen + 2 /\ KeyLen \in Nat
  BY EntryLenTyped, KeyLenAssumption
<1>3. second \in Seq(Nat) /\ end \in Seq(Nat)
  BY DEF OpensWithKey, EndsInCsv
<1> HIDE DEF entry
<1>4. JoinedFour(leaf, entry, second, third, end)
  BY <1>1, <1>3, FourScripts
<1> HIDE DEF leaf
<1>5. Len(second) \in Nat /\ Len(third) \in Nat /\ Len(end) \in Nat
  BY <1>3
<1>6. /\ leaf \in Seq(Nat)
      /\ Len(leaf) = EntryLen + Len(second) + Len(third) + Len(end)
  BY <1>1, <1>4 DEF JoinedFour
<1>7. Len(second) >= EntryLen /\ Len(end) > 0
  BY DEF OpensWithKey, EndsInCsv
<1>8. Len(leaf) >= EntryLen /\ Len(leaf) > 2 * EntryLen
  BY <1>2, <1>5, <1>6, <1>7
<1>9. OpensWith(leaf, OP_CHECKSIGVERIFY) /\ LeadingKey(leaf) = key
  <2>1. \A m \in 1..EntryLen : leaf[m] = entry[m]
    BY <1>1, <1>4 DEF JoinedFour
  <2> QED
    BY <1>0, <1>6, <1>8, <2>1, EntryOpens DEF entry
<1>10. leaf[EntryLen + 1] = OP_PUSHBYTES_32
  <2>1. 1 \in 1..Len(second)
    BY <1>2, <1>5, <1>7
  <2>2. leaf[EntryLen + 1] = second[1]
    BY <1>1, <1>4, <2>1 DEF JoinedFour
  <2> QED
    BY <2>2 DEF OpensWithKey
<1>11. leaf[EntryLen + EntryLen] = opcode
  <2>1. EntryLen \in 1..Len(second)
    BY <1>2, <1>5, <1>7
  <2>2. leaf[EntryLen + EntryLen] = second[EntryLen]
    BY <1>1, <1>4, <2>1 DEF JoinedFour
  <2> QED
    BY <2>2 DEF OpensWithKey
<1>12. leaf[Len(leaf)] = OP_CSV
  <2>1. Len(end) \in 1..Len(end)
    BY <1>5, <1>7
  <2>2. leaf[EntryLen + Len(second) + Len(third) + Len(end)] = end[Len(end)]
    BY <1>1, <1>4, <2>1 DEF JoinedFour
  <2> QED
    BY <1>6, <2>2 DEF EndsInCsv
<1>13. /\ EntryLen + 1 + KeyLen + 1 = EntryLen + EntryLen
       /\ Len(leaf) - 1 + 1 = Len(leaf)
  BY <1>2, <1>5, <1>6
<1>14. TwoKeysThenCsv(leaf, opcode)
  <2>1. /\ At(leaf, EntryLen) = leaf[EntryLen + 1]
        /\ At(leaf, EntryLen + 1 + KeyLen) = leaf[EntryLen + EntryLen]
        /\ At(leaf, Len(leaf) - 1) = leaf[Len(leaf)]
    BY <1>13 DEF At
  <2> QED
    BY <1>6, <1>8, <1>9, <1>10, <1>11, <1>12, <2>1 DEF TwoKeysThenCsv
<1> QED
  BY <1>6, <1>9, <1>14

LEMMA PayoutLeafLaid ==
  ASSUME NEW intent, Buildable(intent), NEW g \in DOMAIN intent.groups,
         NEW claimer \in Claimers(intent), NEW buf_max \in Nat,
         Assert0PayoutLeaf(intent, g, claimer, buf_max) # Unbuilt
  PROVE  LET leaf == Assert0PayoutLeaf(intent, g, claimer, buf_max)
         IN  /\ leaf = Entry(ClaimerPk(intent, g, claimer), OP_CHECKSIGVERIFY)
                         \o MultisigGroup(AppChallengers(intent, g, claimer), FALSE)
                         \o MultisigGroup(intent.challenger_pks, FALSE)
                         \o TimelockEnd(intent.payout_timelock)
             /\ TwoKeysThenCsv(leaf, OP_CHECKSIG)
             /\ LeadingKey(leaf) = ClaimerPk(intent, g, claimer)
             /\ Len(leaf) <= buf_max
             /\ Len(leaf) <= EntryLen * (1 + Len(intent.keeper_pks)
                                           + Len(intent.challenger_pks)) + 15
<1> DEFINE leaf == Assert0PayoutLeaf(intent, g, claimer, buf_max)
           key == ClaimerPk(intent, g, claimer)
           list == AppChallengers(intent, g, claimer)
           others == intent.challenger_pks
           t == intent.payout_timelock
           entry == Entry(key, OP_CHECKSIGVERIFY)
           second == MultisigGroup(list, FALSE)
           third == MultisigGroup(others, FALSE)
           end == TimelockEnd(t)
           pieces == <<Required(key), Group(list, FALSE), Group(others, FALSE), Csv(t, 6)>>
           n == Len(intent.keeper_pks)
           m == Len(others)
<1> SUFFICES /\ leaf = entry \o second \o third \o end
             /\ TwoKeysThenCsv(leaf, OP_CHECKSIG)
             /\ LeadingKey(leaf) = key
             /\ Len(leaf) <= buf_max
             /\ Len(leaf) <= EntryLen * (1 + n + m) + 15
  BY Zenon
<1>1. leaf = Built(pieces, buf_max) /\ leaf # Unbuilt
  BY Zenon DEF Assert0PayoutLeaf
<1>2. /\ DOMAIN pieces = 1..4
      /\ pieces[1].bytes = entry /\ pieces[2].bytes = second
      /\ pieces[3].bytes = third /\ pieces[4].bytes = end
      /\ pieces[4].at_most = 6
  <2>1. /\ DOMAIN pieces = 1..4
        /\ pieces[1] = Required(key) /\ pieces[2] = Group(list, FALSE)
        /\ pieces[3] = Group(others, FALSE) /\ pieces[4] = Csv(t, 6)
    OBVIOUS
  <2> HIDE DEF pieces
  <2>2. pieces[1].bytes = entry
    BY <2>1, RequiredBytes
  <2>3. pieces[2].bytes = second
    BY <2>1, GroupBytesOf
  <2>4. pieces[3].bytes = third
    BY <2>1, GroupBytesOf
  <2>5. pieces[4].bytes = end /\ pieces[4].at_most = 6
    BY <2>1, CsvBytes
  <2> QED
    BY <2>1, <2>2, <2>3, <2>4, <2>5
<1>3. Xonly(key) /\ KeyList(list) /\ Len(list) = n
  BY ChallengersTyped
<1>4. KeyList(others) /\ t \in Nat /\ n \in Nat /\ m \in Nat
  BY DEF Buildable, KeyList
<1> HIDE DEF pieces, leaf, key, list, others, t, n
<1>5. entry \in Seq(Nat) /\ Len(entry) = EntryLen
  <2>1. OP_CHECKSIGVERIFY \in Nat
    BY DEF OP_CHECKSIGVERIFY
  <2> QED
    BY <1>3, <2>1, EntryBytes
<1>6. EntryLen \in Nat /\ EntryLen >= 4
  BY EntryLenTyped
<1>7. /\ OpensWithKey(second, OP_CHECKSIG)
      /\ Len(second) \in Nat /\ Len(second) <= EntryLen * n + 5
  <2>1. second \in Seq(Nat)
    BY <1>3, GroupTyped
  <2>2. second[1] = OP_PUSHBYTES_32 /\ second[EntryLen] = OP_CHECKSIG
    BY <1>3, GroupOpens
  <2>3. Len(second) > EntryLen /\ Len(second) <= EntryLen * Len(list) + 5
    BY <1>3, GroupOpens
  <2> HIDE DEF second
  <2> QED
    BY <1>3, <1>6, <2>1, <2>2, <2>3 DEF OpensWithKey
<1>8. /\ third \in Seq(Nat) /\ Len(third) \in Nat /\ Len(third) > 0
      /\ Len(third) <= EntryLen * m + 5
  <2>1. third \in Seq(Nat)
    BY <1>4, GroupTyped
  <2>2. Len(third) > EntryLen /\ Len(third) <= EntryLen * m + 5
    BY <1>4, GroupOpens
  <2> HIDE DEF third, m
  <2> QED
    BY <1>6, <2>1, <2>2
<1>9. EndsInCsv(end) /\ Len(end) \in Nat /\ Len(end) <= 5
  <2>1. /\ end \in Seq(Nat) /\ end[Len(end)] = OP_CSV
        /\ Len(end) \in Nat /\ Len(end) >= 2 /\ Len(end) <= 5
    BY <1>4, TimelockEndTyped
  <2> HIDE DEF end
  <2> QED
    BY <2>1 DEF EndsInCsv
<1> HIDE DEF entry, second, third, end, m
<1>10. leaf = Bytes(pieces) /\ leaf = entry \o second \o third \o end
  <2>1. leaf = Bytes(pieces)
    BY <1>1, BuiltAll
  <2>2. Bytes(pieces) = pieces[1].bytes \o pieces[2].bytes \o pieces[3].bytes
                          \o pieces[4].bytes
    BY <1>2, BytesFour
  <2> QED
    BY <1>2, <2>1, <2>2
<1>11. /\ TwoKeysThenCsv(leaf, OP_CHECKSIG)
       /\ LeadingKey(leaf) = key
       /\ Len(leaf) = EntryLen + Len(second) + Len(third) + Len(end)
  BY <1>3, <1>7, <1>8, <1>9, <1>10, TwoKeysLaid DEF entry
<1>12. Len(leaf) <= buf_max
  <2>1. second \in Seq(Nat) /\ end \in Seq(Nat) /\ Len(end) <= 6 /\ 6 \in Nat
    BY <1>7, <1>9 DEF OpensWithKey, EndsInCsv
  <2>2. Built(pieces, buf_max) # Unbuilt
    BY <1>1
  <2>3. /\ pieces[1].bytes \in Seq(Nat) /\ pieces[2].bytes \in Seq(Nat)
        /\ pieces[3].bytes \in Seq(Nat) /\ pieces[4].bytes \in Seq(Nat)
        /\ pieces[4].at_most \in Nat /\ Len(pieces[4].bytes) <= pieces[4].at_most
    BY <1>2, <1>5, <1>8, <2>1
  <2>4. Len(Bytes(pieces)) <= buf_max
    BY <1>2, <2>2, <2>3, BuiltFourFits
  <2> QED
    BY <1>10, <2>4
<1>13. Len(leaf) <= EntryLen * (1 + n + m) + 15
  <2> DEFINE x == EntryLen * n
             y == EntryLen * m
  <2>1. EntryLen * (1 + n + m) = EntryLen + x + y /\ x \in Nat /\ y \in Nat
    BY <1>4, <1>6 DEF m
  <2>2. Len(second) <= x + 5 /\ Len(third) <= y + 5
    BY <1>7, <1>8
  <2> HIDE DEF x, y
  <2> QED
    BY <1>6, <1>7, <1>8, <1>9, <1>11, <2>1, <2>2
<1> QED
  BY <1>10, <1>11, <1>12, <1>13

(* A vault's leaf: its second key is required too.                         *)
LEMMA VaultUtxoLeafShaped ==
  ASSUME NEW intent, Buildable(intent), NEW g \in DOMAIN intent.groups,
         NEW buf_max, VaultUtxoLeaf(intent, g, buf_max) # Unbuilt
  PROVE  TwoKeysThenCsv(VaultUtxoLeaf(intent, g, buf_max), OP_CHECKSIGVERIFY)
<1> DEFINE leaf == VaultUtxoLeaf(intent, g, buf_max)
           key == intent.depositor_pk
           provider == intent.groups[g].vault_provider_pk
           keepers == intent.keeper_pks
           others == intent.challenger_pks
           t == intent.pegin_csv_timelock
           a == Entry(key, OP_CHECKSIGVERIFY)
           b == Entry(provider, OP_CHECKSIGVERIFY)
           c == MultisigGroup(keepers, FALSE)
           d == MultisigGroup(others, FALSE)
           e == TimelockEnd(t)
           pieces == <<Required(key), Required(provider), Group(keepers, FALSE),
                       Group(others, FALSE), Csv(t, 6)>>
<1> SUFFICES TwoKeysThenCsv(leaf, OP_CHECKSIGVERIFY)
  BY Zenon
<1>1. leaf = Built(pieces, buf_max) /\ leaf # Unbuilt
  BY Zenon DEF VaultUtxoLeaf
<1>2. /\ DOMAIN pieces = 1..5
      /\ pieces[1].bytes = a /\ pieces[2].bytes = b /\ pieces[3].bytes = c
      /\ pieces[4].bytes = d /\ pieces[5].bytes = e
  <2>1. /\ DOMAIN pieces = 1..5
        /\ pieces[1] = Required(key) /\ pieces[2] = Required(provider)
        /\ pieces[3] = Group(keepers, FALSE)
        /\ pieces[4] = Group(others, FALSE) /\ pieces[5] = Csv(t, 6)
    OBVIOUS
  <2> HIDE DEF pieces
  <2>2. pieces[1].bytes = a /\ pieces[2].bytes = b
    BY <2>1, RequiredBytes
  <2>3. pieces[3].bytes = c
    BY <2>1, GroupBytesOf
  <2>4. pieces[4].bytes = d
    BY <2>1, GroupBytesOf
  <2>5. pieces[5].bytes = e
    BY <2>1, CsvBytes
  <2> QED
    BY <2>1, <2>2, <2>3, <2>4, <2>5
<1>3. /\ Xonly(key) /\ Xonly(provider) /\ KeyList(keepers) /\ KeyList(others)
      /\ t \in Nat
  BY DEF Buildable
<1> HIDE DEF pieces, leaf, key, provider, keepers, others, t
<1>4. leaf = a \o b \o c \o d \o e
  <2>1. leaf = Bytes(pieces)
    BY <1>1, BuiltAll
  <2>2. Bytes(pieces) = pieces[1].bytes \o pieces[2].bytes \o pieces[3].bytes
                          \o pieces[4].bytes \o pieces[5].bytes
    BY <1>2, BytesFive
  <2> QED
    BY <1>2, <2>1, <2>2
<1>5. OP_CHECKSIGVERIFY \in Nat /\ EntryLen \in Nat /\ EntryLen >= 4
  BY EntryLenTyped DEF OP_CHECKSIGVERIFY
<1>6. a \in Seq(Nat) /\ OpensWithKey(b, OP_CHECKSIGVERIFY)
  <2>1. a \in Seq(Nat)
    BY <1>3, <1>5, EntryBytes
  <2>2. b \in Seq(Nat) /\ Len(b) = EntryLen
    BY <1>3, <1>5, EntryBytes
  <2>3. b[1] = OP_PUSHBYTES_32 /\ b[EntryLen] = OP_CHECKSIGVERIFY
    BY <1>3, <1>5, EntryBytes
  <2> HIDE DEF b
  <2> QED
    BY <1>5, <2>1, <2>2, <2>3 DEF OpensWithKey
<1>7. c \in Seq(Nat) /\ Len(c) > 0
  <2>1. c \in Seq(Nat)
    BY <1>3, GroupTyped
  <2>2. Len(c) > EntryLen
    BY <1>3, GroupOpens
  <2> HIDE DEF c
  <2> QED
    BY <1>5, <2>1, <2>2
<1>8. d \in Seq(Nat)
  BY <1>3, GroupTyped
<1>9. EndsInCsv(e)
  <2>1. e \in Seq(Nat) /\ e[Len(e)] = OP_CSV /\ Len(e) \in Nat /\ Len(e) >= 2
    BY <1>3, TimelockEndTyped
  <2> HIDE DEF e
  <2> QED
    BY <2>1 DEF EndsInCsv
<1> DEFINE cd == c \o d
<1>10. cd \in Seq(Nat) /\ Len(cd) > 0
  <2> HIDE DEF c, d
  <2>1. cd \in Seq(Nat) /\ Len(cd) = Len(c) + Len(d) /\ Len(c) \in Nat /\ Len(d) \in Nat
    BY <1>7, <1>8, ConcatAt
  <2> QED
    BY <1>7, <2>1
<1>11. a \o b \o c \o d \o e = a \o b \o cd \o e
  <2> DEFINE ab == a \o b
  <2>1. ab \in Seq(Nat)
    <3>1. b \in Seq(Nat)
      BY <1>6 DEF OpensWithKey
    <3> HIDE DEF a, b
    <3> QED
      BY <1>6, <3>1, ConcatAt
  <2> HIDE DEF ab, c, d, e
  <2>2. c \in Seq(Nat) /\ d \in Seq(Nat)
    BY <1>7, <1>8
  <2>3. (ab \o c) \o d = ab \o (c \o d)
    BY <2>1, <2>2
  <2> QED
    BY <2>3 DEF ab
<1> HIDE DEF b, cd, e
<1>12. TwoKeysThenCsv(a \o b \o cd \o e, OP_CHECKSIGVERIFY)
  BY <1>3, <1>6, <1>9, <1>10, TwoKeysLaid
<1> QED
  BY <1>4, <1>11, <1>12

-----------------------------------------------------------------------------
(* Numbers read out of a leaf. *)

(* The number a little-endian string stands for, byte by byte from its end.*)
LEMMA NumberSteps ==
  ASSUME NEW s \in Seq(Nat)
  PROVE  \E t : /\ \A i \in 1..(Len(s) + 1) : t[i] \in Nat
                /\ t[Len(s) + 1] = 0
                /\ \A i \in 1..Len(s) : t[i] = s[i] + 256 * t[i + 1]
                /\ Number(s) = t[1]
<1> DEFINE n == Len(s)
           D == 1..n
           iter == CHOOSE f : f = [S \in SUBSET (DOMAIN s) |->
                                     IF S = {} THEN 0 ELSE s[Min(S)] + 256 * f[S \ {Min(S)}]]
           c == [S \in SUBSET D |-> Min(S)]
           h == [p \in D \X Nat |-> s[p[1]] + 256 * p[2]]
<1>1. Number(s) = iter[DOMAIN s]
  BY DEF Number, FoldRight, MapThenFoldSet
<1>2. n \in Nat /\ DOMAIN s = D /\ \A i \in D : s[i] \in Nat
  OBVIOUS
<1>3. \A S \in SUBSET D : S # {} => c[S] = Min(S) /\ Min(S) \in S
  BY <1>2, MinAmong
<1>4. PICK f \in [SUBSET D -> Nat] : IsFold(f, D, 0, h, c)
  <2>1. IsFiniteSet(D)
    BY <1>2, FS_Interval
  <2>2. h \in [D \X Nat -> Nat] /\ 0 \in Nat
    BY <1>2
  <2>3. Chooses(c, D)
    BY <1>3 DEF Chooses
  <2> HIDE DEF D, h, c
  <2> QED
    BY <2>1, <2>2, <2>3, FoldExists
<1>5. f = [S \in SUBSET (DOMAIN s) |->
             IF S = {} THEN 0 ELSE s[Min(S)] + 256 * f[S \ {Min(S)}]]
  <2> USE DEF IsFold
  <2>1. ASSUME NEW S \in SUBSET D
        PROVE  f[S] = IF S = {} THEN 0 ELSE s[Min(S)] + 256 * f[S \ {Min(S)}]
    <3>1. CASE S = {}
      BY <1>4, <3>1
    <3>2. CASE S # {}
      <4>1. c[S] = Min(S) /\ Min(S) \in D /\ S \ {Min(S)} \in SUBSET D
        BY <1>3, <3>2
      <4>2. f[S] = h[<<c[S], f[S \ {c[S]}]>>]
        BY <1>4, <3>2
      <4>3. f[S \ {Min(S)}] \in Nat
        BY <1>4, <4>1
      <4> QED
        BY <3>2, <4>1, <4>2, <4>3
    <3> QED
      BY <3>1, <3>2
  <2>2. f = [S \in SUBSET D |-> f[S]]
    BY <1>4
  <2> HIDE DEF c, h, D
  <2> QED
    BY <2>1, <2>2, <1>2
<1>6. iter = [S \in SUBSET (DOMAIN s) |->
               IF S = {} THEN 0 ELSE s[Min(S)] + 256 * iter[S \ {Min(S)}]]
  BY <1>5, Zenon
<1> HIDE DEF iter
<1>7. \A S \in SUBSET D : iter[S] \in Nat
  <2> DEFINE Good == {S \in SUBSET D : iter[S] \in Nat}
  <2>1. {} \in Good
    BY <1>6, <1>2
  <2>2. ASSUME NEW S \in SUBSET D, S # {}, S \ {c[S]} \in Good
        PROVE  S \in Good
    <3>1. c[S] = Min(S) /\ Min(S) \in D
      BY <1>3, <2>2
    <3>2. iter[S] = s[Min(S)] + 256 * iter[S \ {Min(S)}]
      BY <1>6, <1>2, <2>2
    <3> QED
      BY <1>2, <2>2, <3>1, <3>2
  <2>3. IsFiniteSet(D)
    BY <1>2, FS_Interval
  <2>4. Chooses(c, D)
    BY <1>3 DEF Chooses
  <2>5. SUBSET D \subseteq Good
    <3>1. Reaches(c, D, Good)
      <4> HIDE DEF Good, D, c
      <4> QED
        BY <2>1, <2>2 DEF Reaches
    <3> HIDE DEF Good, D, c
    <3> QED
      BY <2>3, <2>4, <3>1, SubsetsReached
  <2> QED
    BY <2>5
<1> DEFINE t == [i \in 1..(n + 1) |-> iter[i..n]]
<1>8. \A i \in 1..(n + 1) : t[i] \in Nat
  <2>1. \A i \in 1..(n + 1) : i..n \in SUBSET D
    BY <1>2
  <2> QED
    BY <1>7, <2>1
<1>9. t[n + 1] = 0
  <2>1. (n + 1)..n = {} /\ n + 1 \in 1..(n + 1)
    BY <1>2
  <2> QED
    BY <1>2, <1>6, <2>1
<1>10. ASSUME NEW i \in 1..n
       PROVE  t[i] = s[i] + 256 * t[i + 1]
  <2> DEFINE S == i..n
  <2>1. S \in SUBSET D /\ S # {} /\ i \in 1..(n + 1) /\ i + 1 \in 1..(n + 1)
    BY <1>2
  <2>2. Min(S) = i
    <3>1. Min(S) \in S /\ \A m \in S : Min(S) <= m
      BY <1>2, <2>1, MinAmong
    <3> QED
      BY <1>2, <3>1
  <2>3. S \ {i} = (i + 1)..n
    BY <1>2
  <2>4. iter[S] = s[Min(S)] + 256 * iter[S \ {Min(S)}]
    BY <1>6, <1>2, <2>1
  <2> QED
    BY <2>1, <2>2, <2>3, <2>4
<1>11. Number(s) = t[1]
  <2>1. 1 \in 1..(n + 1)
    BY <1>2
  <2> QED
    BY <1>1, <1>2, <2>1
<1> HIDE DEF t
<1> QED
  BY <1>8, <1>9, <1>10, <1>11

LEMMA NumberTyped ==
  ASSUME NEW s \in Seq(Nat)
  PROVE  /\ Number(s) \in Nat
         /\ Len(s) = 0 => Number(s) = 0
         /\ Len(s) = 1 => Number(s) = s[1]
         /\ Len(s) = 2 => Number(s) = s[1] + 256 * s[2]
<1> PICK t : /\ \A i \in 1..(Len(s) + 1) : t[i] \in Nat
             /\ t[Len(s) + 1] = 0
             /\ \A i \in 1..Len(s) : t[i] = s[i] + 256 * t[i + 1]
             /\ Number(s) = t[1]
  BY NumberSteps
<1>1. Number(s) \in Nat
  <2>1. 1 \in 1..(Len(s) + 1)
    OBVIOUS
  <2> QED
    BY <2>1
<1>2. ASSUME Len(s) = 0 PROVE Number(s) = 0
  BY <1>2
<1>3. ASSUME Len(s) = 1 PROVE Number(s) = s[1]
  <2>1. 1 \in 1..Len(s) /\ t[2] = 0 /\ t[1] = s[1] + 256 * t[2]
    BY <1>3
  <2>2. s[1] \in Nat
    BY <2>1, ElementOfSeq
  <2> QED
    BY <2>1, <2>2
<1>4. ASSUME Len(s) = 2 PROVE Number(s) = s[1] + 256 * s[2]
  <2>1. t[3] = 0 /\ t[2] = s[2] + 256 * t[3] /\ t[1] = s[1] + 256 * t[2]
    BY <1>4
  <2>2. s[1] \in Nat /\ s[2] \in Nat
    BY <1>4, 1 \in 1..Len(s), 2 \in 1..Len(s), ElementOfSeq
  <2> QED
    BY <2>1, <2>2
<1> QED
  BY <1>1, <1>2, <1>3, <1>4

(* What stands before OP_CSV, and the last n bytes of it. *)
OperandOf(script) == SubSeq(script, EntryLen + 1, Len(script) - 1)
TailOf(push, n) == SubSeq(push, Len(push) - n + 1, Len(push))

(* The push whose number, as consensus reads it, is csv.                   *)
EnforcedBy(push, n, csv) ==
  /\ push \in {<<n>> \o TailOf(push, n), <<OP_PUSHDATA1, n>> \o TailOf(push, n)}
  /\ TailOf(push, n)[n] < 128
  /\ Number(TailOf(push, n)) = csv

ReadAsTail(script, off, n, csv) ==
  /\ n >= 1 /\ n <= 4 /\ n \in 1..4
  /\ OperandOf(script) \in Seq(Nat)
  /\ Len(OperandOf(script)) = n + (off - EntryLen)
  /\ \A k \in 1..(n + (off - EntryLen)) : OperandOf(script)[k] = script[EntryLen + k]
  /\ TailOf(OperandOf(script), n) \in Seq(Nat)
  /\ Len(TailOf(OperandOf(script), n)) = n
  /\ \A k \in 1..n : TailOf(OperandOf(script), n)[k] = script[off + k]
  /\ TailOf(OperandOf(script), n)[n] < 128
  /\ csv \in Nat /\ Number(TailOf(OperandOf(script), n)) = csv

(* A number read from off on that reaches to OP_CSV is the tail of it.     *)
LEMMA NumberIsTail ==
  ASSUME NEW script \in Seq(Nat), NEW off \in Nat, off > EntryLen,
         NEW n \in Nat, NEW p \in NumberPushed(script, off, n),
         p.next = Len(script) - 1, p.csv # 0
  PROVE  ReadAsTail(script, off, n, p.csv)
<1> DEFINE m == off - EntryLen
           push == OperandOf(script)
           tail == TailOf(push, n)
           slice == Slice(script, off, n)
<1>1. /\ n <= 4 /\ off + n <= Len(script) /\ script[off + n] < 128
      /\ p = [csv |-> Number(slice), next |-> off + n]
  <2>1. /\ n <= 4 /\ off + n <= Len(script) /\ script[off + n - 1 + 1] < 128
        /\ p \in {[csv |-> Number(slice), next |-> off + n]}
    BY DEF NumberPushed, SCRIPT_NUM_MAX_LEN, SCRIPT_NUM_SIGN_BIT, At
  <2>2. off + n - 1 + 1 = off + n
    OBVIOUS
  <2> QED
    BY <2>1, <2>2
<1>2. EntryLen \in Nat /\ m \in Nat /\ m >= 1 /\ EntryLen + m = off /\ Len(script) \in Nat
  BY EntryLenTyped
<1>3. Len(script) - 1 = off + n /\ p.csv = Number(slice)
  BY <1>1, <1>2
<1>4. /\ slice \in Seq(Nat) /\ Len(slice) = n
      /\ \A k \in 1..n : slice[k] = script[off + k]
  <2>1. off + n \in Nat /\ off <= off + n /\ (off + n) - off = n
    BY <1>2
  <2>2. /\ SubSeq(script, off + 1, off + n) \in Seq(Nat)
        /\ Len(SubSeq(script, off + 1, off + n)) = (off + n) - off
        /\ \A k \in 1..((off + n) - off) : SubSeq(script, off + 1, off + n)[k] = script[off + k]
    BY <1>1, <2>1, Stretch
  <2> QED
    BY <2>1, <2>2 DEF Slice
<1>5. n # 0
  <2>1. Len(slice) = 0 => Number(slice) = 0
    BY <1>4, NumberTyped
  <2> QED
    BY <1>3, <1>4, <2>1
<1>6. /\ push \in Seq(Nat) /\ Len(push) = n + m
      /\ \A k \in 1..(n + m) : push[k] = script[EntryLen + k]
  <2>1. /\ off + n \in Nat /\ EntryLen <= off + n /\ (off + n) - EntryLen = n + m
    BY <1>2
  <2>2. /\ SubSeq(script, EntryLen + 1, off + n) \in Seq(Nat)
        /\ Len(SubSeq(script, EntryLen + 1, off + n)) = (off + n) - EntryLen
        /\ \A k \in 1..((off + n) - EntryLen) :
             SubSeq(script, EntryLen + 1, off + n)[k] = script[EntryLen + k]
    BY <1>1, <1>2, <2>1, Stretch
  <2> QED
    BY <1>3, <2>1, <2>2 DEF OperandOf
<1> HIDE DEF push
<1>7. /\ tail \in Seq(Nat) /\ Len(tail) = n /\ \A k \in 1..n : tail[k] = push[m + k]
  <2>1. m \in Nat /\ m <= n + m /\ n + m \in Nat /\ (n + m) - m = n
    BY <1>2
  <2> DEFINE end == n + m
  <2>2. /\ SubSeq(push, m + 1, end) \in Seq(Nat)
        /\ Len(SubSeq(push, m + 1, end)) = end - m
        /\ \A k \in 1..(end - m) : SubSeq(push, m + 1, end)[k] = push[m + k]
    <3>1. push \in Seq(Nat) /\ m \in Nat /\ end \in Nat /\ m <= end /\ end <= Len(push)
      BY <1>6, <2>1
    <3> HIDE DEF end, m
    <3>2. SubSeq(push, m + 1, end) \in Seq(Nat) /\ Len(SubSeq(push, m + 1, end)) = end - m
      BY <3>1, Stretch
    <3>3. \A k \in 1..(end - m) : SubSeq(push, m + 1, end)[k] = push[m + k]
      BY <3>1, Stretch
    <3> QED
      BY <3>2, <3>3
  <2>3. Len(push) - n + 1 = m + 1
    BY <1>6, <1>2
  <2> QED
    BY <1>6, <2>1, <2>2, <2>3 DEF TailOf
<1> HIDE DEF tail, m
<1>8. ASSUME NEW k \in 1..n
      PROVE  tail[k] = script[off + k]
  <2>1. m + k \in 1..(n + m) /\ EntryLen + (m + k) = off + k
    BY <1>2
  <2> QED
    BY <1>6, <1>7, <2>1
<1>9. tail = slice
  <2> HIDE DEF slice
  <2> QED
    <3>1. tail \in Seq(Nat) /\ slice \in Seq(Nat) /\ Len(tail) = Len(slice)
      BY <1>4, <1>7
    <3>2. \A k \in 1..Len(tail) : tail[k] = slice[k]
      BY <1>4, <1>7, <1>8
    <3> QED
      BY <3>1, <3>2, SeqEqual
<1>10. tail[n] < 128
  BY <1>1, <1>5, <1>8
<1>11. n \in 1..4
  <2>1. n = 1 \/ n = 2 \/ n = 3 \/ n = 4
    BY <1>1, <1>5
  <2> QED
    BY <2>1
<1>12. p.csv \in Nat
  BY <1>3, <1>4, NumberTyped
<1> QED
  BY <1>1, <1>2, <1>3, <1>5, <1>6, <1>7, <1>8, <1>9, <1>10, <1>11, <1>12 DEF ReadAsTail, push, tail, m

LEMMA InRange ==
  ASSUME NEW low \in Nat, NEW high \in Nat, NEW x \in Nat
  PROVE  x \in low..high <=> low <= x /\ x <= high
OBVIOUS

LEMMA SmallNumber ==
  ASSUME NEW op \in Nat, op >= 81, op <= 96
  PROVE  op - 80 \in 1..16
<1>1. op - 80 \in Nat /\ 1 <= op - 80 /\ op - 80 <= 16
  OBVIOUS
<1> QED
  BY <1>1, InRange

(* The timelock read out of a refund leaf is what its push stands for.     *)
LEMMA RefundEnforced ==
  ASSUME NEW script \in Seq(Nat), NEW leaf \in RefundLeaves(script), leaf.csv \notin 1..16
  PROVE  /\ leaf.csv \in Nat /\ leaf.csv <= BIP68_SEQUENCE_MASK
         /\ \E n \in 1..4 : EnforcedBy(OperandOf(script), n, leaf.csv)
<1> DEFINE op == At(script, EntryLen)
           push == OperandOf(script)
<1>1. PICK p \in OperandPushed(script) :
        /\ p.csv # 0 /\ p.csv <= BIP68_SEQUENCE_MASK
        /\ p.next = Len(script) - 1 /\ leaf.csv = p.csv
        /\ Len(script) >= EntryLen + 2
  BY DEF RefundLeaves, OperandAcceptable, REFUND_SCRIPT_MIN_LEN
<1>2. EntryLen \in Nat /\ Len(script) \in Nat
  BY EntryLenTyped
<1>3. op = script[EntryLen + 1] /\ op \in Nat
  <2>1. EntryLen + 1 \in 1..Len(script)
    BY <1>1, <1>2
  <2> QED
    BY <2>1, ElementOfSeq DEF At
<1>4. CASE op \in OP_PUSHBYTES_1..OP_PUSHBYTES_75
  <2>1. p \in NumberPushed(script, EntryLen + 1, op)
    <3>1. op >= 1 /\ op <= 75
      BY <1>3, <1>4, InRange DEF OP_PUSHBYTES_1, OP_PUSHBYTES_75
    <3>2. op # OP_PUSHDATA1 /\ op \notin OP_1..OP_16
      <4>1. op # OP_PUSHDATA1 /\ OP_1 \in Nat /\ OP_16 \in Nat /\ ~(OP_1 <= op)
        BY <1>3, <3>1 DEF OP_PUSHDATA1, OP_1, OP_16
      <4> HIDE DEF op
      <4> QED
        BY <1>3, <4>1, InRange
    <3>3. OperandPushed(script) = NumberPushed(script, EntryLen + 1, op)
      <4> HIDE DEF op
      <4>1. At(script, EntryLen) = op
        BY DEF op
      <4> QED
        BY <1>4, <3>2, <4>1 DEF OperandPushed
    <3> QED
      BY <3>3
  <2>2. EntryLen + 1 \in Nat /\ EntryLen + 1 > EntryLen /\ (EntryLen + 1) - EntryLen = 1
    BY <1>2
  <2> DEFINE off == EntryLen + 1
             tail == TailOf(push, op)
  <2> HIDE DEF op, off
  <2>3. /\ op >= 1 /\ op <= 4
        /\ op \in 1..4 /\ push \in Seq(Nat)
        /\ Len(push) = op + (off - EntryLen)
        /\ \A k \in 1..(op + (off - EntryLen)) : push[k] = script[EntryLen + k]
        /\ tail \in Seq(Nat) /\ Len(tail) = op
        /\ \A k \in 1..op : tail[k] = script[off + k]
        /\ tail[op] < 128 /\ Number(tail) = p.csv /\ p.csv \in Nat
    <3>1. ReadAsTail(script, off, op, p.csv)
      BY <1>1, <1>3, <2>1, <2>2, NumberIsTail DEF off
    <3> QED
      BY <3>1 DEF ReadAsTail
  <2> HIDE DEF push, tail
  <2>4. push = <<op>> \o tail
    <3>1. \A k \in 1..op : EntryLen + (1 + k) = off + k
      BY <1>2, <1>3 DEF off
    <3>2. ASSUME NEW k \in 1..(op + 1)
          PROVE  push[k] = (<<op>> \o tail)[k]
      <4>1. CASE k = 1
        BY <1>3, <2>2, <2>3, <4>1 DEF off
      <4>2. CASE k # 1
        <5>1. k - 1 \in 1..op /\ EntryLen + k = off + (k - 1) /\ k \in 1..(op + (off - EntryLen))
          BY <1>2, <1>3, <2>2, <4>2 DEF off
        <5>2. push[k] = tail[k - 1]
          BY <2>3, <5>1
        <5>3. (<<op>> \o tail)[k] = tail[k - 1]
          BY <1>3, <2>3, <4>2, <5>1
        <5> QED
          BY <5>2, <5>3
      <4> QED
        BY <4>1, <4>2
    <3>3. <<op>> \o tail \in Seq(Nat) /\ Len(<<op>> \o tail) = op + 1
      BY <1>3, <2>3
    <3>4. Len(push) = op + 1
      BY <1>3, <2>2, <2>3 DEF off
    <3> QED
      BY <2>3, <3>2, <3>3, <3>4, SeqEqual
  <2>5. EnforcedBy(push, op, leaf.csv)
    BY <1>1, <2>3, <2>4 DEF EnforcedBy, tail
  <2>6. op \in 1..4
    BY <2>3
  <2> QED
    BY <1>1, <2>3, <2>5, <2>6 DEF push
<1>5. CASE op = OP_PUSHDATA1
  <2> DEFINE n == At(script, EntryLen + 1)
             off == EntryLen + 2
             tail == TailOf(push, n)
  <2>1. p \in NumberPushed(script, off, n)
    <3>1. OperandPushed(script) = NumberPushed(script, EntryLen + 2, n)
      BY <1>5 DEF OperandPushed, OP_PUSHBYTES_1, OP_PUSHBYTES_75, OP_PUSHDATA1, OP_1, OP_16
    <3> QED
      BY <3>1
  <2>2. n = script[EntryLen + 2] /\ n \in Nat
    <3>1. EntryLen + 2 \in 1..Len(script) /\ (EntryLen + 1) + 1 = EntryLen + 2
      BY <1>1, <1>2
    <3>2. script[EntryLen + 2] \in Nat
      BY <3>1, ElementOfSeq
    <3> QED
      BY <3>1, <3>2 DEF At
  <2>3. off \in Nat /\ off > EntryLen /\ off - EntryLen = 2
    BY <1>2
  <2> HIDE DEF n, off, op
  <2>4. /\ n >= 1 /\ n <= 4
        /\ n \in 1..4 /\ push \in Seq(Nat)
        /\ Len(push) = n + (off - EntryLen)
        /\ \A k \in 1..(n + (off - EntryLen)) : push[k] = script[EntryLen + k]
        /\ tail \in Seq(Nat) /\ Len(tail) = n
        /\ \A k \in 1..n : tail[k] = script[off + k]
        /\ tail[n] < 128 /\ Number(tail) = p.csv /\ p.csv \in Nat
    <3>1. ReadAsTail(script, off, n, p.csv)
      BY <1>1, <2>1, <2>2, <2>3, NumberIsTail
    <3> QED
      BY <3>1 DEF ReadAsTail
  <2> HIDE DEF push, tail
  <2>5. push = <<OP_PUSHDATA1, n>> \o tail
    <3>1. OP_PUSHDATA1 \in Nat
      BY DEF OP_PUSHDATA1
    <3>2. ASSUME NEW k \in 1..(n + 2)
          PROVE  push[k] = (<<OP_PUSHDATA1, n>> \o tail)[k]
      <4>1. CASE k = 1
        <5>1. push[1] = OP_PUSHDATA1
          <6>1. 1 \in 1..(n + (off - EntryLen))
            BY <2>2, <2>3
          <6>2. push[1] = script[EntryLen + 1]
            BY <2>4, <6>1
          <6> QED
            BY <1>3, <1>5, <6>2
        <5>2. (<<OP_PUSHDATA1, n>> \o tail)[1] = OP_PUSHDATA1
          BY <2>2, <2>4, <3>1
        <5> QED
          BY <4>1, <5>1, <5>2
      <4>2. CASE k = 2
        <5>1. push[2] = n
          BY <2>2, <2>3, <2>4
        <5>2. (<<OP_PUSHDATA1, n>> \o tail)[2] = n
          BY <2>2, <2>4, <3>1
        <5> QED
          BY <4>2, <5>1, <5>2
      <4>3. CASE k # 1 /\ k # 2
        <5>1. k - 2 \in 1..n /\ EntryLen + k = off + (k - 2) /\ k \in 1..(n + (off - EntryLen))
          BY <1>2, <2>2, <2>3, <4>3
        <5>2. push[k] = tail[k - 2]
          BY <2>4, <5>1
        <5>3. (<<OP_PUSHDATA1, n>> \o tail)[k] = tail[k - 2]
          BY <2>2, <2>4, <3>1, <4>3, <5>1
        <5> QED
          BY <5>2, <5>3
      <4> QED
        BY <4>1, <4>2, <4>3
    <3>3. /\ <<OP_PUSHDATA1, n>> \o tail \in Seq(Nat)
          /\ Len(<<OP_PUSHDATA1, n>> \o tail) = n + 2
      BY <2>2, <2>4, <3>1
    <3>4. Len(push) = n + 2
      BY <2>2, <2>3, <2>4
    <3> QED
      BY <2>4, <3>2, <3>3, <3>4, SeqEqual
  <2>6. EnforcedBy(push, n, leaf.csv)
    BY <1>1, <2>4, <2>5 DEF EnforcedBy, tail
  <2>7. n \in 1..4
    BY <2>4
  <2> QED
    BY <1>1, <2>4, <2>6, <2>7 DEF push
<1>6. CASE op \in OP_1..OP_16
  <2>1. OperandPushed(script) = {[csv |-> op - OP_RESERVED, next |-> EntryLen + 1]}
    BY <1>6 DEF OperandPushed, OP_PUSHBYTES_1, OP_PUSHBYTES_75, OP_PUSHDATA1, OP_1, OP_16
  <2>2. p.csv = op - 80
    BY <1>1, <2>1 DEF OP_RESERVED
  <2>3. op >= 81 /\ op <= 96
    BY <1>3, <1>6, InRange DEF OP_1, OP_16
  <2>4. op - 80 \in 1..16
    BY <1>3, <2>3, SmallNumber
  <2> QED
    BY <1>1, <2>2, <2>4
<1>7. CASE op \notin OP_PUSHBYTES_1..OP_PUSHBYTES_75 /\ op # OP_PUSHDATA1 /\ op \notin OP_1..OP_16
  <2>1. OperandPushed(script) = {}
    BY <1>7 DEF OperandPushed
  <2> QED
    BY <1>1, <2>1
<1> QED
  BY <1>4, <1>5, <1>6, <1>7

-----------------------------------------------------------------------------
(* Timelocks, read back out of the leaves they were built into. *)

LEMMA OneByteNumber ==
  ASSUME NEW s \in Seq(Nat), NEW off \in Nat, off + 1 <= Len(s)
  PROVE  Number(Slice(s, off, 1)) = s[off + 1]
<1> DEFINE slice == SubSeq(s, off + 1, off + 1)
           end == off + 1
<1>1. end \in Nat /\ off <= end /\ end <= Len(s) /\ end - off = 1
  OBVIOUS
<1>2. SubSeq(s, off + 1, end) \in Seq(Nat) /\ Len(SubSeq(s, off + 1, end)) = end - off
  BY <1>1, Stretch
<1>3. \A k \in 1..(end - off) : SubSeq(s, off + 1, end)[k] = s[off + k]
  BY <1>1, Stretch
<1>4. slice \in Seq(Nat) /\ Len(slice) = 1 /\ slice[1] = s[off + 1]
  BY <1>1, <1>2, <1>3
<1> HIDE DEF slice
<1>5. Number(slice) = slice[1]
  BY <1>4, NumberTyped
<1> QED
  BY <1>4, <1>5 DEF Slice, slice

LEMMA TwoByteNumber ==
  ASSUME NEW s \in Seq(Nat), NEW off \in Nat, off + 2 <= Len(s)
  PROVE  Number(Slice(s, off, 2)) = s[off + 1] + 256 * s[off + 2]
<1> DEFINE slice == SubSeq(s, off + 1, off + 2)
           end == off + 2
<1>1. end \in Nat /\ off <= end /\ end <= Len(s) /\ end - off = 2
  OBVIOUS
<1>2. SubSeq(s, off + 1, end) \in Seq(Nat) /\ Len(SubSeq(s, off + 1, end)) = end - off
  BY <1>1, Stretch
<1>3. \A k \in 1..(end - off) : SubSeq(s, off + 1, end)[k] = s[off + k]
  BY <1>1, Stretch
<1>4. slice \in Seq(Nat) /\ Len(slice) = 2 /\ slice[1] = s[off + 1] /\ slice[2] = s[off + 2]
  BY <1>1, <1>2, <1>3
<1> HIDE DEF slice
<1>5. Number(slice) = slice[1] + 256 * slice[2]
  BY <1>4, NumberTyped
<1> QED
  BY <1>4, <1>5 DEF Slice, slice

(* The end of a leaf, byte by byte, for the timelocks an intent may carry. *)
OneByteEnd(s, t) == Len(s) = 3 /\ s[1] = 1 /\ s[2] = t /\ s[3] = OP_CSV
TwoByteEnd(s, t) ==
  Len(s) = 4 /\ s[1] = 2 /\ s[2] = t % 256 /\ s[3] = t \div 256 /\ s[4] = OP_CSV

LEMMA TimelockEndBytes ==
  ASSUME NEW t \in Nat
  PROVE  /\ 17 <= t /\ t <= 127 => OneByteEnd(TimelockEnd(t), t)
         /\ 128 <= t /\ t <= 32767 => TwoByteEnd(TimelockEnd(t), t)
<1> DEFINE end == TimelockEnd(t)
           push == PushNumber(t)
<1>1. /\ Len(end) = Len(push) + 1
      /\ \A m \in 1..Len(push) : end[m] = push[m]
      /\ end[Len(end)] = OP_CSV
  BY TimelockEndTyped
<1> HIDE DEF end
<1>2. ASSUME 17 <= t, t <= 127
      PROVE  OneByteEnd(end, t)
  <2>1. push = <<1, t>>
    BY <1>2, PushNumberCases DEF OneBytePushed
  <2>2. Len(push) = 2 /\ push[1] = 1 /\ push[2] = t
    BY <2>1
  <2> HIDE DEF push
  <2> QED
    BY <1>1, <2>2 DEF OneByteEnd
<1>3. ASSUME 128 <= t, t <= 32767
      PROVE  TwoByteEnd(end, t)
  <2>1. push = <<2, t % 256, t \div 256>>
    BY <1>3, PushNumberCases DEF TwoBytesPushed
  <2>2. Len(push) = 3 /\ push[1] = 2 /\ push[2] = t % 256 /\ push[3] = t \div 256
    BY <2>1
  <2> HIDE DEF push
  <2> QED
    BY <1>1, <2>2 DEF TwoByteEnd
<1> QED
  BY <1>2, <1>3 DEF end

(* The bytes of a two-byte timelock: no sign bit, and it adds up. *)
LEMMA BytesOfTimelock ==
  ASSUME NEW t \in Nat, t <= 32767
  PROVE  /\ t % 256 \in Nat /\ t \div 256 \in Nat /\ t \div 256 < 128
         /\ (t % 256) + 256 * (t \div 256) = t
OBVIOUS

(* A refund leaf is read for the key and the timelock in it.               *)
LEMMA RefundReadBack ==
  ASSUME NEW key, Xonly(key), NEW t \in Nat, t > 16, t <= 32767
  PROVE  RefundLeaves(Entry(key, OP_CHECKSIGVERIFY) \o TimelockEnd(t))
           = {[key |-> key, csv |-> t]}
<1> DEFINE end == TimelockEnd(t)
           leaf == Entry(key, OP_CHECKSIGVERIFY) \o end
           n == Len(leaf)
<1> SUFFICES RefundLeaves(leaf) = {[key |-> key, csv |-> t]}
  OBVIOUS
<1>1. end \in Seq(Nat) /\ OP_CHECKSIGVERIFY \in Nat
  BY TimelockEndTyped DEF OP_CHECKSIGVERIFY
<1>2. OpensInto(leaf, key, OP_CHECKSIGVERIFY, end)
  BY <1>1, EntryThen
<1> HIDE DEF end, leaf
<1>3. /\ leaf \in Seq(Nat) /\ n = EntryLen + Len(end)
      /\ OpensWith(leaf, OP_CHECKSIGVERIFY) /\ LeadingKey(leaf) = key
      /\ \A m \in 1..Len(end) : leaf[EntryLen + m] = end[m]
  BY <1>2 DEF OpensInto
<1>4. EntryLen \in Nat
  BY EntryLenTyped
<1> DEFINE p == [csv |-> t, next |-> n - 1]
<1>5. OperandPushed(leaf) = {p} /\ n >= EntryLen + 2 /\ leaf[n] = OP_CSV /\ n \in Nat
  <2>1. CASE t <= 127
    <3>1. OneByteEnd(end, t)
      BY <2>1, TimelockEndBytes DEF end
    <3>2. /\ n = EntryLen + 3
          /\ leaf[EntryLen + 1] = 1 /\ leaf[EntryLen + 2] = t /\ leaf[EntryLen + 3] = OP_CSV
      BY <1>3, <1>4, <3>1 DEF OneByteEnd
    <3>3. Number(Slice(leaf, EntryLen + 1, 1)) = t
      <4> DEFINE off == EntryLen + 1
      <4>1. off \in Nat /\ off + 1 <= Len(leaf) /\ off + 1 = EntryLen + 2
        BY <1>4, <3>2 DEF n
      <4> HIDE DEF off
      <4>2. Number(Slice(leaf, off, 1)) = leaf[off + 1]
        BY <1>3, <4>1, OneByteNumber
      <4>3. Number(Slice(leaf, off, 1)) = t
        BY <3>2, <4>1, <4>2
      <4> QED
        BY <4>3 DEF off
    <3>4. At(leaf, EntryLen) = 1 /\ At(leaf, (EntryLen + 1) + 1 - 1) = t
      <4>1. (EntryLen + 1) + 1 - 1 + 1 = EntryLen + 2
        BY <1>4
      <4> QED
        BY <3>2, <4>1 DEF At
    <3>5. NumberPushed(leaf, EntryLen + 1, 1) = {p}
      <4>1. 1 <= 4 /\ (EntryLen + 1) + 1 <= n /\ t < 128 /\ (EntryLen + 1) + 1 = n - 1
        BY <1>4, <2>1, <3>2
      <4> QED
        BY <3>3, <3>4, <4>1 DEF NumberPushed, SCRIPT_NUM_MAX_LEN, SCRIPT_NUM_SIGN_BIT
    <3>6. OperandPushed(leaf) = NumberPushed(leaf, EntryLen + 1, 1)
      <4>1. 1 \in OP_PUSHBYTES_1..OP_PUSHBYTES_75 /\ 1 # OP_PUSHDATA1 /\ 1 \notin OP_1..OP_16
        BY DEF OP_PUSHBYTES_1, OP_PUSHBYTES_75, OP_PUSHDATA1, OP_1, OP_16
      <4> QED
        BY <3>4, <4>1 DEF OperandPushed
    <3> QED
      BY <1>4, <3>2, <3>5, <3>6
  <2>2. CASE ~(t <= 127)
    <3> DEFINE low == t % 256
               high == t \div 256
    <3>1. TwoByteEnd(end, t)
      BY <2>2, TimelockEndBytes DEF end
    <3>2. /\ n = EntryLen + 4
          /\ leaf[EntryLen + 1] = 2 /\ leaf[EntryLen + 2] = low
          /\ leaf[EntryLen + 3] = high /\ leaf[EntryLen + 4] = OP_CSV
      BY <1>3, <1>4, <3>1 DEF TwoByteEnd
    <3>3. low \in Nat /\ high \in Nat /\ high < 128 /\ low + 256 * high = t
      BY BytesOfTimelock
    <3> HIDE DEF low, high
    <3>4. Number(Slice(leaf, EntryLen + 1, 2)) = t
      <4> DEFINE off == EntryLen + 1
      <4>0. leaf \in Seq(Nat)
        BY <1>3
      <4>1. /\ off \in Nat /\ off + 2 <= Len(leaf)
            /\ off + 1 = EntryLen + 2 /\ off + 2 = EntryLen + 3
        BY <1>4, <3>2 DEF n
      <4> HIDE DEF off
      <4>2. Number(Slice(leaf, off, 2)) = leaf[off + 1] + 256 * leaf[off + 2]
        BY <4>0, <4>1, TwoByteNumber
      <4>3. Number(Slice(leaf, off, 2)) = t
        BY <3>2, <3>3, <4>1, <4>2
      <4> QED
        BY <4>3 DEF off
    <3>5. At(leaf, EntryLen) = 2 /\ At(leaf, (EntryLen + 1) + 2 - 1) = high
      <4>1. (EntryLen + 1) + 2 - 1 + 1 = EntryLen + 3
        BY <1>4
      <4> QED
        BY <3>2, <4>1 DEF At
    <3>6. NumberPushed(leaf, EntryLen + 1, 2) = {p}
      <4>1. 2 <= 4 /\ (EntryLen + 1) + 2 <= n /\ (EntryLen + 1) + 2 = n - 1
        BY <1>4, <3>2
      <4> QED
        BY <3>3, <3>4, <3>5, <4>1 DEF NumberPushed, SCRIPT_NUM_MAX_LEN, SCRIPT_NUM_SIGN_BIT
    <3>7. OperandPushed(leaf) = NumberPushed(leaf, EntryLen + 1, 2)
      <4>1. 2 \in OP_PUSHBYTES_1..OP_PUSHBYTES_75 /\ 2 # OP_PUSHDATA1 /\ 2 \notin OP_1..OP_16
        BY DEF OP_PUSHBYTES_1, OP_PUSHBYTES_75, OP_PUSHDATA1, OP_1, OP_16
      <4> QED
        BY <3>5, <4>1 DEF OperandPushed
    <3> QED
      BY <1>4, <3>2, <3>6, <3>7
  <2> QED
    BY <2>1, <2>2
<1>6. At(leaf, p.next) = OP_CSV
  BY <1>5 DEF At
<1>7. OperandAcceptable(p.csv)
  BY DEF OperandAcceptable, BIP68_SEQUENCE_MASK
<1> HIDE DEF n
<1> DEFINE Accepted == {r \in {p} : /\ OperandAcceptable(r.csv)
                                    /\ r.next = n - 1
                                    /\ At(leaf, r.next) = OP_CSV}
<1>8. RefundLeaves(leaf) = {[key |-> key, csv |-> q.csv] : q \in Accepted}
  BY <1>3, <1>5 DEF RefundLeaves, REFUND_SCRIPT_MIN_LEN, n
<1>9. Accepted = {p}
  BY <1>6, <1>7
<1> HIDE DEF Accepted
<1> QED
  BY <1>8, <1>9

LEMMA GroupCloses ==
  ASSUME NEW keys, KeyList(keys), NEW is_final \in BOOLEAN
  PROVE  MultisigGroup(keys, is_final)[Len(MultisigGroup(keys, is_final))]
           = Compare(is_final)
<1> DEFINE entries == Entries(keys)
           count == PushNumber(Len(keys))
           compare == <<Compare(is_final)>>
           group == MultisigGroup(keys, is_final)
<1>1. /\ group = entries \o count \o compare
      /\ entries \in Seq(Nat) /\ count \in Seq(Nat)
      /\ compare \in Seq(Nat) /\ Len(compare) = 1 /\ compare[1] = Compare(is_final)
  BY GroupPieces, EntriesLaid
<1> HIDE DEF entries, count, compare, group
<1> DEFINE joined == entries \o count \o compare
<1>2. Len(joined) = Len(entries) + Len(count) + Len(compare)
  BY <1>1, ThreeScripts
<1>3. \A m \in 1..Len(compare) : joined[Len(entries) + Len(count) + m] = compare[m]
  BY <1>1, ThreeScripts
<1>4. group[Len(group)] = Compare(is_final)
  BY <1>1, <1>2, <1>3
<1> QED
  BY <1>4 DEF group

PayoutTimelock(t) == t \in Nat /\ t >= 91 /\ t <= 4031

(* A payout leaf from the last byte in front of the timelock on.           *)
ClosedBy(leaf, byte, end) ==
  /\ leaf \in Seq(Nat) /\ Len(leaf) >= Len(end) + 1
  /\ leaf[Len(leaf) - Len(end)] = byte
  /\ \A m \in 1..Len(end) : leaf[Len(leaf) - Len(end) + m] = end[m]

LEMMA PayoutTimelockReadBack ==
  ASSUME NEW t, PayoutTimelock(t), NEW leaf,
         ClosedBy(leaf, OP_NUMEQUALVERIFY, TimelockEnd(t))
  PROVE  PayoutTimelocks(leaf) = {t}
<1> DEFINE end == TimelockEnd(t)
           n == Len(leaf)
           two == {t2 \in TwoByteTail(leaf) : PayoutTimelockAcceptable(t2)}
           one == {t2 \in OneByteTail(leaf) : PayoutTimelockAcceptable(t2)}
<1>0. t \in Nat /\ t >= 91 /\ t <= 4031
  BY DEF PayoutTimelock
<1>5. PayoutTimelocks(leaf) = IF two # {} THEN two ELSE one
  BY Zenon DEF PayoutTimelocks
<1>1. /\ leaf \in Seq(Nat) /\ n \in Nat /\ n >= Len(end) + 1
      /\ leaf[n - Len(end)] = 157
      /\ \A m \in 1..Len(end) : leaf[n - Len(end) + m] = end[m]
  BY DEF ClosedBy, OP_NUMEQUALVERIFY
<1>2. PayoutTimelockAcceptable(t)
  BY <1>0 DEF PayoutTimelockAcceptable, VAULT_PAYOUT_TIMELOCK_MIN, VAULT_PAYOUT_TIMELOCK_MAX
<1>3. CASE t <= 127
  <2>1. OneByteEnd(end, t)
    BY <1>0, <1>3, TimelockEndBytes
  <2> HIDE DEF end
  <2>2. /\ Len(end) = 3 /\ n >= 4 /\ leaf[n - 3] = 157
        /\ leaf[n - 3 + 1] = 1 /\ leaf[n - 3 + 2] = t
    BY <1>1, <2>1 DEF OneByteEnd
  <2> HIDE DEF n
  <2>3. n - 4 + 1 = n - 3 /\ n - 3 + 1 = n - 2 /\ n - 2 + 1 = n - 1 /\ n - 3 + 2 = n - 1
    BY <1>1
  <2>4. /\ At(leaf, n - 4) = 157 /\ At(leaf, n - 3) = 1 /\ At(leaf, n - 2) = t
    BY <2>2, <2>3 DEF At
  <2>5. TwoByteTail(leaf) = {}
    BY <2>4 DEF TwoByteTail, OP_PUSHBYTES_2, n
  <2>6. OneByteTail(leaf) = {t}
    <3>1. t < 128
      BY <1>0, <1>3
    <3> QED
      BY <2>4, <3>1 DEF OneByteTail, OP_PUSHBYTES_1, SCRIPT_NUM_SIGN_BIT, n
  <2>7. two = {} /\ one = {t}
    BY <1>2, <2>5, <2>6
  <2> HIDE DEF two, one
  <2> QED
    BY <1>5, <2>7
<1>4. CASE ~(t <= 127)
  <2> DEFINE low == t % 256
             high == t \div 256
  <2>1. TwoByteEnd(end, t)
    BY <1>0, <1>4, TimelockEndBytes
  <2>2. low \in Nat /\ high \in Nat /\ high < 128 /\ low + 256 * high = t
    BY <1>0, BytesOfTimelock
  <2> HIDE DEF end
  <2>9. Len(end) = 4 /\ end[1] = 2 /\ end[2] = low /\ end[3] = high
    BY <2>1 DEF TwoByteEnd
  <2> HIDE DEF low, high
  <2>3. /\ n >= 5
        /\ leaf[n - 4 + 1] = 2 /\ leaf[n - 4 + 2] = low /\ leaf[n - 4 + 3] = high
    BY <1>1, <2>9
  <2> HIDE DEF n
  <2>4. /\ n - 4 + 1 = n - 3 /\ n - 4 + 2 = n - 2 /\ n - 4 + 3 = n - 1
        /\ n - 3 + 1 = n - 2 /\ n - 3 + 2 = n - 1 /\ n - 2 + 1 = n - 1
        /\ n - 3 \in Nat /\ n - 3 + 2 <= n
    BY <1>1, <2>3
  <2>5. At(leaf, n - 4) = 2 /\ At(leaf, n - 2) = high
    BY <2>3, <2>4 DEF At
  <2>6. Number(Slice(leaf, n - 3, 2)) = t
    <3> DEFINE off == n - 3
    <3>1. off \in Nat /\ off + 2 <= Len(leaf) /\ leaf[off + 1] = low /\ leaf[off + 2] = high
      BY <2>3, <2>4 DEF n
    <3> HIDE DEF off
    <3>2. Number(Slice(leaf, off, 2)) = leaf[off + 1] + 256 * leaf[off + 2]
      BY <1>1, <3>1, TwoByteNumber
    <3>3. Number(Slice(leaf, off, 2)) = t
      BY <2>2, <3>1, <3>2
    <3> QED
      BY <3>3 DEF off
  <2>7. TwoByteTail(leaf) = {t}
    BY <2>2, <2>5, <2>6 DEF TwoByteTail, OP_PUSHBYTES_2, SCRIPT_NUM_SIGN_BIT, n
  <2>8. two = {t}
    BY <1>2, <2>7
  <2> HIDE DEF two, one
  <2> QED
    BY <1>5, <2>8
<1> QED
  BY <1>3, <1>4

(* A payout leaf, and what stands in front of its timelock.                *)
PayoutFront(key, list, others) ==
  Entry(key, OP_CHECKSIGVERIFY) \o MultisigGroup(list, FALSE) \o MultisigGroup(others, FALSE)

(* A payout leaf is read for the key and the timelock in it.               *)
LEMMA PayoutReadBack ==
  ASSUME NEW key, Xonly(key), NEW list, KeyList(list), NEW others, KeyList(others),
         NEW t, PayoutTimelock(t)
  PROVE  PayoutLeaves(PayoutFront(key, list, others) \o TimelockEnd(t))
           = {[key |-> key, csv |-> t]}
<1> DEFINE entry == Entry(key, OP_CHECKSIGVERIFY)
           second == MultisigGroup(list, FALSE)
           third == MultisigGroup(others, FALSE)
           end == TimelockEnd(t)
           front == entry \o second \o third
           leaf == front \o end
<1> SUFFICES PayoutLeaves(leaf) = {[key |-> key, csv |-> t]}
  BY Zenon DEF PayoutFront
<1>0. t \in Nat
  BY DEF PayoutTimelock
<1> HIDE DEF front, leaf
<1>1. entry \in Seq(Nat) /\ second \in Seq(Nat) /\ third \in Seq(Nat) /\ end \in Seq(Nat)
  <2>1. OP_CHECKSIGVERIFY \in Nat
    BY DEF OP_CHECKSIGVERIFY
  <2>2. entry \in Seq(Nat)
    BY <2>1, EntryBytes
  <2>3. second \in Seq(Nat)
    BY GroupTyped
  <2>4. third \in Seq(Nat)
    BY GroupTyped
  <2>5. end \in Seq(Nat)
    BY <1>0, TimelockEndTyped
  <2> QED
    BY <2>2, <2>3, <2>4, <2>5
<1>2. OpensWithKey(second, OP_CHECKSIG)
  <2>1. second[1] = OP_PUSHBYTES_32 /\ second[EntryLen] = OP_CHECKSIG
    BY GroupOpens
  <2>2. Len(second) > EntryLen
    BY GroupOpens
  <2> HIDE DEF second
  <2> QED
    BY <1>1, <2>1, <2>2, EntryLenTyped DEF OpensWithKey
<1>3. Len(third) > 0 /\ third[Len(third)] = OP_NUMEQUALVERIFY
  <2>1. Len(third) > EntryLen
    BY GroupOpens
  <2>2. third[Len(third)] = OP_NUMEQUALVERIFY
    BY GroupCloses DEF Compare
  <2> HIDE DEF third
  <2> QED
    BY <1>1, <2>1, <2>2, EntryLenTyped
<1>4. EndsInCsv(end) /\ Len(end) \in Nat
  <2>1. end[Len(end)] = OP_CSV /\ Len(end) \in Nat /\ Len(end) >= 2
    BY <1>0, TimelockEndTyped
  <2> HIDE DEF end
  <2> QED
    BY <1>1, <2>1 DEF EndsInCsv
<1>5. TwoKeysThenCsv(leaf, OP_CHECKSIG) /\ LeadingKey(leaf) = key
  <2> HIDE DEF second, third, end
  <2> QED
    BY <1>1, <1>2, <1>3, <1>4, TwoKeysLaid DEF leaf, front
<1> HIDE DEF entry, second, third, end
<1>6. front \in Seq(Nat) /\ Len(front) = Len(entry) + Len(second) + Len(third)
  BY <1>1, ThreeScripts DEF front
<1>7. \A m \in 1..Len(third) : front[Len(entry) + Len(second) + m] = third[m]
  BY <1>1, ThreeScripts DEF front
<1>8. Len(front) \in Nat /\ Len(front) >= 1 /\ front[Len(front)] = OP_NUMEQUALVERIFY
  <2>1. Len(entry) \in Nat /\ Len(second) \in Nat /\ Len(third) \in Nat
    BY <1>1
  <2>2. Len(third) \in 1..Len(third)
    BY <1>3, <2>1
  <2>3. front[Len(entry) + Len(second) + Len(third)] = OP_NUMEQUALVERIFY
    BY <1>3, <1>7, <2>2
  <2>4. Len(front) \in Nat /\ Len(front) >= 1
    BY <1>3, <1>6, <2>1
  <2> QED
    BY <1>6, <2>3, <2>4
<1>9. leaf \in Seq(Nat) /\ Len(leaf) = Len(front) + Len(end)
  BY <1>1, <1>6, ConcatAt DEF leaf
<1>10. \A m \in 1..Len(front) : leaf[m] = front[m]
  BY <1>1, <1>6, ConcatAt DEF leaf
<1>11. \A m \in 1..Len(end) : leaf[Len(front) + m] = end[m]
  <2>1. front \in Seq(Nat) /\ end \in Seq(Nat)
    BY <1>1, <1>6
  <2>2. \A m \in 1..Len(end) : (front \o end)[Len(front) + m] = end[m]
    BY <2>1, ConcatAt
  <2> QED
    BY <2>2, Zenon DEF leaf
<1>12. Len(leaf) - Len(end) = Len(front) /\ Len(leaf) >= Len(end) + 1
  BY <1>4, <1>8, <1>9
<1>13. ClosedBy(leaf, OP_NUMEQUALVERIFY, end)
  BY <1>8, <1>9, <1>10, <1>11, <1>12 DEF ClosedBy
<1>14. PayoutTimelocks(leaf) = {t}
  BY <1>13, PayoutTimelockReadBack DEF end
<1>15. OpensIntoSignerGroup(leaf, Len(leaf)) /\ At(leaf, Len(leaf) - 1) = OP_CSV
  BY <1>5, EntryLenTyped, KeyLenAssumption
  DEF TwoKeysThenCsv, OpensIntoSignerGroup, VAULT_NOPAYOUT_LEAF_LEN,
    VAULT_LEAF_GROUP0_PUSH_OFF, VAULT_LEAF_GROUP0_OP_OFF
<1>16. PayoutLeaves(leaf) = {[key |-> LeadingKey(leaf), csv |-> t2] : t2 \in PayoutTimelocks(leaf)}
  BY <1>15 DEF PayoutLeaves
<1> QED
  BY <1>5, <1>14, <1>16

(* A leaf is built when there is room for every piece at its largest.      *)
LEMMA BytesNone ==
  ASSUME NEW pieces
  PROVE  Len(Bytes(SubSeq(pieces, 1, 1 - 1))) = 0
<1> DEFINE none == SubSeq(pieces, 1, 1 - 1)
           y == [i \in DOMAIN none |-> none[i].bytes]
<1>1. DOMAIN none = {}
  OBVIOUS
<1>2. Len(y) = 0
  OBVIOUS
<1>3. Bytes(none) = FlattenSeq(y)
  BY DEF Bytes
<1> HIDE DEF y, none
<1>4. FlattenSeq(y) = y
  BY <1>2 DEF FlattenSeq
<1> QED
  BY <1>2, <1>3, <1>4 DEF none

LEMMA BytesFirst ==
  ASSUME NEW pieces, DOMAIN pieces = 1..1
  PROVE  Bytes(pieces) = pieces[1].bytes
<1> DEFINE y == [i \in DOMAIN pieces |-> pieces[i].bytes]
<1>1. Len(y) = 1 /\ y[1] = pieces[1].bytes
  OBVIOUS
<1>2. Bytes(pieces) = FlattenSeq(y)
  BY DEF Bytes
<1>3. Len(y) \in Nat /\ Len(y) # 0
  BY <1>1
<1> HIDE DEF y
<1> PICK f : /\ FlattenSeq(y) = f[Len(y)]
             /\ f[1] = y[1]
             /\ \A i \in 2..Len(y) : f[i] = f[i - 1] \o y[i]
  BY <1>3, FlattenSeqSteps, Zenon
<1> QED
  BY <1>1, <1>2

LEMMA BuiltWithRoomForTwo ==
  ASSUME NEW pieces, DOMAIN pieces = 1..2, NEW buf_max \in Nat,
         pieces[1].bytes \in Seq(Nat),
         pieces[1].at_most <= buf_max, pieces[1].at_most \in Nat,
         Len(pieces[1].bytes) + pieces[2].at_most <= buf_max
  PROVE  Built(pieces, buf_max) = Bytes(pieces)
<1> DEFINE one == SubSeq(pieces, 1, 1)
           before(i) == Len(Bytes(SubSeq(pieces, 1, i - 1)))
<1>1. before(1) = 0
  BY BytesNone
<1>2. Bytes(one) = pieces[1].bytes
  <2>1. DOMAIN one = 1..1 /\ one[1] = pieces[1]
    OBVIOUS
  <2> HIDE DEF one
  <2> QED
    BY <2>1, BytesFirst
<1>3. before(2) = Len(pieces[1].bytes)
  <2>1. 2 - 1 = 1
    OBVIOUS
  <2> QED
    BY <1>2, <2>1
<1> HIDE DEF before
<1>4. ASSUME NEW i \in DOMAIN pieces
      PROVE  before(i) + pieces[i].at_most <= buf_max
  <2>1. CASE i = 1
    BY <1>1, <2>1
  <2>2. CASE i = 2
    BY <1>3, <2>2
  <2> QED
    BY <2>1, <2>2
<1> QED
  BY <1>4 DEF before, Built

LEMMA BuiltWithRoomForFour ==
  ASSUME NEW pieces, DOMAIN pieces = 1..4, NEW buf_max \in Nat,
         pieces[1].bytes \in Seq(Nat), pieces[2].bytes \in Seq(Nat),
         pieces[3].bytes \in Seq(Nat),
         pieces[1].at_most <= buf_max, pieces[1].at_most \in Nat,
         Len(pieces[1].bytes) + pieces[2].at_most <= buf_max,
         Len(pieces[1].bytes) + Len(pieces[2].bytes) + pieces[3].at_most <= buf_max,
         Len(pieces[1].bytes) + Len(pieces[2].bytes) + Len(pieces[3].bytes)
           + pieces[4].at_most <= buf_max
  PROVE  Built(pieces, buf_max) = Bytes(pieces)
<1> DEFINE a == pieces[1].bytes
           b == pieces[2].bytes
           c == pieces[3].bytes
           before(i) == Len(Bytes(SubSeq(pieces, 1, i - 1)))
<1>1. before(1) = 0
  BY BytesNone
<1>2. before(2) = Len(a)
  <2> DEFINE one == SubSeq(pieces, 1, 1)
  <2>1. DOMAIN one = 1..1 /\ one[1] = pieces[1] /\ 2 - 1 = 1
    OBVIOUS
  <2> HIDE DEF one
  <2>2. Bytes(one) = a
    BY <2>1, BytesFirst
  <2> QED
    BY <2>1, <2>2 DEF one
<1>3. before(3) = Len(a) + Len(b)
  <2> DEFINE two == SubSeq(pieces, 1, 2)
  <2>1. DOMAIN two = 1..2 /\ two[1] = pieces[1] /\ two[2] = pieces[2] /\ 3 - 1 = 2
    OBVIOUS
  <2> HIDE DEF two
  <2>2. Bytes(two) = a \o b
    BY <2>1, BytesTwo
  <2>3. Len(a \o b) = Len(a) + Len(b)
    BY LenProperties, ConcatAt
  <2> QED
    BY <2>1, <2>2, <2>3 DEF two
<1>4. before(4) = Len(a) + Len(b) + Len(c)
  <2> DEFINE three == SubSeq(pieces, 1, 3)
  <2>1. /\ DOMAIN three = 1..3 /\ three[1] = pieces[1] /\ three[2] = pieces[2]
        /\ three[3] = pieces[3] /\ 4 - 1 = 3
    OBVIOUS
  <2> HIDE DEF three
  <2>2. Bytes(three) = a \o b \o c
    BY <2>1, BytesThree
  <2>3. Len(a \o b \o c) = Len(a) + Len(b) + Len(c)
    BY ThreeScripts
  <2> QED
    BY <2>1, <2>2, <2>3 DEF three
<1> HIDE DEF before
<1>5. ASSUME NEW i \in DOMAIN pieces
      PROVE  before(i) + pieces[i].at_most <= buf_max
  <2>1. CASE i = 1
    BY <1>1, <2>1
  <2>2. CASE i = 2
    BY <1>2, <2>2
  <2>3. CASE i = 3
    BY <1>3, <2>3
  <2>4. CASE i = 4
    BY <1>4, <2>4
  <2> QED
    BY <2>1, <2>2, <2>3, <2>4
<1> QED
  BY <1>5 DEF before, Built

(* There is room for the largest payout leaf. *)
LEMMA RoomForPayout ==
  ASSUME NEW intent, Buildable(intent), NEW g \in DOMAIN intent.groups,
         NEW claimer \in Claimers(intent), NEW buf_max \in Nat,
         EntryLen * (1 + Len(intent.keeper_pks) + Len(intent.challenger_pks)) + 18 <= buf_max
  PROVE  Assert0PayoutLeaf(intent, g, claimer, buf_max)
           = PayoutFront(ClaimerPk(intent, g, claimer), AppChallengers(intent, g, claimer),
                         intent.challenger_pks)
               \o TimelockEnd(intent.payout_timelock)
<1> DEFINE leaf == Assert0PayoutLeaf(intent, g, claimer, buf_max)
           key == ClaimerPk(intent, g, claimer)
           list == AppChallengers(intent, g, claimer)
           others == intent.challenger_pks
           t == intent.payout_timelock
           entry == Entry(key, OP_CHECKSIGVERIFY)
           second == MultisigGroup(list, FALSE)
           third == MultisigGroup(others, FALSE)
           end == TimelockEnd(t)
           pieces == <<Required(key), Group(list, FALSE), Group(others, FALSE), Csv(t, 6)>>
           n == Len(intent.keeper_pks)
           m == Len(others)
           x == EntryLen * n
           y == EntryLen * m
<1> SUFFICES leaf = entry \o second \o third \o end
  BY Zenon DEF PayoutFront
<1>1. leaf = Built(pieces, buf_max)
  BY Zenon DEF Assert0PayoutLeaf
<1>2. Xonly(key) /\ KeyList(list) /\ Len(list) = n
  BY ChallengersTyped
<1>3. KeyList(others) /\ n \in Nat /\ m \in Nat
  BY DEF Buildable, KeyList
<1>4. /\ DOMAIN pieces = 1..4
      /\ pieces[1] = Required(key) /\ pieces[2] = Group(list, FALSE)
      /\ pieces[3] = Group(others, FALSE) /\ pieces[4] = Csv(t, 6)
  OBVIOUS
<1>5. EntryLen \in Nat /\ EntryLen >= 4
  BY EntryLenTyped
<1>6. EntryLen + x + y + 18 <= buf_max /\ x \in Nat /\ y \in Nat
  <2>1. EntryLen * (1 + n + m) = EntryLen + x + y /\ x \in Nat /\ y \in Nat
    <3> HIDE DEF n, m
    <3> QED
      BY <1>3, <1>5
  <2> HIDE DEF x, y
  <2> QED
    BY <2>1
<1> HIDE DEF pieces, leaf, key, list, others, t, n
<1>7. entry \in Seq(Nat) /\ Len(entry) = EntryLen
  <2>1. OP_CHECKSIGVERIFY \in Nat
    BY DEF OP_CHECKSIGVERIFY
  <2> QED
    BY <1>2, <2>1, EntryBytes
<1>8. second \in Seq(Nat) /\ Len(second) \in Nat /\ Len(second) <= x + 5
  <2>1. second \in Seq(Nat)
    BY <1>2, GroupTyped
  <2>2. Len(second) <= EntryLen * Len(list) + 5
    BY <1>2, GroupOpens
  <2> HIDE DEF second
  <2> QED
    BY <1>2, <2>1, <2>2
<1>9. third \in Seq(Nat) /\ Len(third) \in Nat /\ Len(third) <= y + 5
  <2>1. third \in Seq(Nat)
    BY <1>3, GroupTyped
  <2>2. Len(third) <= EntryLen * Len(others) + 5
    BY <1>3, GroupOpens
  <2> HIDE DEF third
  <2> QED
    BY <2>1, <2>2
<1>10. /\ pieces[1].bytes = entry /\ pieces[1].at_most = EntryLen
       /\ pieces[2].bytes = second /\ pieces[2].at_most = x + 6
       /\ pieces[3].bytes = third /\ pieces[3].at_most = y + 6
       /\ pieces[4].bytes = end /\ pieces[4].at_most = 6
  <2>1. pieces[1].bytes = entry /\ pieces[1].at_most = Len(entry)
    BY <1>4 DEF Required, Fixed
  <2>2. pieces[2].bytes = second /\ pieces[2].at_most = EntryLen * Len(list) + 6
    BY <1>4 DEF Group
  <2>3. pieces[3].bytes = third /\ pieces[3].at_most = EntryLen * Len(others) + 6
    BY <1>4 DEF Group
  <2>4. pieces[4].bytes = end /\ pieces[4].at_most = 6
    BY <1>4, CsvBytes
  <2> QED
    BY <1>2, <1>7, <2>1, <2>2, <2>3, <2>4
<1> HIDE DEF entry, second, third, end, m, x, y
<1>11. /\ EntryLen <= buf_max
       /\ Len(entry) + (x + 6) <= buf_max
       /\ Len(entry) + Len(second) + (y + 6) <= buf_max
       /\ Len(entry) + Len(second) + Len(third) + 6 <= buf_max
  BY <1>5, <1>6, <1>7, <1>8, <1>9
<1>12. Built(pieces, buf_max) = Bytes(pieces)
  BY <1>4, <1>5, <1>7, <1>8, <1>9, <1>10, <1>11, BuiltWithRoomForFour
<1>13. Bytes(pieces) = entry \o second \o third \o end
  BY <1>4, <1>10, BytesFour
<1> QED
  BY <1>1, <1>12, <1>13

(* And for a refund leaf. *)
LEMMA RoomForRefund ==
  ASSUME NEW intent, Buildable(intent), NEW buf_max \in Nat, EntryLen + 4 <= buf_max
  PROVE  HtlcLeaf1(intent, buf_max)
           = Entry(intent.depositor_pk, OP_CHECKSIGVERIFY)
               \o TimelockEnd(intent.htlc_refund_timelock)
<1> DEFINE key == intent.depositor_pk
           t == intent.htlc_refund_timelock
           pieces == <<Required(key), Csv(t, 4)>>
           a == Entry(key, OP_CHECKSIGVERIFY)
           b == TimelockEnd(t)
<1> SUFFICES HtlcLeaf1(intent, buf_max) = a \o b
  OBVIOUS
<1>1. HtlcLeaf1(intent, buf_max) = Built(pieces, buf_max)
  BY Zenon DEF HtlcLeaf1
<1>2. /\ DOMAIN pieces = 1..2
      /\ pieces[1].bytes = a /\ pieces[1].at_most = Len(a)
      /\ pieces[2].bytes = b /\ pieces[2].at_most = 4
  <2>1. DOMAIN pieces = 1..2 /\ pieces[1] = Required(key) /\ pieces[2] = Csv(t, 4)
    OBVIOUS
  <2> HIDE DEF pieces
  <2>2. pieces[1].bytes = a /\ pieces[1].at_most = Len(a)
    BY <2>1 DEF Required, Fixed
  <2>3. pieces[2].bytes = b /\ pieces[2].at_most = 4
    BY <2>1, CsvBytes
  <2> QED
    BY <2>1, <2>2, <2>3
<1>3. a \in Seq(Nat) /\ Len(a) = EntryLen
  <2>1. OP_CHECKSIGVERIFY \in Nat /\ Xonly(key)
    BY DEF OP_CHECKSIGVERIFY, Buildable
  <2> QED
    BY <2>1, EntryBytes
<1> HIDE DEF pieces, a, b
<1>4. EntryLen \in Nat /\ EntryLen <= buf_max
  BY EntryLenTyped
<1>5. Built(pieces, buf_max) = Bytes(pieces)
  BY <1>2, <1>3, <1>4, BuiltWithRoomForTwo
<1>6. Bytes(pieces) = a \o b
  BY <1>2, BytesTwo
<1> QED
  BY <1>1, <1>5, <1>6
=============================================================================
