------------------------------- MODULE MCLeaf -------------------------------
(* Model checking of LeafDispatch: two intents, and input maps with every  *)
(* leaf the protocol knows, with each byte of two of them altered, and     *)
(* with values and maps that are none.                                     *)
EXTENDS LeafDispatch

(* Keys whose bytes are opcodes, too. *)
Depositor == <<32, 172>>
Provider == <<5, 9>>
LastProvider == <<250, 1>>
Keepers == <<<<5, 1>>, <<173, 32>>>>
Challengers == <<<<81, 178>>>>

MCOf(keepers, challengers, groups) ==
  [depositor_pk |-> Depositor, keeper_pks |-> keepers, challenger_pks |-> challengers,
   groups |-> groups, prepegin_txid |-> 7,
   pegin_csv_timelock |-> 100, payout_timelock |-> 144, htlc_refund_timelock |-> 80]

MCGroup(htlc_vout, provider) ==
  [htlc_vout |-> htlc_vout, vault_provider_pk |-> provider,
   vault_amount |-> 1, depositor_claim_value |-> 1]

Small == MCOf(Keepers, Challengers, <<MCGroup(0, Provider), MCGroup(1, LastProvider)>>)

(* More keepers than there are opcodes for numbers. *)
Large == MCOf([i \in 1..17 |-> <<6, i>>], <<<<7, 1>>, <<7, 2>>>>,
              <<MCGroup(0, Provider), MCGroup(1, Provider)>>)

MCIntents == {Small, Large}

MCExpected == {<<>>} \cup {AssertPrefix(intent) : intent \in MCIntents}

Body(n) == [i \in 1..n |-> 117]
AssertLeaf(intent, n) == AssertPrefix(intent) \o Body(n) \o <<OP_TRUE>>
WCLeaf(key) ==
  Entry(key, OP_CHECKSIGVERIFY)
    \o <<OP_SIZE, OP_PUSHBYTES_1, 32, OP_EQUALVERIFY, OP_SHA256>> \o Entry(<<9, 9>>, OP_EQUAL)

Alterations(leaf) == {ReplaceAt(leaf, i, (leaf[i] + 1) % 256) : i \in DOMAIN leaf}

BuiltLeaves ==
  UNION {LeavesFor(Small, flow) : flow \in Flows}
    \cup {AssertLeaf(Small, 3), AssertLeaf(Small, MaxScript - 20),
          AssertLeaf(Small, MaxValue - 22), AssertLeaf(Large, 0), AssertLeaf(Large, 10),
          AssertPrefix(Small), AssertPrefix(Small) \o <<OP_TRUE>>,
          WCLeaf(Depositor), WCLeaf(Provider), HtlcLeaf0(Small, 1, <<9, 9>>, MaxScript),
          Assert0PayoutLeaf(Large, 1, 1, MaxScript), VaultUtxoLeaf(Large, 1, MaxScript)}

Pushes ==
  {<<1, 80>>, <<2, 80, 0>>, <<4, 80, 0, 0, 0>>, <<76, 1, 80>>, <<76, 3, 80, 0, 0>>,
   <<3, 80, 0, 1>>, <<3, 255, 255, 0>>, <<1, 208>>, <<2, 0, 128>>, <<2, 255, 16>>,
   <<5, 80, 0, 0, 0, 0>>, <<76, 0>>, <<0>>, <<79>>, <<96>>, <<2, 80>>, <<76, 9>>}

RefundTries ==
  {Entry(Depositor, OP_CHECKSIGVERIFY) \o push \o <<OP_CSV>> : push \in Pushes}

(* A payout leaf of this intent's claimer, drawn out into the memory the   *)
(* rebuilt leaf is written to.                                             *)
DrawnOut ==
  {Assert0PayoutLeaf(Small, 1, 3, MaxScript) \o Body(MaxScript - 24),
   SubSeq(Assert0PayoutLeaf(Small, 1, 3, MaxScript), 1, 20)}

MCLeaves ==
  BuiltLeaves \cup RefundTries \cup DrawnOut
    \cup Alterations(Assert0PayoutLeaf(Small, 1, 1, MaxScript))
    \cup {alt \o Body(7) \o <<OP_TRUE>> : alt \in Alterations(AssertPrefix(Small))}

LeafKey(value) == [leaf |-> TRUE, control_block |-> 1, value |-> value]
OtherKey == [leaf |-> FALSE, control_block |-> 0, value |-> <<>>]
Value(leaf) == Append(leaf, Tapscript)
ClaimValue == Value(DepositorClaimLeaf(Small, MaxScript))

MCMaps ==
  {<<LeafKey(Value(leaf))>> : leaf \in MCLeaves}
    \cup {<<LeafKey(value)>> :
            value \in {<<>>, <<Tapscript>>, <<1, Tapscript>>, ClaimValue \o <<1>>,
                       Append(Body(MaxValue), Tapscript)}}
    \cup {<<>>, <<OtherKey>>, <<OtherKey, LeafKey(ClaimValue), OtherKey>>,
          <<LeafKey(ClaimValue), LeafKey(ClaimValue)>>,
          <<LeafKey(<<>>), LeafKey(ClaimValue)>>,
          <<[LeafKey(ClaimValue) EXCEPT !.control_block = 9]>>,
          <<[LeafKey(ClaimValue) EXCEPT !.control_block = 9], LeafKey(ClaimValue)>>}

MCLies == {<<1>>, Value(Entry(Provider, OP_CHECKSIG))}

MCByte == 0..255
MCChunkSizes == {1, 5, 60}
=============================================================================
