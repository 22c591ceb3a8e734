----------------------------- MODULE MCVaultApp -----------------------------
(* Small instances of VaultApp.  Keys 1..4 are the parties of the intents, *)
(* key 5 is the device's key at path p1 and key 6 is not on the curve; the *)
(* key at p2 is the keeper's, so an intent naming p2 cannot be approved.   *)
EXTENDS VaultApp

CONSTANTS p1, p2

MCKeys == 1..6
MCValidKeys == 1..5
MCDepositorKeyAt == [p \in Paths |-> IF p = p1 THEN 5 ELSE 2]

MCScalars(v, n, m, paths) ==
  [vault_count: v, keeper_count: n, challenger_count: m, depositor_path: paths]

Group(vout, pk) == [htlc_vout |-> vout, vault_provider_pk |-> pk]
Keeper(k) == [tag |-> "keeper", key |-> k]
Challenger(k) == [tag |-> "challenger", key |-> k]

(* Nothing is loaded: derivation against the other commands.               *)
NoScalars == {}
NoRecords == {}

(* Loading: intents of one or two groups, one or two keepers.              *)
LoadScalars == MCScalars({1, 2}, {1, 2}, {1}, {p1, p2})
LoadGroups == {Group(0, 1), Group(1, 1), Group(1, 6), Group(2, 1)}
LoadKeys == {Keeper(2), Keeper(3), Challenger(3), Challenger(4), Keeper(1),
             Challenger(5)}

(* Signing: one intent, two groups, one keeper, one challenger.            *)
SignScalars == MCScalars({2}, {1}, {1}, {p1})
SignGroups == {Group(0, 1), Group(1, 4)}
SignKeys == {Keeper(2), Challenger(3)}

Unsigned == Zero

Psbt(nwp, nin, nout) ==
  [v0 |-> FALSE, nwp |-> nwp, int0 |-> ~nwp, nin |-> nin, nout |-> nout,
   vout |-> 0, spends |-> 7, leaf |-> "other", key |-> 0,
   signers |-> Unsigned, fault |-> "none"]

PoP == [Psbt(FALSE, 1, 1) EXCEPT !.v0 = TRUE]
PrePegIn == Psbt(FALSE, 1, 3)
PegIn(vout) == [Psbt(TRUE, 1, 3) EXCEPT !.vout = vout]
Payout(g, nout, key) ==
  [Psbt(TRUE, 2, nout) EXCEPT !.spends = g, !.leaf = "payout", !.key = key]
NoPayout(key) == [Psbt(TRUE, 3, 1) EXCEPT !.leaf = "nopayout", !.key = key]
PayoutFinalize == [Psbt(TRUE, 2, 2) EXCEPT !.leaf = "payout", !.key = 5]
Claim == [Psbt(TRUE, 1, 2) EXCEPT !.leaf = "claim"]

StreamPsbts == {PoP, Claim}

SignPsbts ==
  {PrePegIn, PayoutFinalize, NoPayout(3)}
  \cup {PegIn(v) : v \in {0, 1}}
  \cup {Payout(0, 3, 1), Payout(0, 2, 5), Payout(1, 3, 4)}

(* Dispatching: one intent with one group, and PSBTs of every shape up to  *)
(* four inputs and four outputs with every leaf, sound and faulty.         *)
RouteScalars == MCScalars({1}, {1}, {1}, {p1})
RouteGroups == {Group(0, 1)}

Signers == [depositor_pk |-> 5, keys |-> <<Keeper(2), Challenger(3)>>]

LeafKeys ==
  {<<"payout", 5>>} \cup {<<"nopayout", k>> : k \in {3, 4}}
  \cup {<<l, 0>> : l \in {"claim", "wc", "assert", "refund", "other"}}

PolicyFreePsbts ==
  {[Psbt(TRUE, nin, nout) EXCEPT !.leaf = l[1], !.key = l[2]] :
     nin \in {1, 2, 3, 4}, nout \in {1, 2, 3}, l \in LeafKeys}

TwoInputPsbts ==
  {[Psbt(TRUE, 2, nout) EXCEPT !.leaf = "payout", !.key = k, !.spends = spends] :
     nout \in {2, 3}, k \in {4, 5}, spends \in {0, NoTxid}}

WalletPsbts ==
  {[Psbt(FALSE, s[1], s[2]) EXCEPT !.int0 = int0, !.v0 = v0, !.leaf = "wc"] :
     s \in {<<1, 1>>, <<1, 3>>, <<3, 1>>}, int0 \in BOOLEAN, v0 \in BOOLEAN}

AssertPsbts ==
  {[Psbt(TRUE, nin, nout) EXCEPT !.leaf = "assert", !.signers = Signers] :
     nin \in {1, 2, 3}, nout \in {1, 2, 3}}

SoundPsbts ==
  PolicyFreePsbts \cup TwoInputPsbts \cup WalletPsbts \cup AssertPsbts
  \cup {PegIn(1)}

RoutePsbts ==
  SoundPsbts
  \cup {[tx EXCEPT !.fault = f] :
          tx \in {PrePegIn, PegIn(0), Payout(0, 2, 5), NoPayout(3), Claim,
                  PayoutFinalize},
          f \in {"early", "late"}}
=============================================================================
