----------------------------- MODULE MCDocClaims -----------------------------
(* Sentences of the documentation and of comments in the code, taken at    *)
(* their word and checked against VaultApp.  The code does something else  *)
(* in each case; README.md says what.                                      *)
EXTENDS MCVaultApp

(* docs/apdu.md:275 lists what brings the session back to IDLE.  A failure *)
(* while signing a PegIn does so too and is not in the list, and           *)
(* docs/integration-guide.md:500 says the session survives it.             *)
SessionEndsAsListed ==
  [][ctx.state # "IDLE" /\ ctx'.state = "IDLE" =>
       \/ resp'.ins \in {"approve", "derive", "none"}
       \/ resp'.sw = "CAP_EXCEEDED"
       \/ psbt.flow \in {"Payout", "NoPayout"}]_vars

(* docs/integration-guide.md:493, :502: a rejection on the device (0x6985) *)
(* never invalidates, the same APDU can be resent.  Declining Screen 2     *)
(* wipes the session and the root with it.                                 *)
DenialKeepsSession ==
  [][resp.sw # "DENY" /\ resp' = [ins |-> "approve", sw |-> "DENY"]
       => ctx'.state = ctx.state]_vars

(* APP_SPECIFICATION.md:466: the output count of an Assert is not          *)
(* enforced.  With three outputs it is dispatched to the PegIn validator.  *)
AssertIgnoresOutputCount ==
  \A tx \in Psbts :
    /\ Loaded
    /\ ~tx.v0 /\ tx.nwp /\ tx.nin = 1
    /\ tx.leaf = "assert" /\ AssertPrefixOk(tx)
    => Route(tx) = "Assert"

(* APP_SPECIFICATION.md:559-566: WC is accepted in any state with one or   *)
(* more inputs and one output.  Two inputs without a wallet policy go to   *)
(* the Payout validator once an intent is loaded, three always to NoPayout.*)
WCInAnyState ==
  \A tx \in Psbts :
    ~tx.v0 /\ tx.nwp /\ tx.nin >= 1 /\ tx.nout = 1 /\ tx.leaf = "wc"
      => Route(tx) = "WC"

(* sign_custom_inputs.c:262 and sign_psbt_validate.c:2128 speak of a dedup *)
(* bit per NoPayout challenger: one signature per vault and challenger.    *)
(* There is no such bit; only the flat cap bounds one challenger's share.  *)
NoPayoutOncePerChallenger ==
  approved # ZeroIntent =>
    released[NoPayoutSlot]
      <= approved.scalars.vault_count
           * Cardinality({tx.key : tx \in {tx \in Psbts : tx.leaf = "nopayout"}})

OneChallenger == {NoPayout(3)}

TwoInputWC == {[Psbt(TRUE, 2, 1) EXCEPT !.leaf = "wc"]}
=============================================================================
