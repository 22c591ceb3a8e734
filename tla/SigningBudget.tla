---------------------------- MODULE SigningBudget ----------------------------
(***************************************************************************)
(* What the app promises about signatures, without how: a session is       *)
(* derived, then approved; an approval sets an allowance for every kind of *)
(* signature (Pre-PegIn once, PegIn once per vault, ...); a signature is   *)
(* released only while that approval stands and its allowance lasts; and   *)
(* an allowance is never given back except by a new approval.  The app may *)
(* drop the approval at any time, also in the step that releases.          *)
(***************************************************************************)
EXTENDS Naturals

CONSTANT Slots   \* what is counted

VARIABLES
  state,      \* IDLE, HASH_DERIVED or INTENT_LOADED
  allowance,  \* how many signatures the last approval grants per slot
  spent       \* how many were released since

budgetVars == <<state, allowance, spent>>

Nothing == [slot \in Slots |-> 0]

Init ==
  /\ state = "IDLE"
  /\ allowance = Nothing
  /\ spent = Nothing

Derive ==
  /\ state' = "HASH_DERIVED"
  /\ UNCHANGED <<allowance, spent>>

Approve ==
  /\ state = "HASH_DERIVED"
  /\ state' = "INTENT_LOADED"
  /\ allowance' \in [Slots -> Nat]
  /\ spent' = Nothing

Release(slot) ==
  /\ state = "INTENT_LOADED"
  /\ spent[slot] < allowance[slot]
  /\ spent' = [spent EXCEPT ![slot] = @ + 1]
  /\ state' \in {"INTENT_LOADED", "IDLE"}
  /\ UNCHANGED allowance

Drop ==
  /\ state' = "IDLE"
  /\ UNCHANGED <<allowance, spent>>

(* Power loss forgets the approval; what was spent can no longer grow.     *)
Reset ==
  /\ state' = "IDLE"
  /\ allowance' = Nothing
  /\ spent' = Nothing

Next ==
  \/ Derive
  \/ Approve
  \/ \E slot \in Slots : Release(slot)
  \/ Drop
  \/ Reset

Spec == Init /\ [][Next]_budgetVars
=============================================================================
