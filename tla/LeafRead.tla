------------------------------ MODULE LeafRead ------------------------------
(***************************************************************************)
(* What vault_read_refund_leaf_script and vault_read_payout_leaf_script    *)
(* promise their callers (src/src/globals.h, vault_leaf_meta_t): a read    *)
(* either fails or describes, exactly, the one leaf of the input map.      *)
(* Nothing here knows that the value arrives in chunks.                    *)
(***************************************************************************)
EXTENDS Naturals, Sequences

CONSTANTS
  NoRead,          \* nothing is being read
  MaxScript,       \* VAULT_SCRIPT_MAX_LEN
  MaxValue,        \* VAULT_ASSERT_SCRIPT_MAX_LEN
  PrefixLen,       \* VAULT_LEAF_PREFIX_LEN
  MaxControlBlock, \* room in tls.control_block
  Tapscript        \* TAPSCRIPT_LEAF_VERSION

VARIABLES
  request,  \* the keys of the input map, and the Assert prefix expected
  outcome   \* what the caller is told

vars == <<request, outcome>>

(* A value is a script and, behind it, the leaf version. *)
ScriptOf(value) == SubSeq(value, 1, Len(value) - 1)

(* The first n cells of a zeroed buffer that s was written into. *)
Padded(s, n) == [i \in 1..n |-> IF i <= Len(s) THEN s[i] ELSE 0]

LeafHash(script) == [len |-> Len(script), data |-> script]

BeginsWith(script, prefix) ==
  /\ Len(script) > Len(prefix)
  /\ SubSeq(script, 1, Len(prefix)) = prefix

(* Everything a caller may rely on; expected is empty without an intent.   *)
Facts(value, expected) ==
  LET script == ScriptOf(value)
  IN  [script_len       |-> Len(script),
       buffered         |-> Len(script) <= MaxScript,
       leaf_script      |-> IF Len(script) <= MaxScript THEN script ELSE <<>>,
       last_byte        |-> script[Len(script)],
       prefix           |-> Padded(script, PrefixLen),
       hash             |-> LeafHash(script),
       assert_prefix_ok |-> expected # <<>> /\ BeginsWith(script, expected)]

Readable(key) ==
  /\ key.control_block <= MaxControlBlock
  /\ Len(key.value) \in 2..MaxValue
  /\ key.value[Len(key.value)] = Tapscript

LeafKeys(keys) == {i \in DOMAIN keys : keys[i].leaf}

(* Exactly one TAP_LEAF_SCRIPT key, and a value that is one. *)
Descriptions(r) ==
  {Facts(r.keys[i].value, r.expected) :
     i \in {j \in LeafKeys(r.keys) :
              LeafKeys(r.keys) = {j} /\ Readable(r.keys[j])}}

Untold == [status |-> "none"]

Init == request = NoRead /\ outcome = Untold

Ask ==
  /\ request' # NoRead
  /\ outcome' = Untold

Answer ==
  /\ request # NoRead
  /\ outcome = Untold
  /\ request' = request
  /\ outcome' \in {[status |-> "failed"]}
                  \cup {[status |-> "read", facts |-> f] : f \in Descriptions(request)}

(* The caller is through with what it was told. *)
Forget ==
  /\ outcome # Untold
  /\ request' = NoRead
  /\ outcome' = Untold

Next == Ask \/ Answer \/ Forget

Spec == Init /\ [][Next]_vars
=============================================================================
