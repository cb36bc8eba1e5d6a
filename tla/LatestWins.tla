----------------------------- MODULE LatestWins -----------------------------
(***************************************************************************)
(* What a keyed trailing-edge debouncer promises to the code that calls it *)
(* (backend/pkg/utils/trailing_debouncer.go, line 16: "keeps the latest    *)
(* call for each key and runs it"), without timers, locks or entries: a    *)
(* one-place mailbox per key whose content is overwritten by newer calls,  *)
(* and a single server per key that empties it.                            *)
(*                                                                         *)
(* TrailingDebouncer is shown to implement this module.                    *)
(***************************************************************************)
EXTENDS Naturals

CONSTANTS
  Keys,       \* debounce keys, one per "org:worker:session"
  MaxCalls,   \* bound: calls made per key
  NoValue     \* an empty mailbox

VARIABLES
  calls,      \* calls[k]: number of calls made so far; the n-th carries value n
  mailbox,    \* mailbox[k]: the value that waits, or NoValue
  inHand      \* inHand[k]: the set of values the handler is working on

vars == <<calls, mailbox, inHand>>

Init ==
  /\ calls = [k \in Keys |-> 0]
  /\ mailbox = [k \in Keys |-> NoValue]
  /\ inHand = [k \in Keys |-> {}]

(* A call overwrites whatever waited for the key. *)
Put(k) ==
  /\ calls[k] < MaxCalls
  /\ calls' = [calls EXCEPT ![k] = @ + 1]
  /\ mailbox' = [mailbox EXCEPT ![k] = calls[k] + 1]
  /\ UNCHANGED inHand

(* The key's only server takes what waits, never while it is busy. *)
Serve(k) ==
  /\ inHand[k] = {}
  /\ mailbox[k] # NoValue
  /\ inHand' = [inHand EXCEPT ![k] = {mailbox[k]}]
  /\ mailbox' = [mailbox EXCEPT ![k] = NoValue]
  /\ UNCHANGED calls

Complete(k) ==
  /\ inHand[k] # {}
  /\ inHand' = [inHand EXCEPT ![k] = {}]
  /\ UNCHANGED <<calls, mailbox>>

Next == \E k \in Keys : Put(k) \/ Serve(k) \/ Complete(k)

(* The safety half of the promise. *)
SafeSpec == Init /\ [][Next]_vars

(* The whole promise: what waits is eventually served, and served values  *)
(* are eventually done with.                                               *)
Spec == SafeSpec /\ \A k \in Keys : WF_vars(Serve(k)) /\ WF_vars(Complete(k))
=============================================================================
