----------------------------- MODULE SubmitOnce -----------------------------
(***************************************************************************)
(* What an idempotency key promises an APPLICATION player: under one key,  *)
(* for one user and one challenge version, at most one authoritative       *)
(* result is ever recorded, it is never replaced or withdrawn, and every   *)
(* answer a client receives is that result.                                *)
(***************************************************************************)
CONSTANT Entries          \* records [user, version, key, result]

VARIABLES recorded,       \* the authoritative results
          answered        \* the results clients have been given

vars == <<recorded, answered>>

SameScope(d, e) == d.user = e.user /\ d.version = e.version /\ d.key = e.key

Init == recorded = {} /\ answered = {}

Record(e) ==
  /\ \A d \in recorded : ~SameScope(d, e)
  /\ recorded' = recorded \cup {e}
  /\ UNCHANGED answered

Answer(e) ==
  /\ e \in recorded
  /\ answered' = answered \cup {e}
  /\ UNCHANGED recorded

Next == \E e \in Entries : Record(e) \/ Answer(e)

Spec == Init /\ [][Next]_vars
=============================================================================
