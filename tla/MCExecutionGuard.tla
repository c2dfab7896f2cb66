-------------------------- MODULE MCExecutionGuard --------------------------
(* Instances of ExecutionGuard for TLC. *)
EXTENDS ExecutionGuard, TLC

CONSTANT Patient   \* the slot of a client that retries its Submit for ever

\* Slots and ids are interchangeable (safety runs only).
Symmetry == Permutations(Calls) \cup Permutations(Ids)

\* A client that sends its Submit again, with the same key, whenever the last
\* attempt has returned.
Retry == \E q \in Request : q.kind = "submit" /\ Send(Patient, q)

RetrySpec == FairSpec /\ WF_vars(Retry)

\* Nothing but the patient client's Submits is in flight.
Alone == \A p \in Calls : pc[p] = "idle" \/ (p = Patient /\ Kind(p) = "submit")

\* A patient client is served: whatever crashes, lost connections and orphaned
\* reservations came before, once nobody else competes for the user's lock a
\* result is recorded.
RetryCompletes == <>[]Alone => <>(submissions # {})
=============================================================================
