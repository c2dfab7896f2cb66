------------------------- MODULE SerialProgression -------------------------
(***************************************************************************)
(* What the save of an authoritative submission promises: submissions      *)
(* count one at a time, each completely or not at all.  A submission that  *)
(* counts updates its player's progress on its challenge and pays the      *)
(* milestones that were not paid yet, in one step.                         *)
(***************************************************************************)
EXTENDS ProgressionPolicy

CONSTANTS Saves, Users, Challenges, Times

VARIABLES progress,   \* progress[<<u, c>>]: the user_progress row, or None
          ledger,     \* xp_transactions
          counted     \* submissions that count

vars == <<progress, ledger, counted>>

Paid(rows, u, c) == {x.reason : x \in {y \in rows : y.user = u /\ y.challenge = c}}

Award(s, u, c, reason) == [user |-> u, challenge |-> c, reason |-> reason, submission |-> s]

Init ==
  /\ progress = [k \in Users \X Challenges |-> None]
  /\ ledger = {}
  /\ counted = {}

Count(s, u, c, score, stars, difficulty, at) ==
  /\ s \notin counted
  /\ progress' = [progress EXCEPT ![<<u, c>>] = UpdateProgress(s, score, stars, at, @)]
  /\ ledger' = ledger \cup {Award(s, u, c, r) :
                              r \in NewAwards(stars, difficulty, Paid(ledger, u, c))}
  /\ counted' = counted \cup {s}

Next ==
  \E s \in Saves, u \in Users, c \in Challenges, score \in Scores, stars \in Stars,
     difficulty \in Difficulties, at \in Times :
    Count(s, u, c, score, stars, difficulty, at)

Spec == Init /\ [][Next]_vars
=============================================================================
