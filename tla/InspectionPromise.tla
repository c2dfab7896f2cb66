------------------------- MODULE InspectionPromise -------------------------
(* What ApplicationSandbox promises its caller (domains/application/         *)
(* sandbox.py): a verdict is given once the submitted code has stopped, and  *)
(* it never runs again.  Without a verdict nothing is promised.              *)
CONSTANTS Invocations

VARIABLES
  reply,      \* reply[i]: "none", "verdict" or "no verdict"
  executing   \* the invocations whose code is running somewhere

vars == <<reply, executing>>

Init == reply = [i \in Invocations |-> "none"] /\ executing = {}

Execute(i) ==
  /\ reply[i] # "verdict"
  /\ executing' = executing \cup {i}
  /\ UNCHANGED reply

Stop(i) == executing' = executing \ {i} /\ UNCHANGED reply

Conclude(i) ==
  /\ reply[i] = "none" /\ i \notin executing
  /\ reply' = [reply EXCEPT ![i] = "verdict"]
  /\ UNCHANGED executing

GiveUp(i) ==
  /\ reply[i] = "none"
  /\ reply' = [reply EXCEPT ![i] = "no verdict"]
  /\ UNCHANGED executing

Next == \E i \in Invocations : Execute(i) \/ Stop(i) \/ Conclude(i) \/ GiveUp(i)

Spec == Init /\ [][Next]_vars
=============================================================================
