--------------------------- MODULE Sandbox_proofs ---------------------------
(* For any number of invocations, and whatever the daemon and the container  *)
(* do: a result was printed to its end by a controller that exited by        *)
(* itself, and a verdict is given once the submitted code is gone for good.  *)
EXTENDS Sandbox, TLAPS

\* What holds of one invocation, beyond the types.
Before(i) ==
  /\ client[i] = "none" => requests[i] = {} /\ container[i] = "absent" /\ runner[i] = "none"
  /\ pc[i] = "ready" => client[i] = "none"
  /\ pc[i] \in {"ready", "running"} =>
       cleanup[i] = "none" /\ outcome[i] = "none"
  /\ "create" \in requests[i] => container[i] = "absent" /\ "start" \notin requests[i]
  /\ requests[i] \cap {"create", "start"} # {} => runner[i] = "none"

After(i) ==
  /\ "remove" \in requests[i] => cleanup[i] # "none"
  /\ cleanup[i] # "none" => client[i] = "ended"
  /\ pc[i] = "removing" => cleanup[i] # "none"
  /\ cleanup[i] = "removed" =>
       /\ "remove" \notin requests[i]
       /\ container[i] # "running"
       /\ "start" \in requests[i] => container[i] = "absent"
  /\ pc[i] = "verdict" => cleanup[i] = "removed"
  /\ outcome[i] # "none" => cleanup[i] # "none"
  /\ outcome[i] = "result" => exit_code[i] = 0 /\ runner[i] = "written" /\ output[i] <= Limit

\* The inductive invariant: a client that has ended starts nothing any more, so
\* a container that comes into being after its removal never runs.
IInv == TypeOK /\ \A i \in Invocations : Before(i) /\ After(i)

-----------------------------------------------------------------------------

\* What a step of invocation i leaves alone of every other one.
Frame(i) ==
  \A j \in Invocations \ {i} :
    /\ pc'[j] = pc[j] /\ outcome'[j] = outcome[j] /\ client'[j] = client[j]
    /\ exit_code'[j] = exit_code[j] /\ cleanup'[j] = cleanup[j] /\ requests'[j] = requests[j]
    /\ container'[j] = container[j] /\ runner'[j] = runner[j] /\ output'[j] = output[j]

\* The steps of one invocation, one definition for each operation.
LEMMA ActionCases ==
  ASSUME NEW i \in Invocations, HostStep(i) \/ Cancel(i) \/ DaemonStep(i), NEW ACTION P,
         Invoke(i) => P, Refuse(i) => P,
         \A said \in Outcomes, code \in {0, 1, 2, 125, 137, -9} : EndRun(i, said, code) /\
           (said = "result" => /\ client[i] = "ended" /\ code = exit_code[i] /\ code = 0
                               /\ runner[i] = "written" /\ output[i] <= Limit) => P,
         RemovalDeadline(i) => P, Return(i) => P, Cancel(i) => P,
         ServeCreate(i) => P, ServeStart(i) => P, ServeFails(i) => P, ServeRemove(i) => P,
         RemoveFails(i) => P, ReadRequest(i) => P,
         \A last \in BOOLEAN : Emit(i, last) => P,
         \A code \in {0, 1, 2, 137} : Exit(i, code) => P,
         TypeOK
  PROVE  P
<1>1. exit_code[i] \in {0, 1, 2, 125, 137, -9} BY DEF TypeOK
<1>2. Killed(i) \in {0, 1, 2, 125, 137, -9} BY <1>1 DEF Killed
<1>3. Said(i) \in {"result", "unavailable", "resource_limit"} BY <1>1 DEF Said
<1>4. Said(i) = "result" => exit_code[i] = 0 /\ runner[i] = "written"
  BY <1>1 DEF Said, WholeOutput
<1>5. ASSUME Reap(i) PROVE P
  <2>1. EndRun(i, Said(i), exit_code[i]) BY <1>5 DEF Reap
  <2>2. Said(i) \in Outcomes BY <1>3 DEF Outcomes, Verdicts
  <2> QED BY <1>1, <1>4, <1>5, <2>1, <2>2 DEF Reap
<1>6. ASSUME Deadline(i) PROVE P
  <2>1. EndRun(i, "timeout", Killed(i)) BY <1>6 DEF Deadline
  <2> QED BY <1>2, <2>1 DEF Outcomes, Verdicts
<1>7. ASSUME Overflow(i) PROVE P
  <2>1. EndRun(i, "unavailable", Killed(i)) BY <1>7 DEF Overflow
  <2> QED BY <1>2, <2>1 DEF Outcomes, Verdicts
<1> QED BY <1>5, <1>6, <1>7 DEF HostStep, DaemonStep

LEMMA FrameLemma ==
  ASSUME TypeOK, NEW i \in Invocations, HostStep(i) \/ Cancel(i) \/ DaemonStep(i)
  PROVE  Frame(i)
<1>1. ASSUME NEW said \in Outcomes, NEW code \in {0, 1, 2, 125, 137, -9}, EndRun(i, said, code)
      PROVE  Frame(i)
  BY <1>1 DEF EndRun, Frame, TypeOK
<1>2. Invoke(i) \/ Refuse(i) => Frame(i) BY DEF Invoke, Refuse, Frame, TypeOK, daemon
<1>3. RemovalDeadline(i) \/ Return(i) => Frame(i)
  BY DEF RemovalDeadline, Return, Frame, TypeOK, daemon
<1>4. Cancel(i) => Frame(i)
  <2>1. Killed(i) \in {0, 1, 2, 125, 137, -9} BY DEF Killed, TypeOK
  <2> QED BY <1>1, <2>1 DEF Cancel, Frame, TypeOK, daemon, Outcomes
<1>5. ServeCreate(i) \/ ServeStart(i) => Frame(i)
  BY DEF ServeCreate, ServeStart, ClientEnds, Frame, TypeOK
<1>6. ServeFails(i) \/ ServeRemove(i) \/ RemoveFails(i) => Frame(i)
  BY DEF ServeFails, ServeRemove, RemoveFails, ClientEnds, Frame, TypeOK
<1>7. ReadRequest(i) => Frame(i) BY DEF ReadRequest, Frame, TypeOK, host
<1>8. ASSUME NEW last \in BOOLEAN, Emit(i, last) PROVE Frame(i)
  BY <1>8 DEF Emit, Frame, TypeOK
<1>9. ASSUME NEW code \in {0, 1, 2, 137}, Exit(i, code) PROVE Frame(i)
  BY <1>9 DEF Exit, ClientEnds, Frame, TypeOK
<1> QED BY ActionCases, <1>1, <1>2, <1>3, <1>4, <1>5, <1>6, <1>7, <1>8, <1>9

-----------------------------------------------------------------------------
(* Types and the inductive invariant *)

LEMMA TypeStep ==
  ASSUME TypeOK, NEW i \in Invocations, HostStep(i) \/ Cancel(i) \/ DaemonStep(i)
  PROVE  TypeOK'
<1>1. ASSUME NEW said \in Outcomes, NEW code \in {0, 1, 2, 125, 137, -9}, EndRun(i, said, code)
      PROVE  TypeOK'
  BY <1>1 DEF EndRun, TypeOK, Waiting
<1>2. Invoke(i) \/ Refuse(i) => TypeOK' BY DEF Invoke, Refuse, TypeOK, daemon, Waiting, Ended
<1>3. RemovalDeadline(i) \/ Return(i) => TypeOK'
  BY DEF RemovalDeadline, Return, TypeOK, daemon, Ended
<1>4. Cancel(i) => TypeOK'
  <2>1. Killed(i) \in {0, 1, 2, 125, 137, -9} BY DEF Killed, TypeOK
  <2>2. EndRun(i, "cancelled", Killed(i)) => TypeOK' BY <1>1, <2>1 DEF Outcomes
  <2> QED BY <2>2 DEF Cancel, TypeOK, daemon, Ended
<1>5. ServeCreate(i) \/ ServeStart(i) => TypeOK' BY DEF ServeCreate, ServeStart, ClientEnds, TypeOK
<1>6. ServeFails(i) \/ ServeRemove(i) \/ RemoveFails(i) => TypeOK'
  BY DEF ServeFails, ServeRemove, RemoveFails, ClientEnds, TypeOK
<1>7. ReadRequest(i) => TypeOK' BY DEF ReadRequest, TypeOK, host
<1>8. ASSUME NEW last \in BOOLEAN, Emit(i, last) PROVE TypeOK'
  BY <1>8, LimitAssumption DEF Emit, TypeOK
<1>9. ASSUME NEW code \in {0, 1, 2, 137}, Exit(i, code) PROVE TypeOK'
  BY <1>9 DEF Exit, ClientEnds, TypeOK
<1> QED BY ActionCases, <1>1, <1>2, <1>3, <1>4, <1>5, <1>6, <1>7, <1>8, <1>9

\* The invocation that took the step.
LEMMA OwnStep ==
  ASSUME TypeOK, NEW i \in Invocations, Before(i), After(i),
         HostStep(i) \/ Cancel(i) \/ DaemonStep(i)
  PROVE  Before(i)' /\ After(i)'
<1> USE DEF Before, After, TypeOK
<1>1. ASSUME NEW said \in Outcomes, NEW code \in {0, 1, 2, 125, 137, -9}, EndRun(i, said, code),
             said = "result" => /\ client[i] = "ended" /\ code = exit_code[i] /\ code = 0
                                /\ runner[i] = "written" /\ output[i] <= Limit
      PROVE  Before(i)' /\ After(i)'
  BY <1>1 DEF EndRun
<1>2. Invoke(i) \/ Refuse(i) => Before(i)' /\ After(i)' BY DEF Invoke, Refuse, daemon
<1>3. RemovalDeadline(i) => Before(i)' /\ After(i)' BY DEF RemovalDeadline, daemon
<1>4. Return(i) => Before(i)' /\ After(i)' BY DEF Return, daemon
<1>5. Cancel(i) => Before(i)' /\ After(i)'
  <2>1. Killed(i) \in {0, 1, 2, 125, 137, -9} BY DEF Killed
  <2>2. EndRun(i, "cancelled", Killed(i)) => Before(i)' /\ After(i)' BY <1>1, <2>1 DEF Outcomes
  <2> QED BY <2>2 DEF Cancel, daemon
<1>6. ServeCreate(i) => Before(i)' /\ After(i)' BY DEF ServeCreate
<1>7. ServeStart(i) => Before(i)' /\ After(i)' BY DEF ServeStart, ClientEnds
<1>8. ServeFails(i) => Before(i)' /\ After(i)' BY DEF ServeFails, ClientEnds
<1>9. ServeRemove(i) \/ RemoveFails(i) => Before(i)' /\ After(i)' BY DEF ServeRemove, RemoveFails
<1>10. ReadRequest(i) => Before(i)' /\ After(i)' BY DEF ReadRequest, host
<1>11. ASSUME NEW last \in BOOLEAN, Emit(i, last) PROVE Before(i)' /\ After(i)'
  BY <1>11 DEF Emit
<1>12. ASSUME NEW code \in {0, 1, 2, 137}, Exit(i, code) PROVE Before(i)' /\ After(i)'
  BY <1>12 DEF Exit, ClientEnds
<1> QED
  BY ActionCases, <1>1, <1>2, <1>3, <1>4, <1>5, <1>6, <1>7, <1>8, <1>9, <1>10, <1>11, <1>12

LEMMA InitInv == Init => IInv
BY LimitAssumption DEF Init, IInv, TypeOK, Before, After, Waiting

LEMMA NextInv == IInv /\ [Next]_vars => IInv'
<1> SUFFICES ASSUME IInv, [Next]_vars PROVE IInv'
  OBVIOUS
<1>1. CASE UNCHANGED vars
  BY <1>1 DEF IInv, TypeOK, Before, After, vars, host, daemon
<1>2. ASSUME NEW i \in Invocations, HostStep(i) \/ Cancel(i) \/ DaemonStep(i) PROVE IInv'
  <2>1. TypeOK' BY <1>2, TypeStep DEF IInv
  <2>2. Before(i)' /\ After(i)' BY <1>2, OwnStep DEF IInv
  <2>3. ASSUME NEW j \in Invocations \ {i} PROVE Before(j)' /\ After(j)'
    <3>1. Frame(i) BY <1>2, FrameLemma DEF IInv
    <3>2. Before(j) /\ After(j) BY DEF IInv
    <3> QED BY <3>1, <3>2 DEF Frame, Before, After
  <2> QED BY <2>1, <2>2, <2>3 DEF IInv
<1> QED BY <1>1, <1>2 DEF Next

\* The invariant that the other results follow from.
THEOREM Invariant == Spec => []IInv
BY InitInv, NextInv, PTL DEF Spec

\* Every variable keeps its type.
THEOREM TypeCorrect == Spec => []TypeOK
<1>1. IInv => TypeOK BY DEF IInv
<1> QED BY Invariant, <1>1, PTL

\* A result that is taken for a verdict was printed to its end by a controller
\* that exited by itself (sandbox.py: bounded_process, _invoke).
THEOREM ResultsAreWhole == Spec => []ResultIsWhole
<1>1. IInv => ResultIsWhole BY DEF IInv, After, ResultIsWhole
<1> QED BY Invariant, <1>1, PTL

-----------------------------------------------------------------------------
(* A verdict is given once the submitted code is gone for good *)

r == [i \in Invocations |-> Reply(i)]
e == {i \in Invocations : container[i] = "running"}

LEMMA Replies ==
  ASSUME TypeOK, NEW i \in Invocations
  PROVE  /\ pc[i] \in Waiting => Reply(i) = "none"
         /\ pc[i] = "verdict" => Reply(i) = "verdict"
         /\ pc[i] \in {"unavailable", "cancelled"} => Reply(i) = "no verdict"
         /\ Reply(i) = "verdict" => pc[i] = "verdict"
BY DEF TypeOK, Reply, Waiting, Ended

\* A step of the sandbox is a step of the promise, or none.
LEMMA StepPromised ==
  ASSUME IInv, IInv', NEW i \in Invocations, HostStep(i) \/ Cancel(i) \/ DaemonStep(i)
  PROVE  Promise!Next \/ UNCHANGED <<r, e>>
<1> DEFINE Q == Promise!Next \/ UNCHANGED <<r, e>>
<1> TypeOK /\ TypeOK' /\ Frame(i) BY FrameLemma DEF IInv
<1>a. \A j \in Invocations \ {i} : r'[j] = r[j] /\ (j \in e' <=> j \in e)
  BY DEF Frame, r, e, Reply
<1>b. pc'[i] = pc[i] => r' = r BY <1>a DEF r, Reply
<1>c. container'[i] = container[i] => e' = e BY <1>a DEF e
<1>d. pc[i] \in Waiting /\ pc'[i] \in Waiting => r' = r
  <2> HAVE pc[i] \in Waiting /\ pc'[i] \in Waiting
  <2>1. Reply(i) = "none" BY Replies
  <2>2. Reply(i)' = "none" BY DEF Reply
  <2> QED BY <1>a, <2>1, <2>2 DEF r
<1>e. \A x : Reply(i)' = x => r' = [r EXCEPT ![i] = x] BY <1>a DEF r
<1>1. ASSUME pc'[i] = pc[i], container'[i] # "running" PROVE Q
  <2>1. e' = e \ {i} BY <1>1, <1>a DEF e
  <2> QED BY <1>1, <1>b, <2>1 DEF Promise!Next, Promise!Stop, r, e
<1>2. ASSUME pc[i] \in Waiting, pc'[i] \in {"unavailable", "cancelled"}, container'[i] = container[i]
      PROVE  Q
  <2>1. Reply(i) = "none" BY <1>2, Replies
  <2>2. Reply(i)' = "no verdict" BY <1>2 DEF Reply, Waiting
  <2>3. r' = [r EXCEPT ![i] = "no verdict"] /\ e' = e BY <1>2, <1>c, <1>e, <2>2
  <2> QED BY <2>1, <2>3 DEF Promise!Next, Promise!GiveUp, r, e
<1>3. ASSUME Return(i) PROVE Q
  <2>1. pc[i] \in Waiting /\ container'[i] = container[i] BY <1>3 DEF Return, Waiting, daemon
  <2>2. CASE pc'[i] # "verdict"
    BY <1>2, <1>3, <2>1, <2>2 DEF Return, TypeOK
  <2>3. CASE pc'[i] = "verdict"
    <3>1. Reply(i) = "none" BY <2>1, Replies
    <3>2. Reply(i)' = "verdict" BY <2>3 DEF Reply, Waiting
    <3>3. i \notin e' BY <2>3 DEF IInv, After, e
    <3>4. r' = [r EXCEPT ![i] = "verdict"] /\ e' = e BY <2>1, <1>c, <1>e, <3>2
    <3> QED BY <3>1, <3>3, <3>4 DEF Promise!Next, Promise!Conclude, r, e
  <2> QED BY <2>2, <2>3
<1>4. ASSUME ServeStart(i) PROVE Q
  <2>1. pc' = pc BY <1>4 DEF ServeStart
  <2>2. CASE container[i] = "absent"
    <3>1. container'[i] = container[i] BY <1>4, <2>2 DEF ServeStart
    <3> QED BY <2>1, <3>1, <1>b, <1>c
  <2>3. CASE container[i] # "absent"
    <3>1. container[i] = "created" /\ container'[i] = "running"
      BY <1>4, <2>3 DEF ServeStart, TypeOK
    <3>2. Reply(i) # "verdict" BY <1>4, <3>1, Replies DEF ServeStart, IInv, After
    <3>3. e' = e \cup {i} BY <3>1, <1>a DEF e
    <3> QED BY <2>1, <3>2, <3>3, <1>b DEF Promise!Next, Promise!Execute, r, e
  <2> QED BY <2>2, <2>3
<1>5. ASSUME NEW said, NEW code, EndRun(i, said, code) PROVE Q
  <2>1. pc[i] \in Waiting /\ pc'[i] \in Waiting /\ container' = container
    BY <1>5 DEF EndRun, Waiting, TypeOK
  <2> QED BY <2>1, <1>c, <1>d
<1>6. Invoke(i) => Q
  <2> HAVE Invoke(i)
  <2>1. pc[i] \in Waiting /\ pc'[i] \in Waiting /\ container' = container
    BY DEF Invoke, Waiting, TypeOK
  <2> QED BY <2>1, <1>c, <1>d
<1>7. Refuse(i) => Q BY <1>2 DEF Refuse, daemon, TypeOK, Waiting
<1>8. Cancel(i) => Q BY <1>2, <1>5 DEF Cancel, daemon, TypeOK, Waiting
<1>9. RemovalDeadline(i) \/ RemoveFails(i) \/ ReadRequest(i) => Q
  BY <1>b, <1>c DEF RemovalDeadline, RemoveFails, ReadRequest, host, daemon
<1>10. ASSUME NEW last \in BOOLEAN, Emit(i, last) PROVE Q
  BY <1>10, <1>b, <1>c DEF Emit
<1>11. ServeCreate(i) \/ ServeFails(i) \/ ServeRemove(i) => Q
  BY <1>1 DEF ServeCreate, ServeFails, ServeRemove, TypeOK
<1>12. ASSUME NEW code \in {0, 1, 2, 137}, Exit(i, code) PROVE Q
  BY <1>1, <1>12 DEF Exit, TypeOK
<1> HIDE DEF Q
<1>13. Q BY ActionCases, <1>3, <1>4, <1>5, <1>6, <1>7, <1>8, <1>9, <1>10, <1>11, <1>12
<1> QED BY <1>13 DEF Q

\* The sandbox implements InspectionPromise: a verdict is given after the
\* submitted code has stopped, and it never runs again, although killing the
\* docker client stops nothing and its requests are served afterwards.
THEOREM Promised == Spec => KeepsPromise
<1>1. Init => Promise!Init
  BY DEF Init, Promise!Init, Reply, Waiting
<1>2. IInv /\ IInv' /\ [Next]_vars => [Promise!Next]_(Promise!vars)
  <2> SUFFICES ASSUME IInv, IInv', [Next]_vars PROVE [Promise!Next]_(Promise!vars)
    OBVIOUS
  <2>1. CASE UNCHANGED vars
    BY <2>1 DEF vars, host, daemon, Promise!vars, Reply
  <2>2. ASSUME NEW i \in Invocations, HostStep(i) \/ Cancel(i) \/ DaemonStep(i)
        PROVE  [Promise!Next]_(Promise!vars)
    BY <2>2, StepPromised DEF Promise!vars, r, e
  <2> QED BY <2>1, <2>2 DEF Next
<1> QED BY Invariant, <1>1, <1>2, PTL DEF Spec, KeepsPromise, Promise!Spec
=============================================================================
