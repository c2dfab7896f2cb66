------------------------------ MODULE Sandbox ------------------------------
(***************************************************************************)
(* RootlessDockerSandbox: each invocation runs one container through the   *)
(* docker client, under a deadline and a cap on its output, and always     *)
(* removes the container by name.  Killing the client kills no container,  *)
(* and a request it has sent is still served: the daemon works on its own. *)
(***************************************************************************)
EXTENDS Integers, FiniteSets

CONSTANTS
  Invocations,
  Limit        \* pieces of output the transport bound admits

ASSUME LimitAssumption == Limit \in Nat \ {0}

VARIABLES
  pc,         \* pc[i]: where _invoke is
  outcome,    \* outcome[i]: what bounded_process said of the run
  client,     \* client[i]: the docker client of the run
  exit_code,  \* exit_code[i]: of that client, -9 if it was killed
  cleanup,    \* cleanup[i]: what rm -f has said
  requests,   \* requests[i]: requests the daemon has yet to serve
  container,  \* container[i]: the container of that name
  runner,     \* runner[i]: how far the controller inside it is
  output      \* output[i]: pieces of output the client has relayed

host == <<pc, outcome, client, exit_code, cleanup, output>>
daemon == <<requests, container, runner>>
vars == <<host, daemon>>

-----------------------------------------------------------------------------
(* bounded_process around docker run *)

Verdicts == {"result", "timeout", "resource_limit"}

\* The payload is within its bounds; the client asks for a container.
Invoke(i) ==
  /\ pc[i] = "ready"
  /\ pc' = [pc EXCEPT ![i] = "running"]
  /\ client' = [client EXCEPT ![i] = "creating"]
  /\ requests' = [requests EXCEPT ![i] = {"create"}]
  /\ UNCHANGED <<outcome, exit_code, cleanup, container, runner, output>>

\* Links, a file or a project too large, no docker or no Linux.
Refuse(i) ==
  /\ pc[i] = "ready"
  /\ pc' = [pc EXCEPT ![i] = "unavailable"]
  /\ UNCHANGED <<outcome, client, exit_code, cleanup, daemon, output>>

\* bounded_process returns or raises: its client is dead by then, and the
\* finally of _invoke asks for the container's removal.
EndRun(i, said, code) ==
  /\ pc[i] = "running"
  /\ pc' = [pc EXCEPT ![i] = "removing"]
  /\ outcome' = [outcome EXCEPT ![i] = said]
  /\ client' = [client EXCEPT ![i] = "ended"]
  /\ exit_code' = [exit_code EXCEPT ![i] = code]
  /\ cleanup' = [cleanup EXCEPT ![i] = "asked"]
  /\ requests' = [requests EXCEPT ![i] = @ \cup {"remove"}]
  /\ UNCHANGED <<container, runner, output>>

\* The client has ended by itself within the deadline.
WholeOutput(i) == runner[i] = "written"
Said(i) ==
  CASE exit_code[i] = 137 -> "resource_limit"
    [] exit_code[i] = 0 -> IF WholeOutput(i) THEN "result" ELSE "unavailable"
    [] exit_code[i] \notin {0, 137} -> "unavailable"
Reap(i) == client[i] = "ended" /\ output[i] <= Limit /\ EndRun(i, Said(i), exit_code[i])

\* The deadline kills the client, or finds that it has just ended; so does
\* output beyond the bound, and the cancellation of the task.
Killed(i) == IF client[i] = "ended" THEN exit_code[i] ELSE -9
Deadline(i) == EndRun(i, "timeout", Killed(i))

\* Mutant: output beyond the bound is cut off and taken for the whole.
OverflowTruncates(i) ==
  output[i] > Limit /\ EndRun(i, IF WholeOutput(i) THEN "result" ELSE "unavailable", Killed(i))

Overflow(i) == output[i] > Limit /\ EndRun(i, "unavailable", Killed(i))

\* The cleanup is shielded: cancelled while it waits for that, the task ends at
\* once and the removal goes on.
Cancel(i) ==
  \/ EndRun(i, "cancelled", Killed(i))
  \/ /\ pc[i] = "removing" /\ cleanup[i] = "asked"
     /\ pc' = [pc EXCEPT ![i] = "cancelled"]
     /\ UNCHANGED <<outcome, client, exit_code, cleanup, daemon, output>>

-----------------------------------------------------------------------------
(* _invoke after the cleanup, and the validation of the result in inspect *)

\* Mutant: rm -f has no deadline of its own.
RemovalWaits(i) ==
  /\ pc[i] = "removing" /\ cleanup[i] = "asked" /\ "remove" \notin requests[i]
  /\ cleanup' = [cleanup EXCEPT ![i] = "failed"]
  /\ UNCHANGED <<pc, outcome, client, exit_code, daemon, output>>

RemovalDeadline(i) ==
  /\ pc[i] = "removing" /\ cleanup[i] = "asked"
  /\ cleanup' = [cleanup EXCEPT ![i] = "failed"]
  /\ UNCHANGED <<pc, outcome, client, exit_code, daemon, output>>

\* Mutant: a verdict although the container could not be removed.
ReturnAnyway(i) ==
  /\ pc[i] = "removing" /\ cleanup[i] # "asked"
  /\ \E r \in {"verdict", "unavailable", "cancelled"} :
       /\ pc' = [pc EXCEPT ![i] = r]
       /\ r = "verdict" => outcome[i] \in Verdicts
       /\ r = "cancelled" => outcome[i] = "cancelled"
       /\ r = "unavailable" => outcome[i] \in {"result", "unavailable"}
  /\ UNCHANGED <<outcome, client, exit_code, cleanup, daemon, output>>

\* A removal that failed overrides any outcome; so does a result that is not
\* what was asked for.
Return(i) ==
  /\ pc[i] = "removing" /\ cleanup[i] # "asked"
  /\ \E r \in {"verdict", "unavailable", "cancelled"} :
       /\ pc' = [pc EXCEPT ![i] = r]
       /\ r = "verdict" => cleanup[i] # "failed" /\ outcome[i] \in Verdicts
       /\ r = "cancelled" => cleanup[i] # "failed" /\ outcome[i] = "cancelled"
       /\ r = "unavailable" => cleanup[i] = "failed" \/ outcome[i] \in {"result", "unavailable"}
  /\ UNCHANGED <<outcome, client, exit_code, cleanup, daemon, output>>

-----------------------------------------------------------------------------
(* The docker daemon and client.  docker run is a create, then a start, then  *)
(* relaying; --rm removes a container that has exited.                        *)

ClientEnds(i, code) ==
  /\ client' = [client EXCEPT ![i] = IF @ = "ended" THEN @ ELSE "ended"]
  /\ exit_code' = [exit_code EXCEPT ![i] = IF client[i] = "ended" THEN @ ELSE code]

ServeCreate(i) ==
  /\ "create" \in requests[i]
  /\ container' = [container EXCEPT ![i] = "created"]
  /\ client' = [client EXCEPT ![i] = IF @ = "creating" THEN "starting" ELSE @]
  /\ requests' = [requests EXCEPT ![i] = (@ \ {"create"})
                    \cup (IF client[i] = "creating" THEN {"start"} ELSE {})]
  /\ UNCHANGED <<pc, outcome, exit_code, cleanup, runner, output>>

\* A container that is gone by now cannot be started.
ServeStart(i) ==
  /\ "start" \in requests[i]
  /\ requests' = [requests EXCEPT ![i] = @ \ {"start"}]
  /\ \/ /\ container[i] = "created"
        /\ container' = [container EXCEPT ![i] = "running"]
        /\ runner' = [runner EXCEPT ![i] = "reading"]
        /\ client' = [client EXCEPT ![i] = IF @ = "starting" THEN "relaying" ELSE @]
        /\ UNCHANGED exit_code
     \/ /\ container[i] = "absent"
        /\ ClientEnds(i, 125)
        /\ UNCHANGED <<container, runner>>
  /\ UNCHANGED <<pc, outcome, cleanup, output>>

\* The daemon refuses to create or start it.
ServeFails(i) ==
  /\ requests[i] \cap {"create", "start"} # {}
  /\ requests' = [requests EXCEPT ![i] = @ \ {"create", "start"}]
  /\ container' = [container EXCEPT ![i] = "absent"]
  /\ ClientEnds(i, 125)
  /\ UNCHANGED <<pc, outcome, cleanup, runner, output>>

\* rm -f: "No such container" counts as removed.
ServeRemove(i) ==
  /\ "remove" \in requests[i]
  /\ requests' = [requests EXCEPT ![i] = @ \ {"remove"}]
  /\ container' = [container EXCEPT ![i] = "absent"]
  /\ cleanup' = [cleanup EXCEPT ![i] = IF @ = "asked" THEN "removed" ELSE @]
  /\ UNCHANGED <<pc, outcome, client, exit_code, runner, output>>

RemoveFails(i) ==
  /\ "remove" \in requests[i]
  /\ requests' = [requests EXCEPT ![i] = @ \ {"remove"}]
  /\ cleanup' = [cleanup EXCEPT ![i] = "failed"]
  /\ UNCHANGED <<pc, outcome, client, exit_code, container, runner, output>>

-----------------------------------------------------------------------------
(* runner.mjs, the controller inside the container *)

\* All of stdin has arrived: files are written, then typecheck, build, browser.
ReadRequest(i) ==
  /\ container[i] = "running" /\ runner[i] = "reading" /\ client[i] = "relaying"
  /\ runner' = [runner EXCEPT ![i] = "working"]
  /\ UNCHANGED <<host, requests, container>>

\* A piece of what it prints; the last one completes the result.
Emit(i, last) ==
  /\ container[i] = "running" /\ runner[i] = "working" /\ client[i] = "relaying"
  /\ output[i] <= Limit
  /\ output' = [output EXCEPT ![i] = @ + 1]
  /\ runner' = [runner EXCEPT ![i] = IF last THEN "written" ELSE @]
  /\ UNCHANGED <<pc, outcome, client, exit_code, cleanup, requests, container>>

\* It exits with 0 once all is written, with 1 when an error it does not catch
\* ends it before, and with 2 on a request it refuses or cannot read; the kernel
\* kills it at the memory limit.
Exit(i, code) ==
  /\ container[i] = "running"
  /\ code = 0 => runner[i] = "written"
  /\ code = 1 => runner[i] # "written"
  /\ code = 2 => runner[i] = "reading"
  /\ container' = [container EXCEPT ![i] = "absent"]
  /\ ClientEnds(i, code)
  /\ UNCHANGED <<pc, outcome, cleanup, requests, runner, output>>

-----------------------------------------------------------------------------

Init ==
  /\ pc = [i \in Invocations |-> "ready"]
  /\ outcome = [i \in Invocations |-> "none"]
  /\ client = [i \in Invocations |-> "none"]
  /\ exit_code = [i \in Invocations |-> 0]
  /\ cleanup = [i \in Invocations |-> "none"]
  /\ requests = [i \in Invocations |-> {}]
  /\ container = [i \in Invocations |-> "absent"]
  /\ runner = [i \in Invocations |-> "none"]
  /\ output = [i \in Invocations |-> 0]

HostStep(i) ==
  \/ Invoke(i) \/ Refuse(i) \/ Reap(i) \/ Deadline(i) \/ Overflow(i)
  \/ RemovalDeadline(i) \/ Return(i)

DaemonStep(i) ==
  \/ ServeCreate(i) \/ ServeStart(i) \/ ServeFails(i) \/ ServeRemove(i) \/ RemoveFails(i)
  \/ ReadRequest(i) \/ \E last \in BOOLEAN : Emit(i, last)
  \/ \E code \in {0, 1, 2, 137} : Exit(i, code)

Next == \E i \in Invocations : HostStep(i) \/ Cancel(i) \/ DaemonStep(i)

Spec == Init /\ [][Next]_vars

\* The host's own steps and timers; nothing is assumed of the daemon, the
\* client or the code in the container.
FairSpec == Spec /\ \A i \in Invocations : WF_vars(HostStep(i))

-----------------------------------------------------------------------------
(* Properties *)

Waiting == {"ready", "running", "removing"}
Ended == {"verdict", "unavailable", "cancelled"}
Outcomes == Verdicts \cup {"unavailable", "cancelled"}

TypeOK ==
  /\ pc \in [Invocations -> Waiting \cup Ended]
  /\ outcome \in [Invocations -> Outcomes \cup {"none"}]
  /\ client \in [Invocations -> {"none", "creating", "starting", "relaying", "ended"}]
  /\ exit_code \in [Invocations -> {0, 1, 2, 125, 137, -9}]
  /\ cleanup \in [Invocations -> {"none", "asked", "removed", "failed"}]
  /\ requests \in [Invocations -> SUBSET {"create", "start", "remove"}]
  /\ container \in [Invocations -> {"absent", "created", "running"}]
  /\ runner \in [Invocations -> {"none", "reading", "working", "written"}]
  /\ output \in [Invocations -> 0..(Limit + 1)]

\* The promise of ApplicationSandbox, at the boundary of inspect: a verdict is
\* given after the submitted code has stopped for good, although killing the
\* client stops nothing and requests outlive the client that sent them.
Reply(i) ==
  IF pc[i] \in Waiting THEN "none" ELSE IF pc[i] = "verdict" THEN "verdict" ELSE "no verdict"
Promise == INSTANCE InspectionPromise
             WITH reply <- [i \in Invocations |-> Reply(i)],
                  executing <- {i \in Invocations : container[i] = "running"}
KeepsPromise == Promise!Spec

\* A result that is taken for a verdict was printed to its end, within the
\* transport bound, by a controller that then exited by itself: never what was
\* there when a deadline, a limit or the daemon cut it off.
ResultIsWhole ==
  \A i \in Invocations : pc[i] = "verdict" /\ outcome[i] = "result" =>
    exit_code[i] = 0 /\ runner[i] = "written" /\ output[i] <= Limit

\* Every invocation returns, whatever the daemon and the container do: both
\* docker commands have a deadline.
EveryInvocationReturns == \A i \in Invocations : pc[i] = "running" ~> pc[i] \in Ended
=============================================================================
