--------------------------- MODULE ExecutionGuard ---------------------------
(***************************************************************************)
(* The guard around one player's APPLICATION Run and Submit executions:    *)
(* PostgresApplicationExecutionCoordinator.start, the Submit and Run use   *)
(* cases that run inside it, and the save transaction that completes a     *)
(* Submit's idempotency reservation.                                       *)
(*                                                                         *)
(* A call is one HTTP request served by some backend worker.  It opens a   *)
(* dedicated PostgreSQL session, tries the user's advisory lock, decides   *)
(* in one short transaction on that session (replay, refuse, start), runs  *)
(* the agent with no transaction open, saves on ANOTHER session, and       *)
(* releases the lock.  The lock belongs to the session: losing the         *)
(* connection frees it while the handler keeps executing, and nothing      *)
(* tells the handler.                                                      *)
(*                                                                         *)
(* Time is kept as ages that saturate at Horizon: an age of                *)
(* cooldowns[u][k] is the time since last_started_at, and a row that was   *)
(* never written is as old as can be.  Every comparison the code makes is  *)
(* against a constant of at most Horizon, so nothing is lost.              *)
(***************************************************************************)
EXTENDS Naturals, FiniteSets

CONSTANTS
  Calls,           \* handler slots: requests that can be in flight at once
  Users, Versions, Keys,
  Results,         \* what an evaluation can yield (score, stars, payload)
  Ids,             \* reservation ids (uuid4)
  RunCooldown, SubmitCooldown, StaleAfter,   \* settings, in ticks
  Horizon,         \* the age at which ages saturate
  MaxFaults,       \* bound on injected faults
  None             \* absent key, id, call or result

ASSUME TimesAssumption ==
  /\ RunCooldown \in Nat /\ SubmitCooldown \in Nat
  /\ StaleAfter \in Nat \ {0}
  /\ Horizon \in Nat
  /\ Horizon >= RunCooldown /\ Horizon >= SubmitCooldown /\ Horizon >= StaleAfter
  /\ MaxFaults \in Nat

ASSUME NoneAssumption == None \notin Calls \cup Keys \cup Results \cup Ids \cup Versions

VARIABLES
  pc,           \* pc[p]: where handler p is
  req,          \* req[p]: the request it serves
  session,      \* session[p]: its dedicated PostgreSQL session
  rid,          \* rid[p]: its reservation_id
  stamp,        \* stamp[p]: age of the `now` its open start transaction took
  doomed,       \* doomed[p]: ids of the rows that transaction has deleted
  outcome,      \* outcome[p]: the result it is about to save or return
  advisory,     \* advisory[u]: the call whose session holds u's advisory lock
  cooldowns,    \* application_execution_cooldowns, as ages
  requests,     \* application_submit_requests
  submissions,  \* submissions: one record per authoritative Submit
  delivered,    \* history: every result a client has been given
  faults        \* injected faults so far

local == <<req, session, rid, stamp, doomed, outcome>>
tables == <<cooldowns, requests, submissions>>
vars == <<pc, local, advisory, tables, delivered, faults>>

-----------------------------------------------------------------------------
(* Data *)

Kinds == {"run", "submit"}
Ages == 0..Horizon

\* A Run has no key, and which version it runs is not told apart.
Request == [kind : {"run"}, user : Users, version : {None}, key : {None}]
             \cup [kind : {"submit"}, user : Users, version : Versions, key : Keys]

Locations == {"idle", "arrived", "locked", "admitted", "executing", "evaluated",
              "failing", "unlocking"}

SubmitRow == [id : Ids, user : Users, version : Versions, key : Keys,
              status : {"in_progress", "completed"}, age : Ages,
              result : Results \cup {None}]

Submission == [id : Ids, user : Users, version : Versions, key : Keys, result : Results]

Answer == [user : Users, version : Versions, key : Keys, result : Results]

Cooldown(kind) == IF kind = "run" THEN RunCooldown ELSE SubmitCooldown

Older(age) == IF age < Horizon THEN age + 1 ELSE Horizon

-----------------------------------------------------------------------------
(* The state a handler reads *)

User(p) == req[p].user
Kind(p) == req[p].kind

InProgress == {r \in requests : r.status = "in_progress"}

\* Mutant: the started_at bound of the purge is forgotten.
StaleAtAnyAge(p) == {r \in InProgress : Kind(p) = "submit" /\ r.user = User(p)}

\* The reservations the start transaction deletes before it looks for its own:
\* a Submit deletes those of its user that are at least StaleAfter old.
Stale(p) ==
  {r \in InProgress : Kind(p) = "submit" /\ r.user = User(p) /\ r.age >= StaleAfter}

HasScope(r, q) == r.user = q.user /\ r.version = q.version /\ r.key = q.key

\* Mutant: only completed duplicates are looked for.
FoundCompleted(p) == {r \in requests \ InProgress : HasScope(r, req[p])}

\* What it then finds under its own (user, version, key).
Found(p) == {r \in requests \ Stale(p) : HasScope(r, req[p])}

CooledDown(p) == cooldowns[User(p)][Kind(p)] >= Cooldown(Kind(p))

\* The row the save transaction updates and the cleanup deletes.
OwnReservation(p) == {r \in InProgress : r.id = rid[p] /\ r.user = User(p)}

\* A row another open transaction has deleted is locked until that ends.
RowFree(r) == \A q \in Calls : r.id \notin doomed[q]

FreshIds ==
  {i \in Ids : (\A r \in requests : r.id # i) /\ (\A q \in Calls : rid[q] # i)}

Init ==
  /\ pc = [p \in Calls |-> "idle"]
  /\ req = [p \in Calls |-> None]
  /\ session = [p \in Calls |-> "none"]
  /\ rid = [p \in Calls |-> None]
  /\ stamp = [p \in Calls |-> 0]
  /\ doomed = [p \in Calls |-> {}]
  /\ outcome = [p \in Calls |-> None]
  /\ advisory = [u \in Users |-> None]
  /\ cooldowns = [u \in Users |-> [k \in Kinds |-> Horizon]]
  /\ requests = {}
  /\ submissions = {}
  /\ delivered = {}
  /\ faults = 0

-----------------------------------------------------------------------------
(* Moves shared by the actions *)

Goto(p, location) == pc' = [pc EXCEPT ![p] = location]

\* The handler returns; its slot is free for another request.
Return(p) ==
  /\ Goto(p, "idle")
  /\ req' = [req EXCEPT ![p] = None]
  /\ session' = [session EXCEPT ![p] = "none"]
  /\ rid' = [rid EXCEPT ![p] = None]
  /\ stamp' = [stamp EXCEPT ![p] = 0]
  /\ doomed' = [doomed EXCEPT ![p] = {}]
  /\ outcome' = [outcome EXCEPT ![p] = None]

\* The start transaction of p ends, either way.
EndTransaction(p) ==
  /\ stamp' = [stamp EXCEPT ![p] = 0]
  /\ doomed' = [doomed EXCEPT ![p] = {}]

\* A session frees only what it holds, and frees it when it dies.
FreeLock(p) ==
  advisory' = IF session[p] = "open" THEN [advisory EXCEPT ![User(p)] = None] ELSE advisory

CountFault == faults < MaxFaults /\ faults' = faults + 1

-----------------------------------------------------------------------------
(* Entering the guard *)

\* The use case has read the published version, checked access and counted
\* tokens; publishing may change the version before the next statement.
Send(p, q) ==
  /\ pc[p] = "idle"
  /\ Goto(p, "arrived")
  /\ req' = [req EXCEPT ![p] = q]
  /\ UNCHANGED <<session, rid, stamp, doomed, outcome, advisory, tables, delivered, faults>>

Arrive(p) == \E q \in Request : Send(p, q)

\* The session is opened and owns the lock from here on.
TakeLock(p) ==
  /\ advisory' = [advisory EXCEPT ![User(p)] = p]
  /\ session' = [session EXCEPT ![p] = "open"]
  /\ Goto(p, "locked")
  /\ UNCHANGED <<req, rid, stamp, doomed, outcome, tables, delivered, faults>>

\* Mutant: the answer of pg_try_advisory_lock is ignored.
AcquireUnasked(p) == pc[p] = "arrived" /\ TakeLock(p)

\* pg_try_advisory_lock on a fresh session: it never waits.
Acquire(p) ==
  /\ pc[p] = "arrived"
  /\ advisory[User(p)] = None
  /\ TakeLock(p)

\* ApplicationExecutionInProgressError, 409.
RefuseBusy(p) ==
  /\ pc[p] = "arrived"
  /\ advisory[User(p)] # None
  /\ Return(p)
  /\ UNCHANGED <<advisory, tables, delivered, faults>>

-----------------------------------------------------------------------------
(* The start transaction, on the session that holds the lock *)

\* A completed duplicate: the stored result is the answer.  The transaction
\* commits, so its purge of stale reservations stays.
Replay(p) ==
  /\ pc[p] = "locked"
  /\ \E r \in Found(p) :
       /\ r.status = "completed"
       /\ outcome' = [outcome EXCEPT ![p] = r.result]
  /\ requests' = requests \ Stale(p)
  /\ Goto(p, "unlocking")
  /\ UNCHANGED <<req, session, rid, stamp, doomed, advisory, cooldowns, submissions,
                 delivered, faults>>

\* A reservation that is not stale: 409, and the transaction rolls back.
RefuseDuplicate(p) ==
  /\ pc[p] = "locked"
  /\ \E r \in Found(p) : r.status = "in_progress"
  /\ Goto(p, "unlocking")
  /\ UNCHANGED <<local, advisory, tables, delivered, faults>>

\* ApplicationRateLimitError, 429: rolls back, purge included.
RefuseCooldown(p) ==
  /\ pc[p] = "locked"
  /\ Found(p) = {}
  /\ ~CooledDown(p)
  /\ Goto(p, "unlocking")
  /\ UNCHANGED <<local, advisory, tables, delivered, faults>>

\* The reads pass.  `now` was taken here (age 0) and the stale rows are deleted
\* but not committed: they stay locked until the transaction ends.
Admit(p) ==
  /\ pc[p] = "locked"
  /\ Found(p) = {}
  /\ CooledDown(p)
  /\ doomed' = [doomed EXCEPT ![p] = {r.id : r \in Stale(p)}]
  /\ Goto(p, "admitted")
  /\ UNCHANGED <<req, session, rid, stamp, outcome, advisory, tables, delivered, faults>>

NewReservation(p, i) ==
  [id |-> i, user |-> User(p), version |-> req[p].version, key |-> req[p].key,
   status |-> "in_progress", age |-> stamp[p], result |-> None]

\* The rows the commit writes; i is the new reservation's id, None for a Run.
CommitStart(p, i) ==
  /\ cooldowns' = [cooldowns EXCEPT ![User(p)][Kind(p)] = stamp[p]]
  /\ requests' = {r \in requests : r.id \notin doomed[p]}
                   \cup {NewReservation(p, j) : j \in {i} \ {None}}
  /\ EndTransaction(p)
  /\ UNCHANGED <<req, outcome, submissions, delivered>>

NewId(p) == IF Kind(p) = "run" THEN {None} ELSE FreshIds

Start(p) ==
  /\ pc[p] = "admitted"
  /\ \E i \in NewId(p) : CommitStart(p, i) /\ rid' = [rid EXCEPT ![p] = i]
  /\ Goto(p, "executing")
  /\ UNCHANGED <<session, advisory, faults>>

\* The server commits and the connection dies before the answer: the handler
\* sees a SQLAlchemyError, never runs the body and never deletes the row.
StartUnacked(p) ==
  /\ pc[p] = "admitted"
  /\ CountFault
  /\ \E i \in NewId(p) : CommitStart(p, i)
  /\ FreeLock(p)
  /\ session' = [session EXCEPT ![p] = "lost"]
  /\ Goto(p, "unlocking")
  /\ UNCHANGED rid

\* The start transaction fails with the session alive (the version row is not
\* there, a statement is aborted): it rolls back and the error goes out.
StartFails(p) ==
  /\ pc[p] \in {"locked", "admitted"}
  /\ CountFault
  /\ EndTransaction(p)
  /\ Goto(p, "unlocking")
  /\ UNCHANGED <<req, session, rid, outcome, advisory, tables, delivered>>

-----------------------------------------------------------------------------
(* The body: agent, evaluation, scoring.  No transaction is open. *)

RunDone(p) ==
  /\ pc[p] = "executing"
  /\ Kind(p) = "run"
  /\ Goto(p, "unlocking")
  /\ UNCHANGED <<local, advisory, tables, delivered, faults>>

\* Mutant: an evaluation without a score is scored all the same.
EvaluateUnscored(p) ==
  /\ pc[p] = "executing"
  /\ Kind(p) = "submit"
  /\ \E x \in Results \cup {None} : outcome' = [outcome EXCEPT ![p] = x]
  /\ Goto(p, "evaluated")
  /\ UNCHANGED <<req, session, rid, stamp, doomed, advisory, tables, delivered, faults>>

Evaluate(p) ==
  /\ pc[p] = "executing"
  /\ Kind(p) = "submit"
  /\ \E x \in Results : outcome' = [outcome EXCEPT ![p] = x]
  /\ Goto(p, "evaluated")
  /\ UNCHANGED <<req, session, rid, stamp, doomed, advisory, tables, delivered, faults>>

\* An exception is on its way out through the `yield`; nothing will be returned.
Raise(p) ==
  /\ Goto(p, "failing")
  /\ outcome' = [outcome EXCEPT ![p] = None]
  /\ UNCHANGED <<req, session, rid, stamp, doomed, advisory, cooldowns, delivered>>

\* Provider failure, timeout, cancellation, or a save that is rolled back.
BodyFails(p) ==
  /\ pc[p] \in {"executing", "evaluated"}
  /\ CountFault
  /\ Raise(p)
  /\ UNCHANGED <<requests, submissions>>

Completed(r, x) ==
  [id |-> r.id, user |-> r.user, version |-> r.version, key |-> r.key,
   status |-> "completed", age |-> 0, result |-> x]

NewSubmission(p) ==
  [id |-> rid[p], user |-> User(p), version |-> req[p].version, key |-> req[p].key,
   result |-> outcome[p]]

\* One transaction on the request's own session: the submission, progress and
\* XP, and the reservation in_progress -> completed with the stored payload.
CommitSave(p) ==
  /\ pc[p] = "evaluated"
  /\ \E r \in OwnReservation(p) :
       /\ RowFree(r)
       /\ requests' = (requests \ {r}) \cup {Completed(r, outcome[p])}
  /\ submissions' = submissions \cup {NewSubmission(p)}

Save(p) ==
  /\ CommitSave(p)
  /\ Goto(p, "unlocking")
  /\ UNCHANGED <<local, advisory, cooldowns, delivered, faults>>

\* The commit succeeds and its answer is lost: the handler sees an exception.
SaveUnacked(p) == CommitSave(p) /\ CountFault /\ Raise(p)

\* Mutant: the UPDATE's rowcount is not looked at.
SaveUnreserved(p) ==
  /\ pc[p] = "evaluated"
  /\ OwnReservation(p) = {}
  /\ submissions' = submissions \cup {NewSubmission(p)}
  /\ Goto(p, "unlocking")
  /\ UNCHANGED <<local, advisory, cooldowns, requests, delivered, faults>>


\* The UPDATE matches no row ("reservation is unavailable"): everything the
\* transaction wrote, the submission included, rolls back.
SaveRejected(p) ==
  /\ pc[p] = "evaluated"
  /\ OwnReservation(p) = {}
  /\ Raise(p)
  /\ UNCHANGED <<requests, submissions, faults>>

-----------------------------------------------------------------------------
(* Leaving the guard *)

\* Mutant: the cleanup's DELETE forgets `status = 'in_progress'`.
CleanupAnyStatus(p) ==
  /\ pc[p] = "failing"
  /\ requests' = {r \in requests : session[p] = "open" => r.id # rid[p]}
  /\ Goto(p, "unlocking")
  /\ UNCHANGED <<local, advisory, cooldowns, submissions, delivered, faults>>

\* `except BaseException`: the in-progress reservation is deleted on the lock's
\* own session, so not at all when that session is gone.
Cleanup(p) ==
  /\ pc[p] = "failing"
  /\ requests' = IF session[p] = "open" THEN requests \ OwnReservation(p) ELSE requests
  /\ Goto(p, "unlocking")
  /\ UNCHANGED <<local, advisory, cooldowns, submissions, delivered, faults>>

\* The answer that goes out with the end of the call: none for a Run or an error.
Deliver(p) ==
  delivered' = delivered
    \cup {[user |-> User(p), version |-> req[p].version, key |-> req[p].key,
           result |-> x] : x \in {outcome[p]} \ {None}}

\* Mutant: the lock is released through whatever connection is at hand.
UnlockAlways(p) ==
  /\ pc[p] = "unlocking"
  /\ advisory' = [advisory EXCEPT ![User(p)] = None]
  /\ Deliver(p)
  /\ Return(p)
  /\ UNCHANGED <<tables, faults>>

\* Mutant: the release is not in a `finally`.
UnlockOnSuccess(p) ==
  /\ pc[p] = "unlocking"
  /\ IF outcome[p] # None THEN FreeLock(p) ELSE UNCHANGED advisory
  /\ Deliver(p)
  /\ Return(p)
  /\ UNCHANGED <<tables, faults>>

\* `finally`: pg_advisory_unlock, then the answer goes out.
Unlock(p) ==
  /\ pc[p] = "unlocking"
  /\ FreeLock(p)
  /\ Deliver(p)
  /\ Return(p)
  /\ UNCHANGED <<tables, faults>>

-----------------------------------------------------------------------------
(* Faults and time *)

\* The lock's session dies: PostgreSQL frees the lock and rolls back an open
\* transaction.  A handler inside the start transaction fails at its next
\* statement; one that runs the body notices nothing.
LoseConnection(p) ==
  /\ session[p] = "open"
  /\ CountFault
  /\ FreeLock(p)
  /\ session' = [session EXCEPT ![p] = "lost"]
  /\ EndTransaction(p)
  /\ Goto(p, IF pc[p] \in {"locked", "admitted"} THEN "unlocking" ELSE pc[p])
  /\ UNCHANGED <<req, rid, outcome, tables, delivered>>

\* The worker process dies: no except, no finally.
Crash(p) ==
  /\ pc[p] # "idle"
  /\ CountFault
  /\ FreeLock(p)
  /\ Return(p)
  /\ UNCHANGED <<tables, delivered>>

Tick ==
  /\ cooldowns' = [u \in Users |-> [k \in Kinds |-> Older(cooldowns[u][k])]]
  /\ requests' = (requests \ InProgress) \cup {[r EXCEPT !.age = Older(@)] : r \in InProgress}
  /\ stamp' = [p \in Calls |-> IF pc[p] = "admitted" THEN Older(stamp[p]) ELSE stamp[p]]
  /\ UNCHANGED <<pc, req, session, rid, doomed, outcome, advisory, submissions, delivered,
                 faults>>

-----------------------------------------------------------------------------

\* What the handler does by itself once it has been called.
Step(p) ==
  \/ Acquire(p) \/ RefuseBusy(p)
  \/ Replay(p) \/ RefuseDuplicate(p) \/ RefuseCooldown(p) \/ Admit(p) \/ Start(p)
  \/ RunDone(p) \/ Evaluate(p) \/ Save(p) \/ SaveRejected(p)
  \/ Cleanup(p) \/ Unlock(p)

Fault(p) ==
  \/ StartUnacked(p) \/ SaveUnacked(p)
  \/ StartFails(p) \/ BodyFails(p) \/ LoseConnection(p) \/ Crash(p)

Next ==
  \/ Tick
  \/ \E p \in Calls : Arrive(p) \/ Step(p) \/ Fault(p)

Spec == Init /\ [][Next]_vars

\* The event loop keeps running handlers and clocks keep running; nobody has to
\* send a request.
Fairness == WF_vars(Tick) /\ \A p \in Calls : WF_vars(Step(p))

FairSpec == Spec /\ Fairness

-----------------------------------------------------------------------------
(* Properties *)

TypeOK ==
  /\ pc \in [Calls -> Locations]
  /\ req \in [Calls -> Request \cup {None}]
  /\ session \in [Calls -> {"none", "open", "lost"}]
  /\ rid \in [Calls -> Ids \cup {None}]
  /\ stamp \in [Calls -> Ages]
  /\ doomed \in [Calls -> SUBSET Ids]
  /\ outcome \in [Calls -> Results \cup {None}]
  /\ advisory \in [Users -> Calls \cup {None}]
  /\ cooldowns \in [Users -> [Kinds -> Ages]]
  /\ requests \subseteq SubmitRow
  /\ submissions \subseteq Submission
  /\ delivered \subseteq Answer
  /\ faults \in 0..MaxFaults

\* One reservation per (user, version, key) and per id: the advisory lock alone
\* keeps concurrent Submits from ever meeting the table's unique constraint.
RequestKeysUnique ==
  \A r, s \in requests : HasScope(r, s) \/ r.id = s.id => r = s

\* However long an evaluation takes and whoever purges stale reservations, a
\* Submit whose session is alive finds its own when it comes to save.
HolderKeepsReservation ==
  \A p \in Calls :
    session[p] = "open" /\ Kind(p) = "submit" /\ pc[p] \in {"executing", "evaluated"}
      => OwnReservation(p) # {}

AsSubmission(r) ==
  [id |-> r.id, user |-> r.user, version |-> r.version, key |-> r.key, result |-> r.result]

\* Submissions and completed reservations are the same thing, one per scope:
\* no crash, lost answer or second execution of a key separates the two.
SavedExactlyOnce ==
  /\ submissions = {AsSubmission(r) : r \in requests \ InProgress}
  /\ \A s, t \in submissions : HasScope(s, t) => s = t

\* An execution starts only when the row it overwrites has cooled down at that
\* very moment, not just when it was read.
CooldownHonoured ==
  [][\A p \in Calls :
       pc[p] = "admitted" /\ pc'[p] = "executing" => CooledDown(p)]_vars

\* A reservation is only taken away from under a key once it is stale, or by
\* the failing call that made it.
ReservationRespected ==
  [][\A r \in InProgress :
       (\A s \in requests' : s.id # r.id) =>
         \/ r.age >= StaleAfter
         \/ \E p \in Calls : pc[p] = "failing" /\ rid[p] = r.id]_vars

\* ARCHITECTURE.md: "one user has at most one in-flight APPLICATION execution".
OneInFlight ==
  \A p, q \in Calls :
    /\ pc[p] \in {"executing", "evaluated"}
    /\ pc[q] \in {"executing", "evaluated"}
    /\ User(p) = User(q)
    => p = q


\* The promise of an idempotency key, see SubmitOnce.
Recorded ==
  {[user |-> s.user, version |-> s.version, key |-> s.key, result |-> s.result]
     : s \in submissions}

Promise == INSTANCE SubmitOnce
             WITH Entries <- Answer, recorded <- Recorded, answered <- delivered

KeepsPromise == Promise!Spec
=============================================================================
