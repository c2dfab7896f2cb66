----------------------- MODULE ExecutionGuard_proofs -----------------------
(***************************************************************************)
(* Proofs about ExecutionGuard, for any number of calls, users, versions,  *)
(* keys and results, any settings and any number of faults.                *)
(*                                                                         *)
(* None of the properties is inductive.  IInv adds what the code relies on *)
(* and nowhere says: an open session is the owner of its user's lock, what *)
(* an open start transaction has read is still so when it commits, and a   *)
(* reservation id belongs to one call and one scope.                       *)
(***************************************************************************)
EXTENDS ExecutionGuard, TLAPS

Served == {"executing", "evaluated", "failing", "unlocking"}

\* A handler that has been called has a request.
RequestInv == \A p \in Calls : pc[p] # "idle" => req[p] \in Request

\* The lock is held through an open session, from Acquire to Unlock.
LockInv ==
  \A p \in Calls :
    /\ session[p] = "open" => /\ pc[p] \notin {"idle", "arrived"}
                              /\ advisory[User(p)] = p
    /\ pc[p] \in {"locked", "admitted"} => session[p] = "open"

\* What an open start transaction read still holds: its row has cooled down, its
\* scope is free but for rows it deletes, and those are its user's, there and stale.
ReadsHold(p) ==
  /\ CooledDown(p)
  /\ Kind(p) = "submit" => \A r \in requests : HasScope(r, req[p]) => r.id \in doomed[p]
  /\ \A r \in requests :
       r.id \in doomed[p] => r.status = "in_progress" /\ r.user = User(p) /\ r.age >= StaleAfter
  /\ \A i \in doomed[p] : \E r \in requests : r.id = i

AdmittedInv ==
  \A p \in Calls : IF pc[p] = "admitted" THEN ReadsHold(p) ELSE doomed[p] = {}

\* A reservation id is known to one call and names a row of that call's scope.
ReservationInv ==
  \A p \in Calls :
    /\ rid[p] # None => pc[p] \in Served /\ Kind(p) = "submit"
    /\ pc[p] \in {"executing", "evaluated"} /\ Kind(p) = "submit" => rid[p] # None
    /\ \A q \in Calls : rid[p] # None /\ rid[p] = rid[q] => p = q
    /\ \A r \in requests : r.id = rid[p] => HasScope(r, req[p])

\* A result that is about to leave is the one recorded for its scope.
OutcomeInv ==
  \A p \in Calls :
    /\ pc[p] = "evaluated" => outcome[p] # None
    /\ outcome[p] # None => pc[p] \in {"evaluated", "unlocking"}
    /\ outcome[p] # None => Kind(p) = "submit"
    /\ outcome[p] # None /\ pc[p] = "unlocking"
         => \E s \in submissions : HasScope(s, req[p]) /\ s.result = outcome[p]

IInv ==
  /\ TypeOK
  /\ RequestInv
  /\ LockInv
  /\ AdmittedInv
  /\ ReservationInv
  /\ OutcomeInv
  /\ RequestKeysUnique
  /\ HolderKeepsReservation
  /\ SavedExactlyOnce

-----------------------------------------------------------------------------
(* Data *)

LEMMA RequestFields ==
  ASSUME NEW q \in Request
  PROVE  /\ q.user \in Users /\ q.kind \in Kinds
         /\ q.kind = "submit" => q.version \in Versions /\ q.key \in Keys
  BY DEF Request, Kinds

LEMMA OlderAge ==
  ASSUME NEW a \in Ages
  PROVE  Older(a) \in Ages /\ Older(a) >= a
  BY TimesAssumption DEF Ages, Older

\* A tick ages the reservations in progress and changes nothing else of a row.
LEMMA TickRows ==
  ASSUME TypeOK, Tick
  PROVE  /\ requests' \subseteq SubmitRow
         /\ \A r \in requests' : \E s \in requests :
              /\ r.id = s.id /\ r.user = s.user /\ r.version = s.version /\ r.key = s.key
              /\ r.status = s.status /\ r.result = s.result /\ r.age >= s.age
              /\ r.status = "completed" => r = s
         /\ \A s \in requests : \E r \in requests' :
              r.id = s.id /\ r.user = s.user /\ r.status = s.status
  <1>1. requests \subseteq SubmitRow
    BY DEF TypeOK
  <1>2. \A s \in requests : Older(s.age) \in Ages /\ Older(s.age) >= s.age /\ s.age >= s.age
    BY <1>1, OlderAge DEF SubmitRow, Ages
  <1>3. \A s \in requests :
          /\ [s EXCEPT !.age = Older(@)] \in SubmitRow
          /\ [s EXCEPT !.age = Older(@)].id = s.id
          /\ [s EXCEPT !.age = Older(@)].user = s.user
          /\ [s EXCEPT !.age = Older(@)].version = s.version
          /\ [s EXCEPT !.age = Older(@)].key = s.key
          /\ [s EXCEPT !.age = Older(@)].status = s.status
          /\ [s EXCEPT !.age = Older(@)].result = s.result
          /\ [s EXCEPT !.age = Older(@)].age = Older(s.age)
    BY <1>1, <1>2 DEF SubmitRow
  <1>4. requests' \subseteq SubmitRow
    BY <1>1, <1>3 DEF Tick, InProgress
  <1>5. \A r \in requests' : \E s \in requests :
              /\ r.id = s.id /\ r.user = s.user /\ r.version = s.version /\ r.key = s.key
              /\ r.status = s.status /\ r.result = s.result /\ r.age >= s.age
              /\ r.status = "completed" => r = s
    <2> TAKE r \in requests'
    <2>1. CASE r \in requests \ InProgress
      BY <2>1, <1>2
    <2>2. CASE \E s \in InProgress : r = [s EXCEPT !.age = Older(@)]
      BY <2>2, <1>2, <1>3 DEF InProgress
    <2> QED
      BY <2>1, <2>2 DEF Tick
  <1>6. \A s \in requests : \E r \in requests' :
              r.id = s.id /\ r.user = s.user /\ r.status = s.status
    BY <1>3 DEF Tick
  <1> QED
    BY <1>4, <1>5, <1>6

LEMMA CalledFields ==
  ASSUME RequestInv, NEW p \in Calls, pc[p] # "idle"
  PROVE  /\ req[p] \in Request /\ User(p) \in Users /\ Kind(p) \in Kinds
         /\ Kind(p) = "submit" => req[p].version \in Versions /\ req[p].key \in Keys
  BY RequestFields DEF RequestInv, User, Kind

LEMMA CompletedRow ==
  ASSUME NEW r \in SubmitRow, NEW x \in Results
  PROVE  /\ Completed(r, x) \in SubmitRow
         /\ Completed(r, x).id = r.id
         /\ Completed(r, x).status = "completed"
         /\ Completed(r, x).result = x
         /\ \A q : HasScope(Completed(r, x), q) <=> HasScope(r, q)
         /\ \A q : HasScope(q, Completed(r, x)) <=> HasScope(q, r)
  BY TimesAssumption DEF Completed, SubmitRow, Ages, HasScope

\* What the commit of a start transaction leaves in the table.
LEMMA StartRows ==
  ASSUME TypeOK, RequestInv, NEW p \in Calls, pc[p] = "admitted",
         NEW i \in NewId(p), CommitStart(p, i)
  PROVE  /\ requests' \subseteq SubmitRow
         /\ \A r \in requests' : r \in requests => r.id \notin doomed[p] \/ r = NewReservation(p, i)
         /\ \A r \in requests : r.id \notin doomed[p] => r \in requests'
         /\ \A r \in requests' \ requests : i # None /\ r = NewReservation(p, i)
         /\ i # None => /\ NewReservation(p, i) \in requests' /\ i \in FreshIds
                        /\ Kind(p) = "submit"
                        /\ NewReservation(p, i).id = i
                        /\ NewReservation(p, i).status = "in_progress"
                        /\ NewReservation(p, i).user = User(p)
                        /\ \A q : HasScope(NewReservation(p, i), q) <=> HasScope(req[p], q)
                        /\ \A q : HasScope(q, NewReservation(p, i)) <=> HasScope(q, req[p])
         /\ Kind(p) = "submit" => i # None
  <1>1. i # None => i \in FreshIds /\ Kind(p) = "submit"
    BY CalledFields DEF NewId, Kinds
  <1>2. i # None => NewReservation(p, i) \in SubmitRow
    BY <1>1, CalledFields DEF NewReservation, SubmitRow, TypeOK, FreshIds
  <1>3. Kind(p) = "submit" => i # None
    BY NoneAssumption DEF NewId, FreshIds
  <1>4. i # None => /\ NewReservation(p, i).id = i
                    /\ NewReservation(p, i).status = "in_progress"
                    /\ NewReservation(p, i).user = User(p)
                    /\ \A q : HasScope(NewReservation(p, i), q) <=> HasScope(req[p], q)
                    /\ \A q : HasScope(q, NewReservation(p, i)) <=> HasScope(q, req[p])
    BY DEF NewReservation, HasScope, User
  <1>5. requests' = {r \in requests : r.id \notin doomed[p]}
                   \cup {NewReservation(p, j) : j \in {i} \ {None}}
    BY DEF CommitStart
  <1> QED
    BY <1>1, <1>2, <1>3, <1>4, <1>5 DEF TypeOK

\* What the commit of a save leaves in the tables.
LEMMA SaveRows ==
  ASSUME TypeOK, RequestInv, OutcomeInv, ReservationInv, NEW p \in Calls, CommitSave(p)
  PROVE  /\ rid[p] # None /\ outcome[p] \in Results /\ Kind(p) = "submit"
         /\ NewSubmission(p) \in Submission
         /\ \E r \in OwnReservation(p) :
              /\ RowFree(r)
              /\ HasScope(r, req[p])
              /\ requests' = (requests \ {r}) \cup {Completed(r, outcome[p])}
              /\ Completed(r, outcome[p]) \in SubmitRow
              /\ AsSubmission(Completed(r, outcome[p])) = NewSubmission(p)
  <1>1. /\ Kind(p) = "submit" /\ outcome[p] \in Results
        /\ rid[p] # None /\ rid[p] \in Ids
    BY DEF OutcomeInv, ReservationInv, CommitSave, TypeOK
  <1>2. NewSubmission(p) \in Submission
    BY <1>1, CalledFields DEF NewSubmission, Submission, CommitSave
  <1>3. PICK r \in OwnReservation(p) :
          RowFree(r) /\ requests' = (requests \ {r}) \cup {Completed(r, outcome[p])}
    BY DEF CommitSave
  <1>4. r \in requests /\ r \in SubmitRow /\ r.id = rid[p]
    BY DEF OwnReservation, InProgress, TypeOK
  <1>5. HasScope(r, req[p])
    BY <1>4 DEF ReservationInv
  <1>6. AsSubmission(Completed(r, outcome[p])) = NewSubmission(p)
    BY <1>4, <1>5 DEF AsSubmission, Completed, NewSubmission, HasScope, User
  <1>7. Completed(r, outcome[p]) \in SubmitRow
    BY <1>1, <1>4, CompletedRow
  <1> QED
    BY <1>1, <1>2, <1>3, <1>5, <1>6, <1>7

-----------------------------------------------------------------------------
(* Type correctness *)

LEMMA TypeStep ==
  ASSUME IInv, [Next]_vars
  PROVE  TypeOK'
  <1> USE DEF Goto, Locations
  <1>0. CASE UNCHANGED vars
    BY <1>0 DEF IInv, TypeOK, vars, local, tables
  <1>1. CASE Tick
    <2>1. requests' \subseteq SubmitRow
      BY <1>1, TickRows DEF IInv
    <2>2. cooldowns' \in [Users -> [Kinds -> Ages]]
      BY <1>1, OlderAge DEF IInv, TypeOK, Tick
    <2>3. stamp' \in [Calls -> Ages]
      BY <1>1, OlderAge DEF IInv, TypeOK, Tick
    <2> QED
      BY <1>1, <2>1, <2>2, <2>3 DEF IInv, TypeOK, Tick
  <1>2. ASSUME NEW p \in Calls, NEW q \in Request, Send(p, q)
        PROVE  TypeOK'
    BY <1>2 DEF IInv, TypeOK, Send, tables
  <1>3. ASSUME NEW p \in Calls, Acquire(p)
        PROVE  TypeOK'
    BY <1>3, CalledFields DEF IInv, TypeOK, Acquire, TakeLock, tables
  <1>4. ASSUME NEW p \in Calls, RefuseBusy(p)
        PROVE  TypeOK'
    BY <1>4, TimesAssumption DEF IInv, TypeOK, RefuseBusy, Return, tables, Ages
  <1>5. ASSUME NEW p \in Calls, Replay(p)
        PROVE  TypeOK'
    <2>1. outcome' \in [Calls -> Results \cup {None}]
      BY <1>5 DEF IInv, TypeOK, Replay, Found, SubmitRow
    <2> QED
      BY <1>5, <2>1 DEF IInv, TypeOK, Replay, Stale, InProgress
  <1>6. ASSUME NEW p \in Calls, RefuseDuplicate(p) \/ RefuseCooldown(p)
        PROVE  TypeOK'
    BY <1>6 DEF IInv, TypeOK, RefuseDuplicate, RefuseCooldown, local, tables
  <1>7. ASSUME NEW p \in Calls, Admit(p)
        PROVE  TypeOK'
    <2>1. {r.id : r \in Stale(p)} \subseteq Ids
      BY DEF IInv, TypeOK, Stale, InProgress, SubmitRow
    <2> QED
      BY <1>7, <2>1 DEF IInv, TypeOK, Admit, tables
  <1>8. ASSUME NEW p \in Calls, Start(p)
        PROVE  TypeOK'
    <2>1. PICK i \in NewId(p) : CommitStart(p, i) /\ rid' = [rid EXCEPT ![p] = i]
      BY <1>8 DEF Start
    <2>2. i \in Ids \cup {None}
      BY DEF NewId, FreshIds
    <2>3. requests' \subseteq SubmitRow
      BY <1>8, <2>1, StartRows DEF IInv, Start
    <2>4. cooldowns' \in [Users -> [Kinds -> Ages]]
      BY <2>1 DEF IInv, TypeOK, CommitStart
    <2> QED
      BY <1>8, <2>1, <2>2, <2>3, <2>4, TimesAssumption
      DEF IInv, TypeOK, Start, CommitStart, EndTransaction, Ages
  <1>9. ASSUME NEW p \in Calls, StartUnacked(p)
        PROVE  TypeOK'
    <2>1. PICK i \in NewId(p) : CommitStart(p, i)
      BY <1>9 DEF StartUnacked
    <2>3. requests' \subseteq SubmitRow
      BY <1>9, <2>1, StartRows DEF IInv, StartUnacked
    <2>4. cooldowns' \in [Users -> [Kinds -> Ages]]
      BY <2>1 DEF IInv, TypeOK, CommitStart
    <2>5. advisory' \in [Users -> Calls \cup {None}]
      BY <1>9 DEF IInv, TypeOK, StartUnacked, FreeLock
    <2> QED
      BY <1>9, <2>1, <2>3, <2>4, <2>5, TimesAssumption
      DEF IInv, TypeOK, StartUnacked, CommitStart, EndTransaction, CountFault, Ages
  <1>21. ASSUME NEW p \in Calls, StartFails(p)
        PROVE  TypeOK'
    BY <1>21, TimesAssumption DEF IInv, TypeOK, StartFails, EndTransaction, CountFault, tables, Ages
  <1>10. ASSUME NEW p \in Calls, RunDone(p)
        PROVE  TypeOK'
    BY <1>10 DEF IInv, TypeOK, RunDone, local, tables
  <1>11. ASSUME NEW p \in Calls, Evaluate(p)
        PROVE  TypeOK'
    BY <1>11 DEF IInv, TypeOK, Evaluate, tables
  <1>12. ASSUME NEW p \in Calls, BodyFails(p)
        PROVE  TypeOK'
    BY <1>12, TimesAssumption DEF IInv, TypeOK, BodyFails, Raise, CountFault
  <1>13. ASSUME NEW p \in Calls, CommitSave(p)
        PROVE  requests' \subseteq SubmitRow /\ submissions' \subseteq Submission
    <2>1. submissions' = submissions \cup {NewSubmission(p)}
      BY <1>13 DEF CommitSave
    <2> QED
      BY <1>13, <2>1, SaveRows DEF IInv, TypeOK
  <1>14. ASSUME NEW p \in Calls, Save(p)
        PROVE  TypeOK'
    BY <1>14, <1>13 DEF IInv, TypeOK, Save, local
  <1>15. ASSUME NEW p \in Calls, SaveUnacked(p)
        PROVE  TypeOK'
    BY <1>15, <1>13, TimesAssumption DEF IInv, TypeOK, SaveUnacked, Raise, CountFault
  <1>20. ASSUME NEW p \in Calls, SaveRejected(p)
        PROVE  TypeOK'
    BY <1>20 DEF IInv, TypeOK, SaveRejected, Raise
  <1>16. ASSUME NEW p \in Calls, Cleanup(p)
        PROVE  TypeOK'
    BY <1>16 DEF IInv, TypeOK, Cleanup, local
  <1>17. ASSUME NEW p \in Calls, Unlock(p)
        PROVE  TypeOK'
    <2>1. advisory' \in [Users -> Calls \cup {None}]
      BY <1>17 DEF IInv, TypeOK, Unlock, FreeLock
    <2>2. \A x \in {outcome[p]} \ {None} :
            [user |-> User(p), version |-> req[p].version, key |-> req[p].key,
             result |-> x] \in Answer
      <3>1. SUFFICES ASSUME outcome[p] # None
                     PROVE  [user |-> User(p), version |-> req[p].version, key |-> req[p].key,
                             result |-> outcome[p]] \in Answer
        OBVIOUS
      <3>2. Kind(p) = "submit" /\ outcome[p] \in Results
        BY <1>17, <3>1 DEF IInv, OutcomeInv, TypeOK, Unlock
      <3> QED
        BY <1>17, <3>2, CalledFields DEF IInv, Unlock, Answer
    <2>3. delivered' \subseteq Answer
      BY <1>17, <2>2 DEF IInv, TypeOK, Unlock, Deliver
    <2> QED
      BY <1>17, <2>1, <2>3, TimesAssumption DEF IInv, TypeOK, Unlock, Return, tables, Ages
  <1>18. ASSUME NEW p \in Calls, LoseConnection(p)
        PROVE  TypeOK'
    BY <1>18, CalledFields, TimesAssumption
    DEF IInv, TypeOK, LoseConnection, LockInv, FreeLock, EndTransaction, CountFault, tables, Ages
  <1>19. ASSUME NEW p \in Calls, Crash(p)
        PROVE  TypeOK'
    BY <1>19, CalledFields, TimesAssumption
    DEF IInv, TypeOK, Crash, FreeLock, Return, CountFault, tables, Ages
  <1> QED
    BY <1>0, <1>1, <1>2, <1>3, <1>4, <1>5, <1>6, <1>7, <1>8, <1>9, <1>10, <1>11, <1>12, <1>14,
       <1>15, <1>16, <1>17, <1>18, <1>19, <1>20, <1>21
    DEF Next, Arrive, Step, Fault

-----------------------------------------------------------------------------
(* The lock *)

\* Two open sessions cannot serve the same user.
LEMMA OneOwner ==
  ASSUME LockInv, NEW p \in Calls, NEW q \in Calls,
         session[p] = "open", session[q] = "open", User(p) = User(q)
  PROVE  p = q
  BY DEF LockInv

LEMMA LockStep ==
  ASSUME IInv, [Next]_vars
  PROVE  (RequestInv /\ LockInv)'
  <1> USE DEF Goto, RequestInv, LockInv, User
  <1>0. CASE UNCHANGED vars
    BY <1>0 DEF IInv, vars, local
  <1>1. CASE Tick
    BY <1>1 DEF IInv, Tick
  <1>2. ASSUME NEW p \in Calls, NEW q \in Request, Send(p, q)
        PROVE  (RequestInv /\ LockInv)'
    BY <1>2 DEF IInv, TypeOK, Send
  <1>3. ASSUME NEW p \in Calls, Acquire(p)
        PROVE  (RequestInv /\ LockInv)'
    BY <1>3, CalledFields, NoneAssumption DEF IInv, TypeOK, Acquire, TakeLock
  <1>4. ASSUME NEW p \in Calls, RefuseBusy(p)
        PROVE  (RequestInv /\ LockInv)'
    BY <1>4 DEF IInv, TypeOK, RefuseBusy, Return
  <1>5. ASSUME NEW p \in Calls, Replay(p) \/ RefuseDuplicate(p) \/ RefuseCooldown(p) \/ Admit(p)
        PROVE  (RequestInv /\ LockInv)'
    BY <1>5 DEF IInv, TypeOK, Replay, RefuseDuplicate, RefuseCooldown, Admit, local
  <1>6. ASSUME NEW p \in Calls, Start(p)
        PROVE  (RequestInv /\ LockInv)'
    BY <1>6 DEF IInv, TypeOK, Start, CommitStart, EndTransaction
  <1>7. ASSUME NEW p \in Calls, StartUnacked(p)
        PROVE  (RequestInv /\ LockInv)'
    BY <1>7, OneOwner DEF IInv, TypeOK, StartUnacked, CommitStart, EndTransaction, FreeLock
  <1>8. ASSUME NEW p \in Calls,
               StartFails(p) \/ RunDone(p) \/ Evaluate(p) \/ BodyFails(p) \/ Save(p)
                 \/ SaveUnacked(p) \/ SaveRejected(p) \/ Cleanup(p)
        PROVE  (RequestInv /\ LockInv)'
    BY <1>8
    DEF IInv, TypeOK, StartFails, EndTransaction, RunDone, Evaluate, BodyFails, Save,
        SaveUnacked, SaveRejected, CommitSave,
        Cleanup, Raise, local
  <1>9. ASSUME NEW p \in Calls, Unlock(p)
        PROVE  (RequestInv /\ LockInv)'
    BY <1>9, OneOwner DEF IInv, TypeOK, Unlock, Return, FreeLock
  <1>10. ASSUME NEW p \in Calls, LoseConnection(p)
        PROVE  (RequestInv /\ LockInv)'
    BY <1>10, OneOwner DEF IInv, TypeOK, LoseConnection, EndTransaction, FreeLock
  <1>11. ASSUME NEW p \in Calls, Crash(p)
        PROVE  (RequestInv /\ LockInv)'
    BY <1>11, OneOwner DEF IInv, TypeOK, Crash, Return, FreeLock
  <1> QED
    BY <1>0, <1>1, <1>2, <1>3, <1>4, <1>5, <1>6, <1>7, <1>8, <1>9, <1>10, <1>11
    DEF Next, Arrive, Step, Fault

-----------------------------------------------------------------------------
(* The start transaction *)

\* The reads of q hold as long as its request, its purge, its user's cooldowns
\* and the rows it deletes stay, and no row of its scope appears.
LEMMA ReadsKept ==
  ASSUME NEW q \in Calls, ReadsHold(q),
         req'[q] = req[q], doomed'[q] = doomed[q],
         cooldowns'[User(q)] = cooldowns[User(q)],
         \A r \in requests' :
           \/ r \in requests
           \/ r.id \notin doomed[q] /\ (Kind(q) = "submit" => ~HasScope(r, req[q])),
         \A r \in requests : r.id \in doomed[q] => r \in requests'
  PROVE  ReadsHold(q)'
  BY DEF ReadsHold, CooledDown, User, Kind, HasScope

LEMMA AdmittedStep ==
  ASSUME IInv, [Next]_vars
  PROVE  AdmittedInv'
  <1> USE DEF Goto
  <1>a. /\ TypeOK /\ RequestInv /\ LockInv /\ AdmittedInv /\ ReservationInv /\ OutcomeInv
        /\ requests \subseteq SubmitRow
    BY DEF IInv, TypeOK
  <1>b. \A q \in Calls : pc[q] = "admitted" => session[q] = "open" /\ ReadsHold(q)
    BY <1>a DEF LockInv, AdmittedInv
  <1>c. \A p, q \in Calls :
          pc[q] = "admitted" /\ session[p] = "open" /\ p # q => User(p) # User(q)
    BY <1>a, <1>b, OneOwner
  <1>0. CASE UNCHANGED vars
    BY <1>0, <1>a
    DEF AdmittedInv, ReadsHold, CooledDown, User, Kind, HasScope, vars, local, tables
  <1>1. CASE Tick
    <2>1. UNCHANGED <<pc, req, doomed>>
      BY <1>1 DEF Tick
    <2>2. ASSUME NEW q \in Calls, pc[q] = "admitted"
          PROVE  ReadsHold(q)'
      <3>1. User(q) \in Users /\ Kind(q) \in Kinds
        BY <2>2, <1>a, CalledFields
      <3>2. cooldowns'[User(q)][Kind(q)] >= cooldowns[User(q)][Kind(q)]
        BY <1>1, <1>a, <3>1, OlderAge DEF Tick, TypeOK
      <3>3. CooledDown(q)'
        BY <1>1, <1>a, <1>b, <2>1, <2>2, <3>1, <3>2, TimesAssumption, OlderAge
        DEF ReadsHold, CooledDown, Cooldown, User, Kind, Tick, TypeOK, Ages
      <3>4. \A r \in requests' : HasScope(r, req[q]) /\ Kind(q) = "submit" => r.id \in doomed[q]
        BY <1>1, <1>a, <1>b, <2>2, TickRows DEF ReadsHold, HasScope
      <3>5. \A r \in requests' :
              r.id \in doomed[q] =>
                r.status = "in_progress" /\ r.user = User(q) /\ r.age >= StaleAfter
        <4> TAKE r \in requests'
        <4>1. PICK s \in requests : /\ r.id = s.id /\ r.user = s.user /\ r.status = s.status
                                    /\ r.age >= s.age
          BY <1>1, <1>a, TickRows
        <4>2. s.age \in Nat /\ r.age \in Nat /\ StaleAfter \in Nat
          BY <1>1, <1>a, TickRows, TimesAssumption DEF SubmitRow, Ages
        <4> QED
          BY <1>b, <2>2, <4>1, <4>2 DEF ReadsHold
      <3>6. \A i \in doomed[q] : \E r \in requests' : r.id = i
        BY <1>1, <1>a, <1>b, <2>2, TickRows DEF ReadsHold
      <3> QED
        BY <2>1, <3>3, <3>4, <3>5, <3>6 DEF ReadsHold, User, Kind
    <2> QED
      BY <1>a, <2>1, <2>2 DEF AdmittedInv
  <1>2. ASSUME NEW p \in Calls,
               \/ \E q \in Request : Send(p, q)
               \/ Acquire(p) \/ RefuseBusy(p) \/ RefuseDuplicate(p) \/ RefuseCooldown(p)
               \/ StartFails(p) \/ RunDone(p) \/ Evaluate(p) \/ BodyFails(p) \/ SaveRejected(p)
               \/ Unlock(p) \/ LoseConnection(p) \/ Crash(p)
        PROVE  AdmittedInv'
    <2>1. UNCHANGED <<cooldowns, requests>>
      BY <1>2
      DEF Send, Acquire, TakeLock, RefuseBusy, RefuseDuplicate, RefuseCooldown, StartFails,
          RunDone, Evaluate,
          BodyFails, Raise, SaveRejected, Unlock, LoseConnection, Crash, tables
    <2>2. ASSUME NEW q \in Calls
          PROVE  \/ pc'[q] = "admitted" /\ pc[q] = "admitted" /\ req'[q] = req[q]
                      /\ doomed'[q] = doomed[q]
                 \/ pc'[q] # "admitted" /\ doomed'[q] = {}
      BY <1>2, <1>a
      DEF AdmittedInv, TypeOK, Send, Acquire, TakeLock, RefuseBusy, Return, RefuseDuplicate,
          RefuseCooldown, StartFails, RunDone, Evaluate, BodyFails, Raise, SaveRejected, Unlock,
          LoseConnection, EndTransaction, Crash, local
    <2> QED
      BY <2>1, <2>2, <1>b, ReadsKept DEF AdmittedInv
  <1>3. ASSUME NEW p \in Calls, Replay(p)
        PROVE  AdmittedInv'
    <2>1. session[p] = "open" /\ pc[p] = "locked"
      BY <1>3, <1>a DEF Replay, LockInv
    <2>2. ASSUME NEW q \in Calls, pc[q] = "admitted", NEW r \in requests, r.id \in doomed[q]
          PROVE  r \in requests'
      BY <1>3, <1>b, <1>c, <2>1, <2>2 DEF Replay, Stale, ReadsHold
    <2> QED
      BY <1>3, <1>a, <1>b, <2>2, ReadsKept DEF Replay, AdmittedInv, TypeOK
  <1>4. ASSUME NEW p \in Calls, Admit(p)
        PROVE  AdmittedInv'
    <2>a. /\ UNCHANGED <<req, requests, cooldowns>>
          /\ doomed'[p] = {r.id : r \in Stale(p)}
          /\ Found(p) = {} /\ CooledDown(p)
      BY <1>4, <1>a DEF Admit, TypeOK, tables
    <2>b. CooledDown(p)'
      BY <2>a DEF CooledDown, User, Kind
    <2>c. \A r \in requests : HasScope(r, req[p]) => r.id \in doomed'[p]
      BY <2>a DEF Found
    <2>d. \A i \in doomed'[p] : \E r \in requests : r.id = i
      BY <2>a DEF Stale, InProgress
    <2>e. \A r \in requests :
            r.id \in doomed'[p] =>
              r.status = "in_progress" /\ r.user = User(p) /\ r.age >= StaleAfter
      <3> TAKE r \in requests
      <3>1. SUFFICES ASSUME r.id \in doomed'[p]
                     PROVE  r \in Stale(p)
        BY DEF Stale, InProgress
      <3>2. PICK s \in Stale(p) : s.id = r.id
        BY <2>a, <3>1
      <3> QED
        BY <3>2 DEF Stale, InProgress, IInv, RequestKeysUnique
    <2>1. ReadsHold(p)'
      BY <2>a, <2>b, <2>c, <2>d, <2>e DEF ReadsHold, HasScope, User, Kind
    <2> QED
      BY <1>4, <1>a, <1>b, <2>1, ReadsKept DEF Admit, AdmittedInv, TypeOK, tables
  <1>5. ASSUME NEW p \in Calls, pc[p] = "admitted", NEW i \in NewId(p), CommitStart(p, i),
               Goto(p, "executing") \/ Goto(p, "unlocking")
        PROVE  AdmittedInv'
    <2>1. /\ UNCHANGED req
          /\ cooldowns' = [cooldowns EXCEPT ![User(p)][Kind(p)] = stamp[p]]
          /\ doomed' = [doomed EXCEPT ![p] = {}]
          /\ requests' \subseteq requests \cup {NewReservation(p, i)}
          /\ \A r \in requests : r.id \notin doomed[p] => r \in requests'
          /\ NewReservation(p, i) \in requests' =>
               i \in FreshIds \/ NewReservation(p, i) \in requests
      BY <1>5, <1>a, StartRows DEF CommitStart, EndTransaction
    <2>2. ASSUME NEW q \in Calls, pc[q] = "admitted", q # p
          PROVE  ReadsHold(q)'
      <3>1. User(p) # User(q)
        BY <1>5, <1>b, <1>c, <2>2
      <3>2. cooldowns'[User(q)] = cooldowns[User(q)]
        BY <2>1, <3>1, <2>2, <1>a, CalledFields DEF TypeOK
      <3>3. \A r \in requests : r.id \in doomed[q] => r \in requests'
        <4> SUFFICES ASSUME NEW r \in requests, r.id \in doomed[q], r.id \in doomed[p]
                     PROVE  FALSE
          BY <2>1
        <4> QED
          BY <1>5, <1>b, <2>2, <3>1 DEF ReadsHold
      <3>4. i \in FreshIds => i \notin doomed[q]
        BY <1>b, <2>2 DEF FreshIds, ReadsHold
      <3>5. ~HasScope(NewReservation(p, i), req[q]) /\ NewReservation(p, i).id = i
        BY <3>1 DEF NewReservation, HasScope, User
      <3>6. doomed'[q] = doomed[q] /\ req'[q] = req[q]
        BY <2>1, <2>2, <1>a DEF TypeOK
      <3> QED
        BY <1>b, <2>1, <2>2, <3>2, <3>3, <3>4, <3>5, <3>6, ReadsKept
    <2> QED
      BY <1>5, <1>a, <2>1, <2>2 DEF AdmittedInv, TypeOK
  <1>6. ASSUME NEW p \in Calls, CommitSave(p), UNCHANGED <<req, doomed, cooldowns>>,
               Goto(p, "unlocking") \/ Goto(p, "failing")
        PROVE  AdmittedInv'
    <2>1. PICK r \in OwnReservation(p) :
            /\ RowFree(r)
            /\ requests' = (requests \ {r}) \cup {Completed(r, outcome[p])}
      BY <1>6 DEF CommitSave
    <2>2. r \in requests /\ r \in SubmitRow
      BY <1>a DEF OwnReservation, InProgress
    <2>3. outcome[p] \in Results
      BY <1>6, <1>a, SaveRows
    <2>4. ASSUME NEW q \in Calls, pc[q] = "admitted"
          PROVE  ReadsHold(q)'
      <3>1. r.id \notin doomed[q]
        BY <2>1 DEF RowFree
      <3>2. Kind(q) = "submit" => ~HasScope(r, req[q])
        BY <1>b, <2>2, <2>4, <3>1 DEF ReadsHold
      <3>3. /\ Completed(r, outcome[p]).id \notin doomed[q]
            /\ Kind(q) = "submit" => ~HasScope(Completed(r, outcome[p]), req[q])
        BY <2>2, <2>3, <3>1, <3>2, CompletedRow
      <3> QED
        BY <1>b, <1>6, <2>1, <2>4, <3>1, <3>3, ReadsKept
    <2> QED
      BY <1>6, <1>a, <2>4 DEF AdmittedInv, TypeOK, CommitSave
  <1>7. ASSUME NEW p \in Calls, Cleanup(p)
        PROVE  AdmittedInv'
    <2>1. ASSUME NEW q \in Calls, pc[q] = "admitted", NEW r \in requests, r.id \in doomed[q]
          PROVE  r \in requests'
      BY <1>7, <1>b, <1>c, <2>1 DEF Cleanup, OwnReservation, ReadsHold
    <2> QED
      BY <1>7, <1>a, <1>b, <2>1, ReadsKept DEF Cleanup, AdmittedInv, TypeOK, local
  <1> QED
    BY <1>0, <1>1, <1>2, <1>3, <1>4, <1>5, <1>6, <1>7
    DEF Next, Arrive, Step, Fault, Start, StartUnacked, Save, SaveUnacked, Raise, local

-----------------------------------------------------------------------------
(* Reservations *)

\* Every step but the commit of a start transaction leaves the reservation
\* scopes alone: a row of the new table has the id and scope of an old one.
RowsDescend == \A r \in requests' : \E s \in requests : r.id = s.id /\ HasScope(s, r)

LEMMA ReservationKept ==
  ASSUME ReservationInv, RowsDescend,
         \A q \in Calls :
           \/ /\ req'[q] = req[q] /\ rid'[q] = rid[q]
              /\ pc'[q] \in {"executing", "evaluated"} => pc[q] \in {"executing", "evaluated"}
              /\ rid[q] # None => pc'[q] \in Served
           \/ rid'[q] = None /\ pc'[q] \notin {"executing", "evaluated"},
         \A r \in requests : r.id # None
  PROVE  ReservationInv'
  <1>1. \A r \in requests' : r.id # None
    BY DEF RowsDescend
  <1>2. ASSUME NEW p \in Calls, req'[p] = req[p], rid'[p] = rid[p],
               NEW r \in requests', r.id = rid'[p]
        PROVE  HasScope(r, req'[p])
    BY <1>2 DEF RowsDescend, ReservationInv, HasScope
  <1> QED
    BY <1>1, <1>2 DEF ReservationInv, Kind

LEMMA ReservationStep ==
  ASSUME IInv, [Next]_vars
  PROVE  ReservationInv'
  <1> USE DEF Goto, Served
  <1>a. /\ TypeOK /\ RequestInv /\ LockInv /\ AdmittedInv /\ ReservationInv /\ OutcomeInv
        /\ requests \subseteq SubmitRow
        /\ \A r \in requests : r.id # None
    BY NoneAssumption DEF IInv, TypeOK, SubmitRow
  <1>0. CASE UNCHANGED vars
    BY <1>0, <1>a DEF ReservationInv, Kind, vars, local, tables
  <1>1. CASE Tick
    <2>1. RowsDescend
      BY <1>1, <1>a, TickRows DEF RowsDescend, HasScope
    <2>2. UNCHANGED <<pc, req, rid>>
      BY <1>1 DEF Tick
    <2> QED
      BY <1>a, <2>1, <2>2, ReservationKept DEF ReservationInv
  <1>2. ASSUME NEW p \in Calls,
               \/ \E q \in Request : Send(p, q)
               \/ Acquire(p) \/ RefuseBusy(p)
               \/ Replay(p) \/ RefuseDuplicate(p) \/ RefuseCooldown(p) \/ Admit(p)
               \/ StartFails(p) \/ RunDone(p) \/ Evaluate(p) \/ BodyFails(p) \/ SaveRejected(p)
               \/ Cleanup(p) \/ Unlock(p) \/ LoseConnection(p) \/ Crash(p)
        PROVE  ReservationInv'
    <2>1. requests' \subseteq requests
      BY <1>2
      DEF Send, Acquire, TakeLock, RefuseBusy, Replay, RefuseDuplicate, RefuseCooldown, Admit,
          StartFails, RunDone, Evaluate, BodyFails, Raise, SaveRejected, Cleanup, Unlock,
          LoseConnection, Crash,
          tables
    <2>2. RowsDescend
      BY <2>1 DEF RowsDescend, HasScope
    <2>3. ASSUME NEW q \in Calls
          PROVE  \/ /\ req'[q] = req[q] /\ rid'[q] = rid[q]
                    /\ pc'[q] \in {"executing", "evaluated"} => pc[q] \in {"executing", "evaluated"}
                    /\ rid[q] # None => pc'[q] \in Served
                 \/ rid'[q] = None /\ pc'[q] \notin {"executing", "evaluated"}
      <3>1. CASE \E r \in Request : Send(p, r)
        BY <3>1, <1>a DEF Send, ReservationInv, TypeOK
      <3>2. CASE RefuseBusy(p) \/ Unlock(p) \/ Crash(p)
        BY <3>2, <1>a DEF RefuseBusy, Unlock, Crash, Return, ReservationInv, TypeOK
      <3>3. CASE Acquire(p) \/ Replay(p) \/ RefuseDuplicate(p) \/ RefuseCooldown(p) \/ Admit(p)
        BY <3>3, <1>a
        DEF Acquire, TakeLock, Replay, RefuseDuplicate, RefuseCooldown, Admit, ReservationInv,
            TypeOK, local
      <3>4. CASE RunDone(p) \/ Evaluate(p) \/ BodyFails(p) \/ SaveRejected(p) \/ Cleanup(p)
        BY <3>4, <1>a
        DEF RunDone, Evaluate, BodyFails, Raise, SaveRejected, Cleanup, ReservationInv, TypeOK,
            local
      <3>5. CASE LoseConnection(p) \/ StartFails(p)
        BY <3>5, <1>a DEF LoseConnection, StartFails, ReservationInv, TypeOK
      <3> QED
        BY <1>2, <3>1, <3>2, <3>3, <3>4, <3>5
    <2> QED
      BY <1>a, <2>2, <2>3, ReservationKept
  <1>3. ASSUME NEW p \in Calls, CommitSave(p), UNCHANGED <<req, rid>>,
               Goto(p, "unlocking") \/ Goto(p, "failing")
        PROVE  ReservationInv'
    <2>1. PICK r \in OwnReservation(p) :
            requests' = (requests \ {r}) \cup {Completed(r, outcome[p])}
      BY <1>3 DEF CommitSave
    <2>2. RowsDescend
      BY <2>1 DEF RowsDescend, HasScope, Completed, OwnReservation, InProgress
    <2> QED
      BY <1>3, <1>a, <2>2, ReservationKept DEF ReservationInv, TypeOK, CommitSave
  <1>4. ASSUME NEW p \in Calls, Start(p)
        PROVE  ReservationInv'
    <2>1. PICK i \in NewId(p) : CommitStart(p, i) /\ rid' = [rid EXCEPT ![p] = i]
      BY <1>4 DEF Start
    <2>2. /\ Kind(p) = "submit" => i # None
          /\ i # None => i \in FreshIds /\ Kind(p) = "submit"
          /\ \A r \in requests' \ requests : i # None /\ r = NewReservation(p, i)
          /\ HasScope(NewReservation(p, i), req[p]) /\ NewReservation(p, i).id = i
      BY <1>4, <1>a, <2>1, StartRows DEF Start, NewReservation, HasScope, User
    <2>3. UNCHANGED req /\ pc' = [pc EXCEPT ![p] = "executing"] /\ pc[p] = "admitted"
      BY <1>4, <2>1 DEF Start, CommitStart
    <2>4. ASSUME NEW q \in Calls, NEW r \in requests', r.id = rid'[q]
          PROVE  HasScope(r, req'[q])
      <3>1. CASE q = p
        BY <3>1, <1>a, <2>1, <2>2, <2>3, <2>4 DEF TypeOK, FreshIds
      <3>2. CASE q # p
        BY <3>2, <1>a, <2>1, <2>2, <2>3, <2>4 DEF TypeOK, FreshIds, ReservationInv
      <3> QED
        BY <3>1, <3>2
    <2>5. ASSUME NEW q \in Calls, NEW r \in Calls, rid'[q] # None, rid'[q] = rid'[r]
          PROVE  q = r
      BY <1>a, <2>1, <2>2, <2>5 DEF TypeOK, FreshIds, ReservationInv
    <2> QED
      BY <1>a, <2>1, <2>2, <2>3, <2>4, <2>5 DEF ReservationInv, TypeOK, Kind
  <1>5. ASSUME NEW p \in Calls, StartUnacked(p)
        PROVE  ReservationInv'
    <2>1. PICK i \in NewId(p) : CommitStart(p, i)
      BY <1>5 DEF StartUnacked
    <2>2. /\ i # None => i \in FreshIds
          /\ \A r \in requests' \ requests : i # None /\ r = NewReservation(p, i)
          /\ NewReservation(p, i).id = i
      BY <1>5, <1>a, <2>1, StartRows DEF StartUnacked, NewReservation
    <2>3. UNCHANGED <<req, rid>> /\ pc' = [pc EXCEPT ![p] = "unlocking"] /\ pc[p] = "admitted"
      BY <1>5, <2>1 DEF StartUnacked, CommitStart
    <2>4. ASSUME NEW q \in Calls, NEW r \in requests', r.id = rid'[q]
          PROVE  HasScope(r, req'[q])
      BY <1>a, <2>2, <2>3, <2>4 DEF FreshIds, ReservationInv
    <2> QED
      BY <1>a, <2>3, <2>4 DEF ReservationInv, TypeOK, Kind
  <1> QED
    BY <1>0, <1>1, <1>2, <1>3, <1>4, <1>5
    DEF Next, Arrive, Step, Fault, Save, SaveUnacked, Raise, local

-----------------------------------------------------------------------------
(* The table of reservations *)

LEMMA KeysStep ==
  ASSUME IInv, [Next]_vars
  PROVE  RequestKeysUnique'
  <1> USE DEF Goto
  <1>a. /\ TypeOK /\ RequestInv /\ LockInv /\ AdmittedInv /\ ReservationInv /\ OutcomeInv
        /\ RequestKeysUnique /\ requests \subseteq SubmitRow
    BY DEF IInv, TypeOK
  <1>0. CASE UNCHANGED vars
    BY <1>0, <1>a DEF RequestKeysUnique, HasScope, vars, tables
  <1>1. CASE Tick
    <2>1. ASSUME NEW r \in requests'
          PROVE  \E s \in requests :
                   /\ r.id = s.id /\ HasScope(r, s) /\ r.status = s.status
                   /\ r = IF s.status = "in_progress" THEN [s EXCEPT !.age = Older(@)] ELSE s
      <3>1. CASE r \in requests \ InProgress
        BY <3>1 DEF InProgress, HasScope
      <3>2. CASE \E s \in InProgress : r = [s EXCEPT !.age = Older(@)]
        <4>1. PICK s \in InProgress : r = [s EXCEPT !.age = Older(@)]
          BY <3>2
        <4>2. s \in SubmitRow /\ s \in requests /\ s.status = "in_progress"
          BY <1>a DEF InProgress
        <4>3. r.id = s.id /\ HasScope(r, s) /\ r.status = s.status
          BY <4>1, <4>2 DEF SubmitRow, HasScope
        <4> QED
          BY <4>1, <4>2, <4>3
      <3> QED
        BY <1>1, <3>1, <3>2 DEF Tick
    <2> QED
      BY <1>a, <2>1 DEF RequestKeysUnique, HasScope
  <1>2. CASE requests' \subseteq requests
    BY <1>2, <1>a DEF RequestKeysUnique, HasScope
  <1>3. ASSUME NEW p \in Calls, CommitSave(p)
        PROVE  RequestKeysUnique'
    <2>1. PICK r \in requests :
            /\ r \in SubmitRow
            /\ requests' = (requests \ {r}) \cup {Completed(r, outcome[p])}
      BY <1>3, <1>a DEF CommitSave, OwnReservation, InProgress
    <2>2. Completed(r, outcome[p]).id = r.id
      BY DEF Completed
    <2>3. \A s : HasScope(Completed(r, outcome[p]), s) <=> HasScope(r, s)
      BY DEF Completed, HasScope
    <2>4. \A s : HasScope(s, Completed(r, outcome[p])) <=> HasScope(s, r)
      BY DEF Completed, HasScope
    <2> QED
      BY <1>a, <2>1, <2>2, <2>3, <2>4 DEF RequestKeysUnique
  <1>4. ASSUME NEW p \in Calls, pc[p] = "admitted", NEW i \in NewId(p), CommitStart(p, i)
        PROVE  RequestKeysUnique'
    <2>1. \A r \in requests' : (r \in requests /\ r.id \notin doomed[p]) \/ r = NewReservation(p, i)
      BY <1>4, <1>a, StartRows
    <2>2. CASE i = None
      BY <1>4, <1>a, <2>2, <1>2 DEF CommitStart
    <2>3. CASE i # None
      <3>1. /\ i \in FreshIds /\ Kind(p) = "submit"
            /\ NewReservation(p, i).id = i
            /\ \A q : HasScope(NewReservation(p, i), q) <=> HasScope(req[p], q)
            /\ \A q : HasScope(q, NewReservation(p, i)) <=> HasScope(q, req[p])
        BY <1>4, <1>a, <2>3, StartRows
      <3>2. \A r \in requests :
              r.id \notin doomed[p] => ~HasScope(r, req[p]) /\ ~HasScope(req[p], r)
        BY <1>4, <1>a, <3>1 DEF AdmittedInv, ReadsHold, HasScope
      <3>3. \A r \in requests : r.id # i
        BY <3>1 DEF FreshIds
      <3> QED
        BY <1>a, <2>1, <3>1, <3>2, <3>3 DEF RequestKeysUnique
    <2> QED
      BY <2>2, <2>3
  <1>5. ASSUME NEW p \in Calls,
               \/ \E q \in Request : Send(p, q)
               \/ Acquire(p) \/ RefuseBusy(p)
               \/ Replay(p) \/ RefuseDuplicate(p) \/ RefuseCooldown(p) \/ Admit(p)
               \/ StartFails(p) \/ RunDone(p) \/ Evaluate(p) \/ BodyFails(p) \/ SaveRejected(p)
               \/ Cleanup(p) \/ Unlock(p) \/ LoseConnection(p) \/ Crash(p)
        PROVE  requests' \subseteq requests
    BY <1>5
    DEF Send, Acquire, TakeLock, RefuseBusy, Replay, RefuseDuplicate, RefuseCooldown, Admit,
        StartFails, RunDone, Evaluate, BodyFails, Raise, SaveRejected, Cleanup, Unlock,
        LoseConnection, Crash,
        tables
  <1> QED
    BY <1>0, <1>1, <1>2, <1>3, <1>4, <1>5
    DEF Next, Arrive, Step, Fault, Start, StartUnacked, Save, SaveUnacked

LEMMA SavedStep ==
  ASSUME IInv, [Next]_vars, RequestKeysUnique'
  PROVE  SavedExactlyOnce'
  <1> USE DEF Goto
  <1>a. /\ TypeOK /\ RequestInv /\ LockInv /\ AdmittedInv /\ ReservationInv /\ OutcomeInv
        /\ RequestKeysUnique /\ requests \subseteq SubmitRow
        /\ submissions = {AsSubmission(r) : r \in requests \ InProgress}
    BY DEF IInv, TypeOK, SavedExactlyOnce
  <1> DEFINE Same == /\ \A r \in requests' : r.status # "in_progress" => r \in requests
                     /\ \A r \in requests : r.status # "in_progress" => r \in requests'
                     /\ submissions' = submissions
  <1>1. SUFFICES submissions' = {AsSubmission(r) : r \in requests' \ InProgress'}
    BY DEF SavedExactlyOnce, AsSubmission, HasScope, RequestKeysUnique, InProgress
  <1>2. CASE Same
    BY <1>2, <1>a DEF InProgress, AsSubmission
  <1>3. ASSUME NEW p \in Calls, CommitSave(p)
        PROVE  submissions' = {AsSubmission(r) : r \in requests' \ InProgress'}
    <2>1. PICK r \in OwnReservation(p) :
            /\ requests' = (requests \ {r}) \cup {Completed(r, outcome[p])}
            /\ AsSubmission(Completed(r, outcome[p])) = NewSubmission(p)
      BY <1>3, <1>a, SaveRows
    <2>2. Completed(r, outcome[p]).status # "in_progress" /\ r.status = "in_progress"
      BY DEF Completed, OwnReservation, InProgress
    <2>3. requests' \ InProgress' = (requests \ InProgress) \cup {Completed(r, outcome[p])}
      BY <2>1, <2>2 DEF InProgress
    <2>4. submissions' = submissions \cup {NewSubmission(p)}
      BY <1>3 DEF CommitSave
    <2>5. {AsSubmission(s) : s \in (requests \ InProgress) \cup {Completed(r, outcome[p])}}
            = {AsSubmission(s) : s \in requests \ InProgress} \cup {NewSubmission(p)}
      BY <2>1
    <2> QED
      BY <1>a, <2>3, <2>4, <2>5 DEF AsSubmission
  <1>4. CASE UNCHANGED vars
    BY <1>2, <1>4 DEF vars, tables
  <1>5. CASE Tick
    <2>1. submissions' = submissions
      BY <1>5 DEF Tick
    <2>2. \A r \in requests' : r.status # "in_progress" => r \in requests
      BY <1>5, <1>a, TickRows DEF SubmitRow
    <2>3. \A r \in requests : r.status # "in_progress" => r \in requests'
      BY <1>5 DEF Tick, InProgress
    <2> QED
      BY <1>2, <2>1, <2>2, <2>3
  <1>6. ASSUME NEW p \in Calls, pc[p] = "admitted", NEW i \in NewId(p), CommitStart(p, i)
        PROVE  Same
    <2>1. \A r \in requests : r.id \in doomed[p] => r.status = "in_progress"
      BY <1>6, <1>a DEF AdmittedInv, ReadsHold
    <2>2. NewReservation(p, i).status = "in_progress"
      BY DEF NewReservation
    <2>3. submissions' = submissions
      BY <1>6 DEF CommitStart
    <2> QED
      BY <1>6, <1>a, <2>1, <2>2, <2>3, StartRows
  <1>7. ASSUME NEW p \in Calls,
               \/ \E q \in Request : Send(p, q)
               \/ Acquire(p) \/ RefuseBusy(p)
               \/ Replay(p) \/ RefuseDuplicate(p) \/ RefuseCooldown(p) \/ Admit(p)
               \/ StartFails(p) \/ RunDone(p) \/ Evaluate(p) \/ BodyFails(p) \/ SaveRejected(p)
               \/ Cleanup(p) \/ Unlock(p) \/ LoseConnection(p) \/ Crash(p)
        PROVE  Same
    BY <1>7
    DEF Send, Acquire, TakeLock, RefuseBusy, Replay, Stale, InProgress, RefuseDuplicate,
        RefuseCooldown, Admit, StartFails, RunDone, Evaluate, BodyFails, Raise, SaveRejected,
        Cleanup,
        OwnReservation, Unlock, LoseConnection, Crash, tables
  <1> QED
    BY <1>2, <1>3, <1>4, <1>5, <1>6, <1>7
    DEF Next, Arrive, Step, Fault, Start, StartUnacked, Save, SaveUnacked

LEMMA HolderStep ==
  ASSUME IInv, [Next]_vars
  PROVE  HolderKeepsReservation'
  <1> USE DEF Goto
  <1>a. /\ TypeOK /\ RequestInv /\ LockInv /\ AdmittedInv /\ ReservationInv /\ OutcomeInv
        /\ HolderKeepsReservation /\ requests \subseteq SubmitRow
    BY DEF IInv, TypeOK
  <1> DEFINE Holds(q) == /\ session[q] = "open" /\ pc[q] \in {"executing", "evaluated"}
                         /\ Kind(q) = "submit"
             \* The row q holds is still there, and q has not moved into the body.
             Safe(q) == /\ \A r \in OwnReservation(q) : \E s \in requests' :
                             r.id = s.id /\ r.user = s.user /\ s.status = "in_progress"
                        /\ req'[q] = req[q] /\ rid'[q] = rid[q]
  <1>b. ASSUME NEW q \in Calls, Holds(q), Safe(q)
        PROVE  OwnReservation(q)' # {}
    BY <1>b, <1>a DEF HolderKeepsReservation, OwnReservation, InProgress, User
  <1>c. ASSUME NEW p \in Calls, NEW q \in Calls, Holds(q), p # q,
               NEW r \in OwnReservation(q), session[p] = "open"
        PROVE  r.user # User(p)
    BY <1>c, <1>a, OneOwner DEF OwnReservation
  <1>d. \A p, q \in Calls : p # q => OwnReservation(p) \cap OwnReservation(q) = {} \/ rid[q] = None
    BY <1>a DEF OwnReservation, ReservationInv
  <1>e. \A q \in Calls : Holds(q) => rid[q] # None
    BY <1>a DEF ReservationInv
  <1>0. CASE UNCHANGED vars
    BY <1>0, <1>a
    DEF HolderKeepsReservation, OwnReservation, InProgress, User, Kind, vars, local, tables
  <1>1. CASE Tick
    <2>1. UNCHANGED <<pc, req, session, rid>>
      BY <1>1 DEF Tick
    <2>2. ASSUME NEW q \in Calls, Holds(q)
          PROVE  Safe(q)
      BY <1>1, <1>a, <2>1, TickRows DEF OwnReservation, InProgress
    <2> QED
      BY <2>1, <2>2, <1>b DEF HolderKeepsReservation, Kind
  <1>2. ASSUME NEW p \in Calls,
               \/ \E q \in Request : Send(p, q)
               \/ Acquire(p) \/ RefuseBusy(p) \/ RefuseDuplicate(p) \/ RefuseCooldown(p) \/ Admit(p)
               \/ StartFails(p) \/ RunDone(p) \/ Evaluate(p) \/ BodyFails(p) \/ SaveRejected(p)
               \/ Unlock(p) \/ LoseConnection(p) \/ Crash(p)
        PROVE  HolderKeepsReservation'
    <2>1. UNCHANGED requests
      BY <1>2
      DEF Send, Acquire, TakeLock, RefuseBusy, RefuseDuplicate, RefuseCooldown, Admit,
          StartFails, RunDone,
          Evaluate, BodyFails, Raise, SaveRejected, Unlock, LoseConnection, Crash, tables
    <2>2. ASSUME NEW q \in Calls, Holds(q)'
          PROVE  Holds(q) /\ req'[q] = req[q] /\ rid'[q] = rid[q]
      BY <1>2, <1>a, <2>2
      DEF TypeOK, Kind, Send, Acquire, TakeLock, RefuseBusy, Return, RefuseDuplicate,
          RefuseCooldown, Admit, StartFails, RunDone, Evaluate, BodyFails, Raise, SaveRejected,
          Unlock,
          LoseConnection, Crash, local
    <2>3. ASSUME NEW q \in Calls, Holds(q), req'[q] = req[q], rid'[q] = rid[q]
          PROVE  Safe(q)
      BY <2>1, <2>3 DEF OwnReservation, InProgress
    <2> QED
      BY <2>2, <2>3, <1>b DEF HolderKeepsReservation
  <1>3. ASSUME NEW p \in Calls, Replay(p) \/ Cleanup(p)
        PROVE  HolderKeepsReservation'
    <2>1. UNCHANGED <<req, session, rid>> /\ pc' = [pc EXCEPT ![p] = "unlocking"]
      BY <1>3 DEF Replay, Cleanup, local
    <2>2. ASSUME NEW q \in Calls, Holds(q), q # p
          PROVE  Safe(q)
      <3>1. CASE Replay(p)
        <4>1. session[p] = "open"
          BY <3>1, <1>a DEF Replay, LockInv
        <4>2. \A r \in OwnReservation(q) :
                r \in requests /\ r \notin Stale(p) /\ r.status = "in_progress"
          BY <1>c, <2>2, <4>1 DEF OwnReservation, Stale, InProgress
        <4> QED
          BY <3>1, <4>2, <2>1 DEF Replay
      <3>2. CASE Cleanup(p)
        <4>1. \A r \in OwnReservation(q) :
                r \in requests /\ r \notin OwnReservation(p) /\ r.status = "in_progress"
          BY <1>d, <1>e, <2>2 DEF OwnReservation, InProgress
        <4> QED
          BY <3>2, <4>1, <2>1 DEF Cleanup
      <3> QED
        BY <1>3, <3>1, <3>2
    <2> QED
      BY <1>a, <2>1, <2>2, <1>b DEF HolderKeepsReservation, TypeOK, Kind
  <1>4. ASSUME NEW p \in Calls, CommitSave(p), UNCHANGED <<req, session, rid>>,
               Goto(p, "unlocking") \/ Goto(p, "failing")
        PROVE  HolderKeepsReservation'
    <2>1. PICK r \in OwnReservation(p) :
            requests' = (requests \ {r}) \cup {Completed(r, outcome[p])}
      BY <1>4 DEF CommitSave
    <2>2. ASSUME NEW q \in Calls, Holds(q), q # p
          PROVE  Safe(q)
      <3>1. \A s \in OwnReservation(q) : s \in requests /\ s # r /\ s.status = "in_progress"
        BY <1>d, <1>e, <2>2, <2>1 DEF OwnReservation, InProgress
      <3> QED
        BY <1>4, <2>1, <3>1
    <2>3. pc[p] = "evaluated"
      BY <1>4 DEF CommitSave
    <2> QED
      BY <1>4, <1>a, <2>2, <2>3, <1>b DEF HolderKeepsReservation, TypeOK, Kind
  <1>5. ASSUME NEW p \in Calls, pc[p] = "admitted", NEW i \in NewId(p), CommitStart(p, i),
               NEW q \in Calls, Holds(q), q # p, rid'[q] = rid[q]
        PROVE  Safe(q)
    <2>1. session[p] = "open" /\ ReadsHold(p)
      BY <1>5, <1>a DEF LockInv, AdmittedInv
    <2>2. \A s \in OwnReservation(q) :
            s \in requests /\ s.id \notin doomed[p] /\ s.status = "in_progress"
      BY <1>c, <1>5, <2>1 DEF OwnReservation, InProgress, ReadsHold
    <2>3. UNCHANGED req
      BY <1>5 DEF CommitStart
    <2> QED
      BY <1>5, <1>a, <2>2, <2>3, StartRows
  <1>6. ASSUME NEW p \in Calls, Start(p)
        PROVE  HolderKeepsReservation'
    <2>1. PICK i \in NewId(p) : CommitStart(p, i) /\ rid' = [rid EXCEPT ![p] = i]
      BY <1>6 DEF Start
    <2>2. /\ pc[p] = "admitted" /\ pc' = [pc EXCEPT ![p] = "executing"]
          /\ UNCHANGED <<session, req>>
      BY <1>6, <2>1 DEF Start, CommitStart
    <2>3. Kind(p) = "submit" => OwnReservation(p)' # {}
      BY <1>a, <2>1, <2>2, StartRows DEF OwnReservation, InProgress, User, TypeOK
    <2>4. \A q \in Calls : q # p => rid'[q] = rid[q]
      BY <1>a, <2>1 DEF TypeOK
    <2> QED
      BY <1>a, <1>b, <1>5, <2>1, <2>2, <2>3, <2>4 DEF HolderKeepsReservation, TypeOK, Kind
  <1>7. ASSUME NEW p \in Calls, StartUnacked(p)
        PROVE  HolderKeepsReservation'
    <2>1. PICK i \in NewId(p) : CommitStart(p, i)
      BY <1>7 DEF StartUnacked
    <2>2. /\ pc[p] = "admitted" /\ pc' = [pc EXCEPT ![p] = "unlocking"]
          /\ session' = [session EXCEPT ![p] = "lost"] /\ UNCHANGED <<req, rid>>
      BY <1>7, <2>1 DEF StartUnacked, CommitStart
    <2> QED
      BY <1>a, <1>b, <1>5, <2>1, <2>2 DEF HolderKeepsReservation, TypeOK, Kind
  <1> QED
    BY <1>0, <1>1, <1>2, <1>3, <1>4, <1>6, <1>7
    DEF Next, Arrive, Step, Fault, Save, SaveUnacked, Raise, local

LEMMA OutcomeStep ==
  ASSUME IInv, [Next]_vars
  PROVE  OutcomeInv'
  <1> USE DEF Goto
  <1>a. /\ TypeOK /\ RequestInv /\ LockInv /\ ReservationInv /\ OutcomeInv
        /\ requests \subseteq SubmitRow
        /\ submissions = {AsSubmission(r) : r \in requests \ InProgress}
    BY DEF IInv, TypeOK, SavedExactlyOnce
  <1>0. CASE UNCHANGED vars
    BY <1>0, <1>a DEF OutcomeInv, HasScope, Kind, vars, local, tables
  <1>1. CASE Tick
    BY <1>1, <1>a DEF OutcomeInv, HasScope, Kind, Tick
  <1>2. ASSUME NEW p \in Calls, NEW q \in Request, Send(p, q)
        PROVE  OutcomeInv'
    BY <1>2, <1>a DEF OutcomeInv, HasScope, Kind, TypeOK, Send, tables
  <1>3. ASSUME NEW p \in Calls, RefuseBusy(p) \/ Unlock(p) \/ Crash(p)
        PROVE  OutcomeInv'
    <2>1. Return(p) /\ UNCHANGED submissions
      BY <1>3 DEF RefuseBusy, Unlock, Crash, tables
    <2> QED
      BY <1>a, <2>1 DEF Return, OutcomeInv, HasScope, Kind, TypeOK
  <1>4. ASSUME NEW p \in Calls,
               Acquire(p) \/ RefuseDuplicate(p) \/ RefuseCooldown(p) \/ Admit(p) \/ RunDone(p)
                 \/ StartFails(p)
        PROVE  OutcomeInv'
    BY <1>4, <1>a
    DEF OutcomeInv, HasScope, Kind, TypeOK, Acquire, TakeLock, RefuseDuplicate, RefuseCooldown,
        Admit, RunDone, StartFails, local, tables
  <1>5. ASSUME NEW p \in Calls, Replay(p)
        PROVE  OutcomeInv'
    <2>1. PICK r \in Found(p) :
            r.status = "completed" /\ outcome' = [outcome EXCEPT ![p] = r.result]
      BY <1>5 DEF Replay
    <2>2. /\ pc' = [pc EXCEPT ![p] = "unlocking"] /\ pc[p] = "locked"
          /\ UNCHANGED <<req, submissions>>
      BY <1>5 DEF Replay
    <2>3. AsSubmission(r) \in submissions
      BY <1>a, <2>1 DEF Found, InProgress
    <2>4. HasScope(AsSubmission(r), req[p]) /\ AsSubmission(r).result = r.result
      BY <2>1 DEF AsSubmission, HasScope, Found
    <2>5. Kind(p) = "submit"
      <3>1. r.version \in Versions /\ r.version = req[p].version
        BY <1>a, <2>1 DEF Found, SubmitRow, HasScope
      <3>2. req[p] \in Request
        BY <1>a, <2>2 DEF RequestInv
      <3> QED
        BY <3>1, <3>2, NoneAssumption DEF Request, Kind
    <2> QED
      BY <1>a, <2>1, <2>2, <2>3, <2>4, <2>5 DEF OutcomeInv, TypeOK, HasScope, Kind
  <1>6. ASSUME NEW p \in Calls, NEW i \in NewId(p), CommitStart(p, i), pc[p] = "admitted",
               Goto(p, "executing") \/ Goto(p, "unlocking")
        PROVE  OutcomeInv'
    BY <1>6, <1>a DEF OutcomeInv, HasScope, Kind, TypeOK, CommitStart
  <1>7. ASSUME NEW p \in Calls, Evaluate(p)
        PROVE  OutcomeInv'
    BY <1>7, <1>a, NoneAssumption DEF OutcomeInv, HasScope, Kind, TypeOK, Evaluate, tables
  <1>8. ASSUME NEW p \in Calls, Save(p)
        PROVE  OutcomeInv'
    <2>1. /\ pc' = [pc EXCEPT ![p] = "unlocking"] /\ UNCHANGED <<req, outcome>>
          /\ pc[p] = "evaluated"
          /\ submissions' = submissions \cup {NewSubmission(p)}
      BY <1>8 DEF Save, CommitSave, local
    <2>2. HasScope(NewSubmission(p), req[p]) /\ NewSubmission(p).result = outcome[p]
      BY DEF NewSubmission, HasScope, User
    <2> QED
      BY <1>a, <2>1, <2>2 DEF OutcomeInv, TypeOK, HasScope, Kind
  <1>9. ASSUME NEW p \in Calls, BodyFails(p) \/ SaveUnacked(p) \/ SaveRejected(p)
        PROVE  OutcomeInv'
    <2>1. Raise(p) /\ submissions \subseteq submissions'
      BY <1>9 DEF BodyFails, SaveUnacked, CommitSave, SaveRejected
    <2> QED
      BY <1>a, <2>1 DEF Raise, OutcomeInv, TypeOK, HasScope, Kind
  <1>10. ASSUME NEW p \in Calls, Cleanup(p)
        PROVE  OutcomeInv'
    BY <1>10, <1>a DEF OutcomeInv, HasScope, Kind, TypeOK, Cleanup, local
  <1>11. ASSUME NEW p \in Calls, LoseConnection(p)
        PROVE  OutcomeInv'
    BY <1>11, <1>a DEF OutcomeInv, HasScope, Kind, TypeOK, LoseConnection, tables
  <1> QED
    BY <1>0, <1>1, <1>2, <1>3, <1>4, <1>5, <1>6, <1>7, <1>8, <1>9, <1>10, <1>11
    DEF Next, Arrive, Step, Fault, Start, StartUnacked

-----------------------------------------------------------------------------
(* The theorems *)

LEMMA Initially == Init => IInv
  <1> SUFFICES ASSUME Init
               PROVE  IInv
    OBVIOUS
  <1>1. TypeOK
    BY TimesAssumption DEF Init, TypeOK, Locations, Ages, Kinds
  <1>2. RequestInv /\ LockInv /\ AdmittedInv /\ ReservationInv /\ OutcomeInv
    BY DEF Init, RequestInv, LockInv, AdmittedInv, ReservationInv, OutcomeInv
  <1>3. RequestKeysUnique /\ HolderKeepsReservation /\ SavedExactlyOnce
    BY DEF Init, RequestKeysUnique, HolderKeepsReservation, SavedExactlyOnce, InProgress
  <1> QED
    BY <1>1, <1>2, <1>3 DEF IInv

LEMMA Inductive == IInv /\ [Next]_vars => IInv'
  BY TypeStep, LockStep, AdmittedStep, ReservationStep, KeysStep, SavedStep, HolderStep,
     OutcomeStep DEF IInv

THEOREM Invariance == Spec => []IInv
  BY Initially, Inductive, PTL DEF Spec

\* The tables and the handlers' local state stay well typed; with it, a stored
\* or delivered result is always one an evaluation produced.
THEOREM TypeCorrect == Spec => []TypeOK
  BY Invariance, PTL DEF IInv

\* No two reservations share a (user, version, key) or an id, so the INSERT of a
\* reservation never meets uq_application_submit_requests_scope_key.
THEOREM KeysUnique == Spec => []RequestKeysUnique
  BY Invariance, PTL DEF IInv

\* A Submit whose lock session is alive finds its reservation when it saves,
\* however long it ran and whatever other calls purged in the meantime.
THEOREM HolderSafe == Spec => []HolderKeepsReservation
  BY Invariance, PTL DEF IInv

\* Submissions and completed reservations are one and the same, one per scope,
\* through any number of crashes, lost connections and lost commit answers.
THEOREM ExactlyOnce == Spec => []SavedExactlyOnce
  BY Invariance, PTL DEF IInv

\* The cooldown read at the start of the transaction still stands at its commit.
THEOREM Cooldowns == Spec => CooldownHonoured
  <1>1. ASSUME IInv, [Next]_vars, NEW p \in Calls, pc[p] = "admitted"
        PROVE  CooledDown(p)
    BY <1>1 DEF IInv, AdmittedInv, ReadsHold
  <1>2. IInv /\ [Next]_vars
          => [\A p \in Calls : pc[p] = "admitted" /\ pc'[p] = "executing" => CooledDown(p)]_vars
    BY <1>1
  <1> QED
    BY <1>2, Invariance, PTL DEF Spec, CooldownHonoured

\* A reservation leaves the table only when it is stale or when the call that
\* made it fails: no other player, call or purge takes it away.
THEOREM Reservations == Spec => ReservationRespected
  <1> DEFINE Respected ==
        \A r \in InProgress :
          (\A s \in requests' : s.id # r.id) =>
            \/ r.age >= StaleAfter
            \/ \E p \in Calls : pc[p] = "failing" /\ rid[p] = r.id
  <1>1. ASSUME IInv, Next
        PROVE  Respected
    <2>a. /\ TypeOK /\ RequestInv /\ AdmittedInv /\ ReservationInv /\ OutcomeInv
      BY <1>1 DEF IInv
    <2>1. CASE Tick
      BY <2>1, <2>a, TickRows DEF InProgress
    <2>2. ASSUME NEW p \in Calls, Replay(p)
          PROVE  Respected
      BY <2>2 DEF Replay, Stale, InProgress
    <2>3. ASSUME NEW p \in Calls, pc[p] = "admitted", NEW i \in NewId(p), CommitStart(p, i)
          PROVE  Respected
      <3>1. \A r \in requests : r.id \in doomed[p] => r.age >= StaleAfter
        BY <2>3, <2>a DEF AdmittedInv, ReadsHold
      <3>2. \A r \in requests : r.id \notin doomed[p] => r \in requests'
        BY <2>3, <2>a, StartRows
      <3> QED
        BY <3>1, <3>2 DEF InProgress
    <2>4. ASSUME NEW p \in Calls, CommitSave(p)
          PROVE  Respected
      <3>1. PICK r \in OwnReservation(p) :
              requests' = (requests \ {r}) \cup {Completed(r, outcome[p])}
        BY <2>4 DEF CommitSave
      <3>2. Completed(r, outcome[p]).id = r.id
        BY DEF Completed
      <3>3. \A s \in InProgress : s \in requests' \/ s = r
        BY <3>1 DEF InProgress
      <3> QED
        BY <3>1, <3>2, <3>3
    <2>5. ASSUME NEW p \in Calls, Cleanup(p)
          PROVE  Respected
      BY <2>5 DEF Cleanup, OwnReservation, InProgress
    <2>6. ASSUME NEW p \in Calls,
                 \/ \E q \in Request : Send(p, q)
                 \/ Acquire(p) \/ RefuseBusy(p) \/ RefuseDuplicate(p) \/ RefuseCooldown(p)
                 \/ Admit(p) \/ StartFails(p) \/ RunDone(p) \/ Evaluate(p)
                 \/ BodyFails(p) \/ SaveRejected(p)
                 \/ Unlock(p) \/ LoseConnection(p) \/ Crash(p)
          PROVE  Respected
      <3>1. UNCHANGED requests
        BY <2>6
        DEF Send, Acquire, TakeLock, RefuseBusy, RefuseDuplicate, RefuseCooldown, Admit,
            StartFails, RunDone,
            Evaluate, BodyFails, Raise, SaveRejected, Unlock, LoseConnection, Crash, tables
      <3> QED
        BY <3>1 DEF InProgress
    <2> QED
      BY <1>1, <2>1, <2>2, <2>3, <2>4, <2>5, <2>6
      DEF Next, Arrive, Step, Fault, Start, StartUnacked, Save, SaveUnacked
  <1>2. IInv /\ [Next]_vars => [Respected]_vars
    BY <1>1
  <1> QED
    BY <1>2, Invariance, PTL DEF Spec, ReservationRespected

\* The guard keeps the promise of an idempotency key: at most one result per
\* (user, version, key) is ever recorded, and every answer given is that result.
THEOREM Promised == Spec => KeepsPromise
  <1> DEFINE Entry(s) == [user |-> s.user, version |-> s.version, key |-> s.key,
                          result |-> s.result]
  <1>1. Init => Promise!Init
    BY DEF Init, Promise!Init, Recorded
  <1>2. ASSUME IInv, [Next]_vars
        PROVE  [Promise!Next]_Promise!vars
    <2>a. /\ TypeOK /\ RequestInv /\ ReservationInv /\ OutcomeInv /\ RequestKeysUnique
          /\ submissions = {AsSubmission(r) : r \in requests \ InProgress}
      BY <1>2 DEF IInv, SavedExactlyOnce
    <2>1. ASSUME UNCHANGED <<submissions, delivered>>
          PROVE  UNCHANGED Promise!vars
      BY <2>1 DEF Promise!vars, Recorded
    <2>2. ASSUME NEW p \in Calls, CommitSave(p), UNCHANGED delivered
          PROVE  Promise!Next
      <3>1. PICK r \in OwnReservation(p) : HasScope(r, req[p])
        BY <2>2, <2>a, SaveRows
      <3>2. NewSubmission(p) \in Submission /\ outcome[p] \in Results
        BY <2>2, <2>a, SaveRows
      <3>3. Entry(NewSubmission(p)) \in Answer
        BY <3>2 DEF Submission, Answer
      <3>4. Recorded' = Recorded \cup {Entry(NewSubmission(p))}
        BY <2>2 DEF CommitSave, Recorded
      <3>5. ASSUME NEW d \in Recorded
            PROVE  ~Promise!SameScope(d, Entry(NewSubmission(p)))
        <4>1. PICK c \in requests \ InProgress : d = Entry(AsSubmission(c))
          BY <2>a DEF Recorded
        <4>2. SUFFICES ASSUME HasScope(c, r)
                       PROVE  FALSE
          BY <3>1, <4>1 DEF Promise!SameScope, AsSubmission, NewSubmission, HasScope, User
        <4> QED
          BY <2>a, <4>2 DEF RequestKeysUnique, OwnReservation, InProgress
      <3>6. Promise!Record(Entry(NewSubmission(p)))
        BY <2>2, <3>4, <3>5 DEF Promise!Record
      <3> QED
        BY <3>3, <3>6 DEF Promise!Next
    <2>3. ASSUME NEW p \in Calls, Unlock(p)
          PROVE  [Promise!Next]_Promise!vars
      <3>1. UNCHANGED submissions /\ Deliver(p) /\ pc[p] = "unlocking"
        BY <2>3 DEF Unlock, tables
      <3>2. CASE outcome[p] = None
        BY <3>1, <3>2, <2>1 DEF Deliver
      <3>3. CASE outcome[p] # None
        <4> DEFINE e == [user |-> User(p), version |-> req[p].version, key |-> req[p].key,
                         result |-> outcome[p]]
        <4>1. delivered' = delivered \cup {e}
          BY <3>1, <3>3 DEF Deliver
        <4>2. PICK s \in submissions : HasScope(s, req[p]) /\ s.result = outcome[p]
          BY <3>1, <3>3, <2>a DEF OutcomeInv
        <4>3. e = Entry(s)
          BY <4>2 DEF HasScope, User
        <4>4. e \in Recorded
          BY <4>3 DEF Recorded
        <4>5. e \in Answer
          BY <4>3, <2>a DEF TypeOK, Submission, Answer
        <4>6. UNCHANGED Recorded
          BY <3>1 DEF Recorded
        <4> QED
          BY <4>1, <4>4, <4>5, <4>6 DEF Promise!Answer, Promise!Next
      <3> QED
        BY <3>2, <3>3
    <2>4. ASSUME NEW p \in Calls,
                 \/ \E q \in Request : Send(p, q)
                 \/ Acquire(p) \/ RefuseBusy(p)
                 \/ Replay(p) \/ RefuseDuplicate(p) \/ RefuseCooldown(p) \/ Admit(p)
                 \/ Start(p) \/ StartUnacked(p)
                 \/ StartFails(p) \/ RunDone(p) \/ Evaluate(p) \/ BodyFails(p) \/ SaveRejected(p)
                 \/ Cleanup(p) \/ LoseConnection(p) \/ Crash(p)
          PROVE  UNCHANGED <<submissions, delivered>>
      BY <2>4
      DEF Send, Acquire, TakeLock, RefuseBusy, Replay, RefuseDuplicate, RefuseCooldown, Admit,
          Start, StartUnacked, CommitStart, StartFails, RunDone, Evaluate, BodyFails, Raise,
          SaveRejected,
          Cleanup, LoseConnection, Crash, tables
    <2>5. UNCHANGED vars \/ Tick => UNCHANGED <<submissions, delivered>>
      BY DEF vars, tables, Tick
    <2> QED
      BY <1>2, <2>1, <2>2, <2>3, <2>4, <2>5
      DEF Next, Arrive, Step, Fault, Save, SaveUnacked, Raise
  <1>3. IInv /\ [Next]_vars => [Promise!Next]_Promise!vars
    BY <1>2
  <1> QED
    BY <1>1, <1>3, Invariance, PTL DEF Spec, KeepsPromise, Promise!Spec
=============================================================================
