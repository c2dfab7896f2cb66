---------------------------- MODULE Progression ----------------------------
(***************************************************************************)
(* PostgresSubmissionRepository._save: the transaction that makes an       *)
(* authoritative submission count.  It locks the player's users row, reads *)
(* the progress row and the awarded milestones, writes, sums the ledger    *)
(* and commits; each is a statement of its own at READ COMMITTED, and      *)
(* other saves and the reader of the player's summary run in between.      *)
(*                                                                         *)
(* A save is one attempt: its verdict (final score, stars, the difficulty  *)
(* of the version it was judged against) and its created_at are fixed      *)
(* before the transaction starts, and before it waits for the lock.        *)
(* What an open transaction has written is its own (draft, awards) until   *)
(* it commits.                                                             *)
(***************************************************************************)
EXTENDS ProgressionPolicy, FiniteSets, FiniteSetsExt

CONSTANTS
  Saves,        \* attempts, each with the id of its submission
  Readers,      \* GET /me/progress requests
  Users, Challenges,
  Verdicts,     \* the [score, stars, difficulty] an evaluation can yield
  MaxClock      \* bound on the clock

Times == 0..MaxClock

ASSUME SavesAssumption ==
  /\ Verdicts \subseteq [score : Scores, stars : Stars, difficulty : Difficulties]
  /\ MaxClock \in Nat

\* The challenges are the rows of a table.
ASSUME ChallengesAssumption == IsFiniteSet(Challenges)

VARIABLES
  pc,         \* pc[s]: the last statement of save s that has answered
  job,        \* job[s]: its submission
  seen,       \* seen[s]: the progress row it read
  draft,      \* draft[s]: the progress row it has written, uncommitted
  awards,     \* awards[s]: the reasons of the XP rows it has written, uncommitted
  total,      \* total[s]: the XP total it read, which its answer carries
  owner,      \* owner[u]: the save that holds the lock on u's users row
  progress,   \* user_progress, by <<user, challenge>>
  ledger,     \* xp_transactions
  counted,    \* submissions
  view,       \* view[r]: what reader r has read
  clock

saver == <<job, seen, draft, awards, total>>
tables == <<progress, ledger, counted>>
vars == <<pc, saver, owner, tables, view, clock>>

-----------------------------------------------------------------------------

Rows == Users \X Challenges

Locations == {"new", "judged", "locked", "read", "written", "summed", "saved", "failed"}

Job == [user : Users, challenge : Challenges, score : Scores, stars : Stars,
        difficulty : Difficulties, at : Times]

Progress == [best : Saves, score : Scores, stars : Stars, attempts : Nat,
             completed : Times \cup {None}]

ASSUME NoneAssumption == None \notin Saves \cup Times \cup Progress

XPRow == [user : Users, challenge : Challenges, reason : Reasons, submission : Saves]

Row(s) == <<job[s].user, job[s].challenge>>

Paid(rows, u, c) == {x.reason : x \in {y \in rows : y.user = u /\ y.challenge = c}}

\* The XP rows that s has written.
Award(s, r) ==
  [user |-> job[s].user, challenge |-> job[s].challenge, reason |-> r, submission |-> s]

Awarded(s) == {Award(s, r) : r \in awards[s]}

Of(rows, u) == {x \in rows : x.user = u}

\* Mutant: SUM(DISTINCT amount).
DistinctXP(rows) == SumSet({Rewards[x.reason] : x \in rows})

SumOfXP(rows) == MapThenSumSet(LAMBDA x : Rewards[x.reason], rows)

TotalXP(rows, u) == SumOfXP(Of(rows, u))

Nothing == [stage |-> "start", user |-> None, rows |-> None, total |-> 0]

Init ==
  /\ pc = [s \in Saves |-> "new"]
  /\ job = [s \in Saves |-> None]
  /\ seen = [s \in Saves |-> None]
  /\ draft = [s \in Saves |-> None]
  /\ awards = [s \in Saves |-> {}]
  /\ total = [s \in Saves |-> 0]
  /\ owner = [u \in Users |-> None]
  /\ progress = [k \in Rows |-> None]
  /\ ledger = {}
  /\ counted = {}
  /\ view = [r \in Readers |-> Nothing]
  /\ clock = 0

Goto(s, location) == pc' = [pc EXCEPT ![s] = location]

-----------------------------------------------------------------------------
(* One save *)

\* The hidden evaluation and the scoring are over: created_at is taken now.
Judge(s) ==
  /\ pc[s] = "new"
  /\ \E u \in Users, c \in Challenges, v \in Verdicts :
       job' = [job EXCEPT ![s] =
                 [user |-> u, challenge |-> c, score |-> v.score, stars |-> v.stars,
                  difficulty |-> v.difficulty, at |-> clock]]
  /\ Goto(s, "judged")
  /\ UNCHANGED <<seen, draft, awards, total, owner, tables, view, clock>>

TakeRow(s) ==
  /\ owner' = [owner EXCEPT ![job[s].user] = s]
  /\ Goto(s, "locked")
  /\ UNCHANGED <<saver, tables, view, clock>>

\* Mutant: SELECT without FOR UPDATE.
LockNothing(s) == pc[s] = "judged" /\ TakeRow(s)

\* SELECT ... FROM users ... FOR UPDATE waits for the transaction that holds it.
LockOwner(s) ==
  /\ pc[s] = "judged"
  /\ owner[job[s].user] = None
  /\ TakeRow(s)

\* The submission is inserted and the progress row read.
ReadProgress(s) ==
  /\ pc[s] = "locked"
  /\ seen' = [seen EXCEPT ![s] = progress[Row(s)]]
  /\ Goto(s, "read")
  /\ UNCHANGED <<job, draft, awards, total, owner, tables, view, clock>>

\* The awarded milestones are read, and the policy's results written.
Write(s) ==
  /\ pc[s] = "read"
  /\ draft' = [draft EXCEPT ![s] =
                 UpdateProgress(s, job[s].score, job[s].stars, job[s].at, seen[s])]
  /\ awards' = [awards EXCEPT ![s] =
                  NewAwards(job[s].stars, job[s].difficulty,
                            Paid(ledger, job[s].user, job[s].challenge))]
  /\ Goto(s, "written")
  /\ UNCHANGED <<job, seen, total, owner, tables, view, clock>>

\* Mutant: the total is read before the flush of the new XP rows.
SumBeforeFlush(s) ==
  /\ pc[s] = "written"
  /\ total' = [total EXCEPT ![s] = TotalXP(ledger, job[s].user)]
  /\ Goto(s, "summed")
  /\ UNCHANGED <<job, seen, draft, awards, owner, tables, view, clock>>

\* The sum includes the transaction's own rows.
SumXP(s) ==
  /\ pc[s] = "written"
  /\ total' = [total EXCEPT ![s] = TotalXP(ledger \cup Awarded(s), job[s].user)]
  /\ Goto(s, "summed")
  /\ UNCHANGED <<job, seen, draft, awards, owner, tables, view, clock>>

\* The transaction's lock and its uncommitted work end with it.
FreeRow(s) == owner' = [owner EXCEPT ![job[s].user] = None]

Forget(s) ==
  /\ seen' = [seen EXCEPT ![s] = None]
  /\ draft' = [draft EXCEPT ![s] = None]
  /\ awards' = [awards EXCEPT ![s] = {}]
  /\ total' = [total EXCEPT ![s] = 0]

\* Mutant: the lock outlives the transaction.
CommitKeepsLock(s) ==
  /\ pc[s] = "summed"
  /\ progress' = [progress EXCEPT ![Row(s)] = draft[s]]
  /\ ledger' = ledger \cup Awarded(s)
  /\ counted' = counted \cup {s}
  /\ Forget(s)
  /\ Goto(s, "saved")
  /\ UNCHANGED <<job, owner, view, clock>>

Commit(s) ==
  /\ pc[s] = "summed"
  /\ progress' = [progress EXCEPT ![Row(s)] = draft[s]]
  /\ ledger' = ledger \cup Awarded(s)
  /\ counted' = counted \cup {s}
  /\ FreeRow(s)
  /\ Forget(s)
  /\ Goto(s, "saved")
  /\ UNCHANGED <<job, view, clock>>

\* Mutant: the XP rows are written in a transaction of their own.
RollbackKeepsXP(s) ==
  /\ pc[s] \in {"written", "summed"}
  /\ ledger' = ledger \cup Awarded(s)
  /\ FreeRow(s)
  /\ Forget(s)
  /\ job' = [job EXCEPT ![s] = None]
  /\ Goto(s, "failed")
  /\ UNCHANGED <<progress, counted, view, clock>>

\* A statement fails, the reservation is gone, the worker dies: nothing of the
\* transaction remains.
Rollback(s) ==
  /\ pc[s] \in {"judged", "locked", "read", "written", "summed"}
  /\ IF pc[s] = "judged" THEN UNCHANGED owner ELSE FreeRow(s)
  /\ Forget(s)
  /\ job' = [job EXCEPT ![s] = None]
  /\ Goto(s, "failed")
  /\ UNCHANGED <<tables, view, clock>>

-----------------------------------------------------------------------------
(* The summary of a player's progress: two statements, and a commit between  *)
(* them is visible to the second.                                            *)

SummaryRows(r) ==
  /\ view[r].stage = "start"
  /\ \E u \in Users :
       view' = [view EXCEPT ![r] = [stage |-> "rows", user |-> u, total |-> 0,
                                    rows |-> [c \in Challenges |-> progress[<<u, c>>]]]]
  /\ UNCHANGED <<pc, saver, owner, tables, clock>>

SummaryTotal(r) ==
  /\ view[r].stage = "rows"
  /\ view' = [view EXCEPT ![r].stage = "done",
                          ![r].total = TotalXP(ledger, view[r].user)]
  /\ UNCHANGED <<pc, saver, owner, tables, clock>>

Tick ==
  /\ clock < MaxClock
  /\ clock' = clock + 1
  /\ UNCHANGED <<pc, saver, owner, tables, view>>

-----------------------------------------------------------------------------

Step(s) == LockOwner(s) \/ ReadProgress(s) \/ Write(s) \/ SumXP(s) \/ Commit(s)

Next ==
  \/ Tick
  \/ \E s \in Saves : Judge(s) \/ Step(s) \/ Rollback(s)
  \/ \E r \in Readers : SummaryRows(r) \/ SummaryTotal(r)

Spec == Init /\ [][Next]_vars

\* A transaction that has been started is driven on by its request handler, and
\* PostgreSQL hands a freed row lock to a waiter.
FairSpec == Spec /\ \A s \in Saves : WF_vars(Step(s))

-----------------------------------------------------------------------------
(* Properties *)

Read == [stage : {"start", "rows", "done"}, user : Users \cup {None}, total : Nat,
         rows : [Challenges -> Progress \cup {None}] \cup {None}]

SavesOK ==
  /\ pc \in [Saves -> Locations]
  /\ job \in [Saves -> Job \cup {None}]
  /\ seen \in [Saves -> Progress \cup {None}]
  /\ draft \in [Saves -> Progress \cup {None}]
  /\ awards \in [Saves -> SUBSET Reasons]
  /\ owner \in [Users -> Saves \cup {None}]
  /\ progress \in [Rows -> Progress \cup {None}]
  /\ ledger \subseteq XPRow
  /\ counted \subseteq Saves
  /\ clock \in Times

TypeOK ==
  /\ SavesOK
  /\ total \in [Saves -> Nat]
  /\ view \in [Readers -> Read]

\* No milestone of a challenge is ever paid twice to a player: concurrent saves
\* that reach it together never meet uq_xp_milestone_user_challenge_reason.
MilestonesPaidOnce ==
  \A x, y \in ledger :
    x.user = y.user /\ x.challenge = y.challenge /\ x.reason = y.reason => x = y

\* What progress p on a challenge and the milestones paid for it have to do with
\* each other.
Matches(p, paid) ==
  IF p = None
  THEN paid = {}
  ELSE /\ "two_star" \in paid <=> p.stars >= 2 /\ Rewards["two_star"] > 0
       /\ "three_star" \in paid <=> p.stars >= 3 /\ Rewards["three_star"] > 0
       /\ p.completed # None <=> p.stars >= 1
       /\ paid # {} => p.stars >= 1
       /\ p.stars >= 1 =>
            \E d \in Difficulties : \A r \in CompletionReasons(d) : Rewards[r] > 0 => r \in paid

\* The ledger and the progress row of a challenge tell the same story: what the
\* best stars deserve has been paid, and nothing else.
LedgerMatchesProgress ==
  \A u \in Users, c \in Challenges : Matches(progress[<<u, c>>], Paid(ledger, u, c))

\* A progress row is the exact summary of the submissions that count, however
\* their saves overlapped: none is lost and none counts twice.
ProgressMatchesSubmissions ==
  \A k \in Rows :
    LET mine == {s \in counted : Row(s) = k}
        passing == {s \in mine : job[s].stars >= 1}
    IN  IF mine = {}
        THEN progress[k] = None
        ELSE /\ progress[k] # None
             /\ progress[k].attempts = Cardinality(mine)
             /\ progress[k].best \in mine
             /\ progress[k].score = job[progress[k].best].score
             /\ \A s \in mine : job[s].score <= progress[k].score
             /\ progress[k].stars = Max({job[s].stars : s \in mine})
             /\ progress[k].completed \in
                  IF passing = {} THEN {None} ELSE {job[s].at : s \in passing}

\* A player never loses anything: bests only rise, the best submission gives
\* way only to a strictly better score, and completion is stamped once.
ProgressNeverLost ==
  [][\A k \in Rows :
       LET old == progress[k]  new == progress'[k]
       IN  old # None =>
             /\ new # None
             /\ new.score >= old.score /\ new.stars >= old.stars
             /\ new.attempts >= old.attempts
             /\ new.best # old.best => new.score > old.score
             /\ old.completed # None => new.completed = old.completed]_vars

\* The total a Submit answers with is the player's total at the moment the
\* Submit counts, though it was summed a statement earlier.
TotalAtCommit ==
  [][\A s \in Saves :
       s \in counted' \ counted => total[s] = TotalXP(ledger', job[s].user)]_vars

\* The least XP that a summary's rows stand for.
Implied(rows) ==
  LET worth(c) ==
        IF rows[c] = None THEN 0
        ELSE (IF rows[c].stars >= 1
              THEN Min({Rewards["first_completion"], Rewards["boss_completion"]}) ELSE 0)
             + (IF rows[c].stars >= 2 THEN Rewards["two_star"] ELSE 0)
             + (IF rows[c].stars >= 3 THEN Rewards["three_star"] ELSE 0)
  IN  MapThenSumSet(worth, Challenges)

\* A summary read in the middle of a save may show XP before the stars it was
\* paid for, never stars without their XP.
SummaryNeverUnderstates ==
  \A r \in Readers : view[r].stage = "done" => view[r].total >= Implied(view[r].rows)

\* Saves that overlap have the effect of saves that run one after the other.
Serial == INSTANCE SerialProgression

SavesAreSerial == Serial!Spec

\* A save that has begun ends: nobody waits for ever on a users row.
SavesEnd == \A s \in Saves : pc[s] = "judged" ~> pc[s] \in {"saved", "failed"}

\* PRODUCT.md: the boss milestone "replaces normal first-completion XP".
BossReplacesFirst ==
  BossReplaces =>
    \A u \in Users, c \in Challenges :
      ~({"boss_completion", "first_completion"} \subseteq Paid(ledger, u, c))
=============================================================================
