------------------------- MODULE Progression_proofs -------------------------
(***************************************************************************)
(* Proofs about Progression, for any number of saves, players, challenges, *)
(* verdicts and any rewards.  The argument is two-phase locking in small:  *)
(* a save whose transaction is open owns its player's row (OpenInv), so    *)
(* whatever it has read of that player still stands (ReadsInv), and its    *)
(* commit is one step of SerialProgression.                                *)
(***************************************************************************)
EXTENDS Progression, FiniteFolds

Open == {"locked", "read", "written", "summed"}

\* An open transaction owns its player's row; a save counts when it has committed.
OpenInv ==
  \A s \in Saves :
    /\ pc[s] \in Open \cup {"judged", "saved"} => job[s] \in Job
    /\ pc[s] \in Open => owner[job[s].user] = s
    /\ s \in counted <=> pc[s] = "saved"

ReadsStand(s) ==
  /\ pc[s] \in {"read", "written", "summed"} => seen[s] = progress[Row(s)]
  /\ pc[s] \in {"written", "summed"} =>
       /\ draft[s] = UpdateProgress(s, job[s].score, job[s].stars, job[s].at, progress[Row(s)])
       /\ awards[s] = NewAwards(job[s].stars, job[s].difficulty,
                                Paid(ledger, job[s].user, job[s].challenge))
  /\ pc[s] = "summed" => total[s] = TotalXP(ledger \cup Awarded(s), job[s].user)

\* What an open transaction has read is still in the tables.
ReadsInv ==
  /\ total = [s \in Saves |-> total[s]]
  /\ \A s \in Saves : ReadsStand(s)

\* There is XP in paid for every star of p.
Backs(p, paid) ==
  p # None =>
    /\ p.stars >= 2 /\ Rewards["two_star"] > 0 => "two_star" \in paid
    /\ p.stars >= 3 /\ Rewards["three_star"] > 0 => "three_star" \in paid
    /\ p.stars >= 1 =>
         \E d \in Difficulties : \A r \in CompletionReasons(d) : Rewards[r] > 0 => r \in paid

\* The rows that a summary has read stay backed by the ledger it will sum.
ViewHolds(r) ==
  /\ view[r].stage # "start" =>
       view[r].user \in Users /\ view[r].rows \in [Challenges -> Progress \cup {None}]
  /\ view[r].stage = "rows" =>
       \A c \in Challenges : Backs(view[r].rows[c], Paid(ledger, view[r].user, c))
  /\ view[r].stage = "done" => view[r].total >= Implied(view[r].rows)

\* Only finitely many saves have been made, so there are sums and counts.
SumsInv ==
  /\ IsFiniteSet(ledger) /\ IsFiniteSet(counted)
  /\ total \in [Saves -> Nat]
  /\ view \in [Readers -> Read]
  /\ \A r \in Readers : ViewHolds(r)

IInv ==
  /\ SavesOK
  /\ OpenInv
  /\ ReadsInv
  /\ MilestonesPaidOnce
  /\ LedgerMatchesProgress
  /\ ProgressMatchesSubmissions
  /\ SumsInv

-----------------------------------------------------------------------------
(* The policy *)

LEMMA JobFields ==
  ASSUME NEW j \in Job
  PROVE  /\ j.user \in Users /\ j.challenge \in Challenges /\ j.score \in Scores
         /\ j.stars \in Stars /\ j.difficulty \in Difficulties /\ j.at \in Times
         /\ <<j.user, j.challenge>> \in Rows
  BY DEF Job, Rows

\* A verdict turns a progress row into a progress row that is nowhere worse.
LEMMA ProgressUpdated ==
  ASSUME NEW id \in Saves, NEW score \in Scores, NEW stars \in Stars, NEW at \in Times,
         NEW old \in Progress \cup {None}
  PROVE  LET new == UpdateProgress(id, score, stars, at, old)
         IN  /\ new \in Progress
             /\ new # None
             /\ old = None => new.stars = stars
             /\ old # None => /\ new.score >= old.score /\ new.stars >= old.stars
                              /\ new.attempts >= old.attempts
                              /\ new.best # old.best => new.score > old.score
                              /\ new.stars = Better(old.stars, stars)
                              /\ old.completed # None => new.completed = old.completed
             /\ new.completed # None <=> stars >= 1 \/ (old # None /\ old.completed # None)
  <1> USE PolicyAssumption, SavesAssumption, NoneAssumption DEF Stars, Times
  <1>1. CASE old = None
    BY <1>1 DEF UpdateProgress, Progress
  <1>2. CASE old # None
    <2>1. /\ old \in Progress /\ old.best \in Saves /\ old.score \in Scores /\ old.stars \in Stars
          /\ old.attempts \in Nat /\ old.completed \in Times \cup {None}
          /\ old.score \in Nat /\ score \in Nat
      BY <1>2 DEF Progress
    <2>2. /\ Better(old.score, score) \in Scores /\ Better(old.score, score) >= old.score
          /\ Better(old.stars, stars) \in Stars /\ Better(old.stars, stars) >= old.stars
          /\ score > old.score => Better(old.score, score) > old.score
      BY <2>1 DEF Better
    <2>3. UpdateProgress(id, score, stars, at, old) =
            [best |-> IF score > old.score THEN id ELSE old.best,
             score |-> Better(old.score, score),
             stars |-> Better(old.stars, stars),
             attempts |-> old.attempts + 1,
             completed |-> IF old.completed = None /\ stars >= 1 THEN at ELSE old.completed]
      BY <1>2 DEF UpdateProgress
    <2> QED
      BY <1>2, <2>1, <2>2, <2>3 DEF Progress
  <1> QED
    BY <1>1, <1>2

LEMMA AwardsPaid ==
  ASSUME NEW id \in Saves, NEW score \in Scores, NEW stars \in Stars, NEW at \in Times,
         NEW difficulty \in Difficulties, NEW old \in Progress \cup {None},
         NEW paid \in SUBSET Reasons, Matches(old, paid)
  PROVE  Matches(UpdateProgress(id, score, stars, at, old),
                 paid \cup NewAwards(stars, difficulty, paid))
  <1> DEFINE new == UpdateProgress(id, score, stars, at, old)
             all == paid \cup NewAwards(stars, difficulty, paid)
  <1>1. /\ new \in Progress /\ new # None
        /\ old = None => new.stars = stars
        /\ old # None => new.stars = Better(old.stars, stars) /\ old.stars \in 0..3
        /\ new.completed # None <=> stars >= 1 \/ (old # None /\ old.completed # None)
        /\ stars \in 0..3
    BY ProgressUpdated DEF Stars, Progress
  <1>2. /\ all = paid \cup Earned(stars, difficulty)
        /\ all \subseteq Reasons
    BY DEF NewAwards, Earned
  <1>3. /\ "two_star" \in Earned(stars, difficulty) <=> stars >= 2 /\ Rewards["two_star"] > 0
        /\ "three_star" \in Earned(stars, difficulty) <=> stars >= 3 /\ Rewards["three_star"] > 0
        /\ Earned(stars, difficulty) # {} => stars >= 1
        /\ stars >= 1 => \A r \in CompletionReasons(difficulty) :
                           Rewards[r] > 0 => r \in Earned(stars, difficulty)
    BY <1>1 DEF Earned, Reasons, CompletionReasons
  <1>4. new.stars >= 2 <=> stars >= 2 \/ (old # None /\ old.stars >= 2)
    BY <1>1 DEF Better
  <1>5. new.stars >= 3 <=> stars >= 3 \/ (old # None /\ old.stars >= 3)
    BY <1>1 DEF Better
  <1>6. new.stars >= 1 <=> stars >= 1 \/ (old # None /\ old.stars >= 1)
    BY <1>1 DEF Better
  <1> HIDE DEF new, all
  <1>7. /\ "two_star" \in all <=> new.stars >= 2 /\ Rewards["two_star"] > 0
        /\ "three_star" \in all <=> new.stars >= 3 /\ Rewards["three_star"] > 0
    BY <1>2, <1>3, <1>4, <1>5 DEF Matches
  <1>8. new.completed # None <=> new.stars >= 1
    BY <1>1, <1>6 DEF Matches
  <1>9. all # {} => new.stars >= 1
    BY <1>2, <1>3, <1>6 DEF Matches
  <1>10. new.stars >= 1 =>
           \E d \in Difficulties : \A r \in CompletionReasons(d) : Rewards[r] > 0 => r \in all
    BY <1>2, <1>3, <1>6 DEF Matches
  <1>11. Matches(new, all)
    BY <1>1, <1>7, <1>8, <1>9, <1>10 DEF Matches
  <1> QED
    BY <1>11 DEF new, all

-----------------------------------------------------------------------------
(* Sums of XP *)

LEMMA XPAddsUp ==
  ASSUME NEW rows
  PROVE  SumOfXP(rows) = SumOver([x \in rows |-> Rewards[x.reason]], rows)
  <1> DEFINE W == [x \in rows |-> Rewards[x.reason]]
             Iterates(g) == g = [s \in SUBSET rows |->
                                   IF s = {} THEN 0
                                   ELSE Rewards[Some(s).reason] + g[s \ {Some(s)}]]
  <1>1. SumOfXP(rows) = (CHOOSE g : Iterates(g))[rows]
    BY DEF SumOfXP, MapThenSumSet, MapThenFoldSet, Some
  <1>2. \A g : Iterates(g) <=> AddsUp(g, W, rows)
    <2>1. \A s \in SUBSET rows : s # {} => Rewards[Some(s).reason] = W[Some(s)]
      BY SomeIn
    <2> HIDE DEF W
    <2> QED BY <2>1 DEF AddsUp
  <1> HIDE DEF W, Iterates
  <1>3. (CHOOSE g : Iterates(g)) = Adding(W, rows)
    BY <1>2 DEF Adding
  <1> QED
    BY <1>1, <1>3 DEF SumOver, W

LEMMA TotalType ==
  ASSUME NEW rows, rows \subseteq XPRow, IsFiniteSet(rows), NEW u
  PROVE  TotalXP(rows, u) \in Nat
  <1> DEFINE mine == Of(rows, u)
             V == [x \in mine |-> Rewards[x.reason]]
  <1>1. IsFiniteSet(mine)
    BY FS_Subset DEF Of
  <1>2. \A x \in mine : V[x] \in Nat
    BY PolicyAssumption DEF Of, XPRow
  <1>3. TotalXP(rows, u) = SumOver(V, mine)
    BY XPAddsUp DEF TotalXP
  <1> HIDE DEF V, mine
  <1> QED
    BY <1>1, <1>2, <1>3, SumOverType

\* What the stars of p stand for.
Worth(p) ==
  IF p = None THEN 0
  ELSE (IF p.stars >= 1
        THEN Min({Rewards["first_completion"], Rewards["boss_completion"]}) ELSE 0)
       + (IF p.stars >= 2 THEN Rewards["two_star"] ELSE 0)
       + (IF p.stars >= 3 THEN Rewards["three_star"] ELSE 0)

LEMMA ImpliedAddsUp ==
  ASSUME NEW rows
  PROVE  Implied(rows) = SumOver([c \in Challenges |-> Worth(rows[c])], Challenges)
  <1> DEFINE W == [c \in Challenges |-> Worth(rows[c])]
             Iterates(g) == g = [s \in SUBSET Challenges |->
                                   IF s = {} THEN 0
                                   ELSE Worth(rows[Some(s)]) + g[s \ {Some(s)}]]
  <1>1. Implied(rows) = (CHOOSE g : Iterates(g))[Challenges]
    BY DEF Implied, Worth, MapThenSumSet, MapThenFoldSet, Some
  <1>2. \A g : Iterates(g) <=> AddsUp(g, W, Challenges)
    <2>1. \A s \in SUBSET Challenges : s # {} => Worth(rows[Some(s)]) = W[Some(s)]
      BY SomeIn
    <2> HIDE DEF W
    <2> QED BY <2>1 DEF AddsUp
  <1> HIDE DEF W, Iterates
  <1>3. (CHOOSE g : Iterates(g)) = Adding(W, Challenges)
    BY <1>2 DEF Adding
  <1> QED
    BY <1>1, <1>3 DEF SumOver, W

LEMMA LesserReward ==
  LET m == Min({Rewards["first_completion"], Rewards["boss_completion"]})
  IN  m \in Nat /\ m <= Rewards["first_completion"] /\ m <= Rewards["boss_completion"]
  <1> DEFINE a == Rewards["first_completion"]
             b == Rewards["boss_completion"]
  <1>1. a \in Nat /\ b \in Nat
    BY PolicyAssumption DEF Reasons
  <1> HIDE DEF a, b
  <1>2. \E x \in {a, b} : \A y \in {a, b} : x <= y
    BY <1>1
  <1>3. Min({a, b}) \in {a, b} /\ \A y \in {a, b} : Min({a, b}) <= y
    BY <1>2 DEF Min
  <1>4. Min({a, b}) \in Nat /\ Min({a, b}) <= a /\ Min({a, b}) <= b
    BY <1>1, <1>3
  <1> QED
    BY <1>4 DEF a, b

\* Stars that the XP rows in part back are worth no more than these rows.
LEMMA WorthIsBacked ==
  ASSUME NEW p \in Progress \cup {None}, NEW part, IsFiniteSet(part), NEW V,
         \A x \in part : x.reason \in Reasons /\ V[x] = Rewards[x.reason],
         Backs(p, {x.reason : x \in part})
  PROVE  Worth(p) \in Nat /\ Worth(p) <= SumOver(V, part)
  <1> DEFINE A == {x \in part : x.reason \in {"first_completion", "boss_completion"}}
             B == {x \in part : x.reason = "two_star"}
             C == {x \in part : x.reason = "three_star"}
             m == Min({Rewards["first_completion"], Rewards["boss_completion"]})
             paid == {x.reason : x \in part}
  <1>1. \A x \in part : V[x] \in Nat
    BY PolicyAssumption
  <1>2. \A s \in SUBSET part : IsFiniteSet(s) /\ SumOver(V, s) \in Nat
    BY <1>1, FS_Subset, SumOverType
  <1>3. SumOver(V, part) = SumOver(V, A) + (SumOver(V, B) + SumOver(V, C))
    <2>1. /\ part = A \cup (B \cup C) /\ A \cap (B \cup C) = {} /\ B \cap C = {}
          /\ B \cup C \in SUBSET part
      BY DEF Reasons
    <2> HIDE DEF A, B, C
    <2>2. SumOver(V, part) = SumOver(V, A) + SumOver(V, B \cup C)
      BY <1>1, <1>2, <2>1, SumOverUnion
    <2>3. SumOver(V, B \cup C) = SumOver(V, B) + SumOver(V, C)
      BY <1>1, <1>2, <2>1, SumOverUnion
    <2> QED
      BY <2>2, <2>3
  <1>4. A \in SUBSET part /\ B \in SUBSET part /\ C \in SUBSET part
    OBVIOUS
  <1>5. \A s \in SUBSET part : \A x \in s : V[x] <= SumOver(V, s)
    BY <1>1, <1>2, SumOverMember
  <1>6. SumOver(V, A) \in Nat /\ SumOver(V, B) \in Nat /\ SumOver(V, C) \in Nat
    BY <1>2, <1>4
  <1>7. m \in Nat /\ m <= Rewards["first_completion"] /\ m <= Rewards["boss_completion"]
    BY LesserReward
  <1>8. Rewards["two_star"] \in Nat /\ Rewards["three_star"] \in Nat
    BY PolicyAssumption DEF Reasons
  <1> HIDE DEF m
  <1>9. CASE p = None
    <2>1. Worth(p) = 0
      BY <1>9 DEF Worth
    <2> QED
      BY <1>3, <1>6, <2>1
  <1>10. CASE p # None
    <2>1. p.stars \in 0..3
      BY <1>10 DEF Progress, Stars
    <2>2. p.stars >= 1 => m <= SumOver(V, A)
      <3> SUFFICES ASSUME p.stars >= 1 PROVE m <= SumOver(V, A)
        OBVIOUS
      <3>1. PICK d \in Difficulties : \A r \in CompletionReasons(d) : Rewards[r] > 0 => r \in paid
        BY <1>10 DEF Backs
      <3>2. PICK r \in CompletionReasons(d) : r \in {"first_completion", "boss_completion"}
        BY DEF CompletionReasons
      <3>3. m <= Rewards[r] /\ Rewards[r] \in Nat
        BY <1>7, <3>2, PolicyAssumption DEF Reasons
      <3>4. CASE Rewards[r] > 0
        <4>1. PICK x \in part : x.reason = r
          BY <3>1, <3>4
        <4>2. x \in A /\ V[x] = Rewards[r]
          BY <3>2, <4>1
        <4>3. Rewards[r] <= SumOver(V, A)
          <5> HIDE DEF A
          <5> QED BY <1>4, <1>5, <4>2
        <4> QED
          BY <1>6, <1>7, <3>3, <4>3
      <3>5. CASE ~(Rewards[r] > 0)
        BY <1>6, <1>7, <3>3, <3>5
      <3> QED
        BY <3>4, <3>5
    <2>3. p.stars >= 2 => Rewards["two_star"] <= SumOver(V, B)
      <3> SUFFICES ASSUME p.stars >= 2 PROVE Rewards["two_star"] <= SumOver(V, B)
        OBVIOUS
      <3>1. CASE Rewards["two_star"] > 0
        <4>1. PICK x \in part : x.reason = "two_star"
          BY <1>10, <3>1 DEF Backs
        <4>2. x \in B /\ V[x] = Rewards["two_star"]
          BY <4>1
        <4> HIDE DEF B
        <4> QED BY <1>4, <1>5, <4>2
      <3>2. CASE ~(Rewards["two_star"] > 0)
        BY <1>6, <1>8, <3>2
      <3> QED
        BY <3>1, <3>2
    <2>4. p.stars >= 3 => Rewards["three_star"] <= SumOver(V, C)
      <3> SUFFICES ASSUME p.stars >= 3 PROVE Rewards["three_star"] <= SumOver(V, C)
        OBVIOUS
      <3>1. CASE Rewards["three_star"] > 0
        <4>1. PICK x \in part : x.reason = "three_star"
          BY <1>10, <3>1 DEF Backs
        <4>2. x \in C /\ V[x] = Rewards["three_star"]
          BY <4>1
        <4> HIDE DEF C
        <4> QED BY <1>4, <1>5, <4>2
      <3>2. CASE ~(Rewards["three_star"] > 0)
        BY <1>6, <1>8, <3>2
      <3> QED
        BY <3>1, <3>2
    <2>5. Worth(p) = (IF p.stars >= 1 THEN m ELSE 0)
                     + (IF p.stars >= 2 THEN Rewards["two_star"] ELSE 0)
                     + (IF p.stars >= 3 THEN Rewards["three_star"] ELSE 0)
      BY <1>10 DEF Worth, m
    <2> HIDE DEF A, B, C
    <2> QED
      BY <1>3, <1>6, <1>7, <1>8, <2>1, <2>2, <2>3, <2>4, <2>5
  <1> QED
    BY <1>9, <1>10

\* Rows all of whose stars are backed imply no more XP than there is.
LEMMA TotalCoversRows ==
  ASSUME NEW rows \in [Challenges -> Progress \cup {None}],
         NEW xs, xs \subseteq XPRow, IsFiniteSet(xs), NEW u,
         \A c \in Challenges : Backs(rows[c], Paid(xs, u, c))
  PROVE  Implied(rows) \in Nat /\ Implied(rows) <= TotalXP(xs, u)
  <1> DEFINE mine == Of(xs, u)
             V == [x \in mine |-> Rewards[x.reason]]
             W == [c \in Challenges |-> Worth(rows[c])]
             P == [c \in Challenges |-> {x \in mine : x.challenge = c}]
  <1>1. IsFiniteSet(mine)
    BY FS_Subset DEF Of
  <1>2. \A x \in mine : x.reason \in Reasons /\ V[x] = Rewards[x.reason] /\ V[x] \in Nat
    BY PolicyAssumption DEF Of, XPRow
  <1>3. ASSUME NEW c \in Challenges
        PROVE  W[c] \in Nat /\ W[c] <= SumOver(V, P[c])
    <2>1. Paid(xs, u, c) = {x.reason : x \in P[c]}
      BY DEF Paid, Of
    <2>2. IsFiniteSet(P[c]) /\ P[c] \subseteq mine
      BY <1>1, FS_Subset
    <2>3. W[c] = Worth(rows[c])
      OBVIOUS
    <2> HIDE DEF P, V, W, mine
    <2> QED
      BY <1>2, <2>1, <2>2, <2>3, WorthIsBacked
  <1>4. /\ P \in [Challenges -> SUBSET mine]
        /\ \A c, d \in Challenges : c # d => P[c] \cap P[d] = {}
    OBVIOUS
  <1>5. Implied(rows) = SumOver(W, Challenges)
    BY ImpliedAddsUp
  <1>6. TotalXP(xs, u) = SumOver(V, mine)
    BY XPAddsUp DEF TotalXP
  <1> HIDE DEF P, V, W, mine
  <1> QED
    BY <1>1, <1>2, <1>3, <1>4, <1>5, <1>6, ChallengesAssumption, SumOverParts, SumOverType

-----------------------------------------------------------------------------
(* One commit *)

\* What the commit of s does to the tables, in terms of the tables it finds.
LEMMA CommitEffect ==
  ASSUME SavesOK, OpenInv, ReadsInv, NEW s \in Saves, Commit(s)
  PROVE  /\ job[s] \in Job /\ owner[job[s].user] = s /\ s \notin counted
         /\ progress' = [progress EXCEPT ![Row(s)] =
                           UpdateProgress(s, job[s].score, job[s].stars, job[s].at,
                                          progress[Row(s)])]
         /\ ledger' = ledger \cup Awarded(s)
         /\ awards[s] = NewAwards(job[s].stars, job[s].difficulty,
                                  Paid(ledger, job[s].user, job[s].challenge))
         /\ counted' = counted \cup {s}
  BY DEF Commit, OpenInv, Open, ReadsInv, ReadsStand

LEMMA PaidAfter ==
  ASSUME SavesOK, NEW s \in Saves, job[s] \in Job, ledger' = ledger \cup Awarded(s)
  PROVE  /\ Paid(ledger', job[s].user, job[s].challenge)
              = Paid(ledger, job[s].user, job[s].challenge) \cup awards[s]
         /\ \A u, c : <<u, c>> # Row(s) => Paid(ledger', u, c) = Paid(ledger, u, c)
         /\ \A u : u # job[s].user => Of(ledger', u) = Of(ledger, u)
         /\ \A u, c : Paid(ledger, u, c) \subseteq Reasons
  <1>0. \A r : /\ Award(s, r).user = job[s].user /\ Award(s, r).challenge = job[s].challenge
               /\ Award(s, r).reason = r
    BY DEF Award
  <1>1. \A x \in Awarded(s) : /\ x.user = job[s].user /\ x.challenge = job[s].challenge
                              /\ x.reason \in awards[s]
    BY <1>0 DEF Awarded
  <1>2. \A r \in awards[s] : \E x \in Awarded(s) :
          x.user = job[s].user /\ x.challenge = job[s].challenge /\ x.reason = r
    BY <1>0 DEF Awarded
  <1>3. \A u, c : Paid(ledger, u, c) \subseteq Reasons
    <2>1. \A x \in ledger : x.reason \in Reasons
      BY DEF SavesOK, XPRow
    <2> QED
      BY <2>1 DEF Paid
  <1>4. Paid(ledger', job[s].user, job[s].challenge)
          = Paid(ledger, job[s].user, job[s].challenge) \cup awards[s]
    BY <1>1, <1>2 DEF Paid
  <1>5. \A u, c : <<u, c>> # Row(s) => Paid(ledger', u, c) = Paid(ledger, u, c)
    <2> SUFFICES ASSUME NEW u, NEW c, u # job[s].user \/ c # job[s].challenge
                 PROVE  Paid(ledger', u, c) = Paid(ledger, u, c)
      BY DEF Row
    <2> QED
      BY <1>1 DEF Paid
  <1>6. \A u : u # job[s].user => Of(ledger', u) = Of(ledger, u)
    BY <1>1 DEF Of
  <1> QED
    BY <1>3, <1>4, <1>5, <1>6

-----------------------------------------------------------------------------
(* The inductive invariant *)

LEMMA JudgedJob ==
  ASSUME SavesOK, NEW s \in Saves, Judge(s)
  PROVE  \E j \in Job : job' = [job EXCEPT ![s] = j]
  <1>1. PICK u \in Users, c \in Challenges, v \in Verdicts :
          job' = [job EXCEPT ![s] =
                    [user |-> u, challenge |-> c, score |-> v.score, stars |-> v.stars,
                     difficulty |-> v.difficulty, at |-> clock]]
    BY DEF Judge
  <1>2. v.score \in Scores /\ v.stars \in Stars /\ v.difficulty \in Difficulties
    BY SavesAssumption
  <1>3. [user |-> u, challenge |-> c, score |-> v.score, stars |-> v.stars,
         difficulty |-> v.difficulty, at |-> clock] \in Job
    BY <1>2 DEF Job, SavesOK
  <1> QED
    BY <1>1, <1>3

LEMMA SavesStep ==
  ASSUME IInv, [Next]_vars
  PROVE  SavesOK'
  <1> USE DEF Goto, Locations
  <1>a. SavesOK /\ OpenInv /\ ReadsInv
    BY DEF IInv
  <1>0. CASE UNCHANGED vars
    BY <1>0, <1>a DEF SavesOK, vars, saver, tables
  <1>1. CASE Tick
    BY <1>1, <1>a, SavesAssumption DEF SavesOK, Tick, saver, tables, Times
  <1>2. ASSUME NEW r \in Readers, SummaryRows(r) \/ SummaryTotal(r)
        PROVE  SavesOK'
    BY <1>2, <1>a DEF SavesOK, SummaryRows, SummaryTotal, saver, tables
  <1>3. ASSUME NEW s \in Saves, Judge(s)
        PROVE  SavesOK'
    BY <1>3, <1>a, JudgedJob DEF SavesOK, Judge, tables
  <1>4. ASSUME NEW s \in Saves, LockOwner(s)
        PROVE  SavesOK'
    BY <1>4, <1>a DEF SavesOK, LockOwner, TakeRow, saver, tables
  <1>5. ASSUME NEW s \in Saves, ReadProgress(s)
        PROVE  SavesOK'
    <2>1. progress[Row(s)] \in Progress \cup {None}
      BY <1>5, <1>a, JobFields DEF SavesOK, OpenInv, Open, ReadProgress, Row
    <2> QED
      BY <1>5, <1>a, <2>1 DEF SavesOK, ReadProgress, tables
  <1>6. ASSUME NEW s \in Saves, Write(s)
        PROVE  SavesOK'
    <2>1. job[s] \in Job /\ seen[s] \in Progress \cup {None}
      BY <1>6, <1>a DEF SavesOK, OpenInv, Open, Write
    <2>2. UpdateProgress(s, job[s].score, job[s].stars, job[s].at, seen[s]) \in Progress
      BY <2>1, JobFields, ProgressUpdated
    <2>3. NewAwards(job[s].stars, job[s].difficulty,
                    Paid(ledger, job[s].user, job[s].challenge)) \subseteq Reasons
      BY DEF NewAwards, Earned
    <2> QED
      BY <1>6, <1>a, <2>2, <2>3 DEF SavesOK, Write, tables
  <1>7. ASSUME NEW s \in Saves, SumXP(s)
        PROVE  SavesOK'
    BY <1>7, <1>a DEF SavesOK, SumXP, tables
  <1>8. ASSUME NEW s \in Saves, Commit(s)
        PROVE  SavesOK'
    <2>1. job[s] \in Job /\ Row(s) \in Rows
      BY <1>8, <1>a, CommitEffect, JobFields DEF Row
    <2>2. \A r \in awards[s] : Award(s, r) \in XPRow
      BY <1>a, <2>1, JobFields DEF Award, XPRow, SavesOK
    <2>3. Awarded(s) \subseteq XPRow
      BY <2>2 DEF Awarded
    <2> QED
      BY <1>8, <1>a, <2>1, <2>3 DEF SavesOK, Commit, FreeRow, Forget
  <1>9. ASSUME NEW s \in Saves, Rollback(s)
        PROVE  SavesOK'
    BY <1>9, <1>a DEF SavesOK, Rollback, FreeRow, Forget, tables
  <1> QED
    BY <1>0, <1>1, <1>2, <1>3, <1>4, <1>5, <1>6, <1>7, <1>8, <1>9 DEF Next, Step

LEMMA OpenStep ==
  ASSUME IInv, [Next]_vars
  PROVE  OpenInv'
  <1> USE DEF Goto, Open
  <1>a. SavesOK /\ OpenInv /\ ReadsInv
    BY DEF IInv
  <1>b. \A s, t \in Saves : pc[s] \in Open /\ pc[t] \in Open /\ s # t => job[s].user # job[t].user
    BY <1>a DEF OpenInv
  <1>0. CASE UNCHANGED vars
    BY <1>0, <1>a DEF OpenInv, vars, saver, tables
  <1>1. CASE Tick \/ \E r \in Readers : SummaryRows(r) \/ SummaryTotal(r)
    BY <1>1, <1>a DEF OpenInv, Tick, SummaryRows, SummaryTotal, saver, tables
  <1>2. ASSUME NEW s \in Saves, Judge(s)
        PROVE  OpenInv'
    <2>1. PICK j \in Job : job' = [job EXCEPT ![s] = j]
      BY <1>2, <1>a, JudgedJob
    <2>2. /\ pc[s] = "new" /\ pc' = [pc EXCEPT ![s] = "judged"]
          /\ UNCHANGED <<owner, counted>>
      BY <1>2 DEF Judge, tables
    <2> QED
      BY <1>a, <2>1, <2>2 DEF OpenInv, SavesOK
  <1>3. ASSUME NEW s \in Saves, LockOwner(s)
        PROVE  OpenInv'
    BY <1>3, <1>a, JobFields, NoneAssumption DEF OpenInv, SavesOK, LockOwner, TakeRow, saver, tables
  <1>4. ASSUME NEW s \in Saves, ReadProgress(s) \/ Write(s) \/ SumXP(s)
        PROVE  OpenInv'
    BY <1>4, <1>a DEF OpenInv, SavesOK, ReadProgress, Write, SumXP, tables
  <1>5. ASSUME NEW s \in Saves, Commit(s)
        PROVE  OpenInv'
    BY <1>5, <1>a, <1>b DEF OpenInv, SavesOK, Commit, FreeRow, Forget
  <1>6. ASSUME NEW s \in Saves, Rollback(s)
        PROVE  OpenInv'
    <2>1. /\ pc' = [pc EXCEPT ![s] = "failed"] /\ job' = [job EXCEPT ![s] = None]
          /\ UNCHANGED counted
          /\ pc[s] \in Open \cup {"judged"}
          /\ IF pc[s] = "judged" THEN UNCHANGED owner
             ELSE owner' = [owner EXCEPT ![job[s].user] = None]
      BY <1>6 DEF Rollback, FreeRow, tables
    <2>2. \A t \in Saves : pc[t] \in Open /\ s # t => owner'[job[t].user] = t
      BY <1>a, <1>b, <2>1, JobFields DEF OpenInv, SavesOK
    <2> QED
      BY <1>a, <2>1, <2>2 DEF OpenInv, SavesOK
  <1> QED
    BY <1>0, <1>1, <1>2, <1>3, <1>4, <1>5, <1>6 DEF IInv, Next, Step

\* What t has read stands as long as its own variables and its player's rows do.
LEMMA ReadsKept ==
  ASSUME NEW t \in Saves, ReadsStand(t), pc'[t] = pc[t], job'[t] = job[t], seen'[t] = seen[t],
         draft'[t] = draft[t], awards'[t] = awards[t], total'[t] = total[t],
         progress'[Row(t)] = progress[Row(t)],
         Paid(ledger', job[t].user, job[t].challenge) = Paid(ledger, job[t].user, job[t].challenge),
         Of(ledger', job[t].user) = Of(ledger, job[t].user)
  PROVE  ReadsStand(t)'
  <1>1. Row(t)' = Row(t)
    BY DEF Row
  <1>2. Awarded(t)' = Awarded(t)
    BY DEF Awarded, Award
  <1>3. Of(ledger' \cup Awarded(t)', job[t].user) = Of(ledger \cup Awarded(t), job[t].user)
    BY <1>2 DEF Of
  <1>4. TotalXP(ledger' \cup Awarded(t)', job[t].user) =
          TotalXP(ledger \cup Awarded(t), job[t].user)
    BY <1>3 DEF TotalXP
  <1>5. (pc[t] \in {"read", "written", "summed"} => seen[t] = progress[Row(t)])'
    BY <1>1 DEF ReadsStand
  <1>6. (pc[t] \in {"written", "summed"} =>
           draft[t] = UpdateProgress(t, job[t].score, job[t].stars, job[t].at, progress[Row(t)]))'
    BY <1>1 DEF ReadsStand
  <1>7. (pc[t] \in {"written", "summed"} =>
           awards[t] = NewAwards(job[t].stars, job[t].difficulty,
                                 Paid(ledger, job[t].user, job[t].challenge)))'
    BY DEF ReadsStand
  <1>8. (pc[t] = "summed" => total[t] = TotalXP(ledger \cup Awarded(t), job[t].user))'
    BY <1>4 DEF ReadsStand
  <1> QED
    BY <1>5, <1>6, <1>7, <1>8 DEF ReadsStand

LEMMA ReadsStep ==
  ASSUME IInv, [Next]_vars
  PROVE  ReadsInv'
  <1> USE DEF Goto
  <1>a. SavesOK /\ OpenInv /\ ReadsInv
    BY DEF IInv
  <1> DEFINE Same(t) == /\ pc'[t] = pc[t] /\ job'[t] = job[t] /\ seen'[t] = seen[t]
                        /\ draft'[t] = draft[t] /\ awards'[t] = awards[t] /\ total'[t] = total[t]
  <1>b. ASSUME UNCHANGED <<progress, ledger>>, NEW t \in Saves, Same(t)
        PROVE  ReadsStand(t)'
    BY <1>a, <1>b, ReadsKept DEF ReadsInv
  <1>c. (total = [s \in Saves |-> total[s]])'
    <2>1. CASE UNCHANGED total
      BY <1>a, <2>1 DEF ReadsInv
    <2>2. ASSUME NEW s \in Saves, NEW x, total' = [total EXCEPT ![s] = x]
          PROVE  (total = [t \in Saves |-> total[t]])'
      BY <1>a, <2>2 DEF ReadsInv
    <2>3. ASSUME NEW s \in Saves, SumXP(s) \/ Commit(s) \/ Rollback(s)
          PROVE  \E x : total' = [total EXCEPT ![s] = x]
      BY <2>3 DEF SumXP, Commit, Rollback, Forget
    <2>4. UNCHANGED total \/ \E s \in Saves : SumXP(s) \/ Commit(s) \/ Rollback(s)
      BY DEF Next, Step, Tick, Judge, LockOwner, TakeRow, ReadProgress, Write, SummaryRows,
             SummaryTotal, vars, saver
    <2> QED
      BY <2>1, <2>2, <2>3, <2>4
  <1>0. CASE UNCHANGED <<pc, saver, tables>>
    BY <1>0, <1>b, <1>c DEF ReadsInv, saver, tables
  <1>1. ASSUME NEW s \in Saves, Judge(s) \/ LockOwner(s) \/ Rollback(s)
        PROVE  ReadsInv'
    <2>1. /\ UNCHANGED <<progress, ledger>>
          /\ \A t \in Saves : t # s => Same(t)
          /\ pc'[s] \notin {"read", "written", "summed"}
      <3>1. CASE Judge(s)
        <4>1. PICK j \in Job : job' = [job EXCEPT ![s] = j]
          BY <3>1, <1>a, JudgedJob
        <4>2. pc' = [pc EXCEPT ![s] = "judged"] /\ UNCHANGED <<seen, draft, awards, total, tables>>
          BY <3>1 DEF Judge
        <4> QED
          BY <4>1, <4>2, <1>a DEF SavesOK, tables
      <3>2. CASE LockOwner(s)
        BY <3>2, <1>a DEF SavesOK, LockOwner, TakeRow, saver, tables
      <3>3. CASE Rollback(s)
        BY <3>3, <1>a DEF SavesOK, ReadsInv, Rollback, Forget, tables
      <3> QED
        BY <1>1, <3>1, <3>2, <3>3
    <2>2. ReadsStand(s)'
      BY <2>1 DEF ReadsStand
    <2> QED
      BY <1>b, <1>c, <2>1, <2>2 DEF ReadsInv
  <1>2. ASSUME NEW s \in Saves, ReadProgress(s)
        PROVE  ReadsInv'
    <2>1. /\ UNCHANGED <<progress, ledger, job>>
          /\ \A t \in Saves : t # s => Same(t)
          /\ pc'[s] = "read" /\ seen'[s] = progress[Row(s)]
      BY <1>2, <1>a DEF SavesOK, ReadProgress, tables
    <2>2. ReadsStand(s)'
      BY <2>1 DEF ReadsStand, Row
    <2> QED
      BY <1>b, <1>c, <2>1, <2>2 DEF ReadsInv
  <1>3. ASSUME NEW s \in Saves, Write(s)
        PROVE  ReadsInv'
    <2>1. /\ UNCHANGED <<progress, ledger, job, seen>>
          /\ \A t \in Saves : t # s => Same(t)
          /\ pc[s] = "read" /\ pc'[s] = "written"
          /\ draft'[s] = UpdateProgress(s, job[s].score, job[s].stars, job[s].at, seen[s])
          /\ awards'[s] = NewAwards(job[s].stars, job[s].difficulty,
                                    Paid(ledger, job[s].user, job[s].challenge))
      BY <1>3, <1>a DEF SavesOK, Write, tables
    <2>2. seen[s] = progress[Row(s)]
      BY <1>a, <2>1 DEF ReadsInv, ReadsStand
    <2>3. ReadsStand(s)'
      BY <2>1, <2>2 DEF ReadsStand, Row
    <2> QED
      BY <1>b, <1>c, <2>1, <2>3 DEF ReadsInv
  <1>4. ASSUME NEW s \in Saves, SumXP(s)
        PROVE  ReadsInv'
    <2>1. /\ UNCHANGED <<progress, ledger, job, seen, draft, awards>>
          /\ \A t \in Saves : t # s => Same(t)
          /\ pc[s] = "written" /\ pc'[s] = "summed"
          /\ total'[s] = TotalXP(ledger \cup Awarded(s), job[s].user)
      BY <1>4, <1>a DEF SavesOK, ReadsInv, SumXP, tables
    <2>2. Awarded(s)' = Awarded(s) /\ Row(s)' = Row(s)
      BY <2>1 DEF Awarded, Award, Row
    <2>3. /\ seen[s] = progress[Row(s)]
          /\ draft[s] = UpdateProgress(s, job[s].score, job[s].stars, job[s].at, progress[Row(s)])
          /\ awards[s] = NewAwards(job[s].stars, job[s].difficulty,
                                   Paid(ledger, job[s].user, job[s].challenge))
      BY <1>a, <2>1 DEF ReadsInv, ReadsStand
    <2>4. ReadsStand(s)'
      BY <2>1, <2>2, <2>3 DEF ReadsStand
    <2> QED
      BY <1>b, <1>c, <2>1, <2>4 DEF ReadsInv
  <1>5. ASSUME NEW s \in Saves, Commit(s)
        PROVE  ReadsInv'
    <2>1. /\ \A t \in Saves : t # s => Same(t)
          /\ pc[s] = "summed" /\ pc'[s] = "saved"
      BY <1>5, <1>a DEF SavesOK, ReadsInv, Commit, Forget
    <2>2. ASSUME NEW t \in Saves, t # s, pc[t] \in Open
          PROVE  ReadsStand(t)'
      <3>1. job[t].user # job[s].user /\ job[t] \in Job /\ job[s] \in Job
        BY <1>a, <2>1, <2>2 DEF OpenInv, Open
      <3>2. Row(t) # Row(s) /\ Row(t) \in Rows
        BY <3>1, JobFields DEF Row
      <3>3. progress'[Row(t)] = progress[Row(t)]
        BY <1>5, <1>a, <3>2, CommitEffect DEF SavesOK
      <3>4. ledger' = ledger \cup Awarded(s)
        BY <1>5 DEF Commit
      <3>5. /\ Paid(ledger', job[t].user, job[t].challenge)
                 = Paid(ledger, job[t].user, job[t].challenge)
            /\ Of(ledger', job[t].user) = Of(ledger, job[t].user)
        BY <1>a, <3>1, <3>2, <3>4, PaidAfter DEF Row
      <3>6. ReadsStand(t)
        BY <1>a DEF ReadsInv
      <3> QED
        BY <2>1, <2>2, <3>3, <3>5, <3>6, ReadsKept
    <2>3. ASSUME NEW t \in Saves, t = s \/ pc[t] \notin Open
          PROVE  ReadsStand(t)'
      BY <2>1, <2>3 DEF ReadsStand, Open
    <2> QED
      BY <1>c, <2>2, <2>3 DEF ReadsInv
  <1>6. UNCHANGED vars \/ Tick \/ (\E r \in Readers : SummaryRows(r) \/ SummaryTotal(r))
          => UNCHANGED <<pc, saver, tables>>
    BY DEF vars, Tick, SummaryRows, SummaryTotal
  <1> QED
    BY <1>0, <1>1, <1>2, <1>3, <1>4, <1>5, <1>6 DEF Next, Step

\* A save pays what is not in the ledger, and what it has read of the ledger
\* stands when it commits.
LEMMA PaidOnceStep ==
  ASSUME IInv, [Next]_vars
  PROVE  MilestonesPaidOnce'
  <1>a. SavesOK /\ OpenInv /\ ReadsInv /\ MilestonesPaidOnce
    BY DEF IInv
  <1>1. ASSUME NEW s \in Saves, Commit(s)
        PROVE  MilestonesPaidOnce'
    <2>1. /\ ledger' = ledger \cup Awarded(s)
          /\ awards[s] = NewAwards(job[s].stars, job[s].difficulty,
                                   Paid(ledger, job[s].user, job[s].challenge))
      BY <1>1, <1>a, CommitEffect
    <2>2. \A r \in awards[s] : r \notin Paid(ledger, job[s].user, job[s].challenge)
      BY <2>1 DEF NewAwards
    <2>3. \A x \in Awarded(s) : x = Award(s, x.reason) /\ x.reason \in awards[s]
      BY DEF Awarded, Award
    <2>4. ASSUME NEW x \in Awarded(s), NEW y \in ledger, x.user = y.user,
                 x.challenge = y.challenge, x.reason = y.reason
          PROVE  FALSE
      <3>1. x.user = job[s].user /\ x.challenge = job[s].challenge
        BY <2>3 DEF Award
      <3>2. y.reason \in Paid(ledger, job[s].user, job[s].challenge)
        BY <2>4, <3>1 DEF Paid
      <3> QED
        BY <2>2, <2>3, <2>4, <3>2
    <2>5. \A x, y \in Awarded(s) : x.reason = y.reason => x = y
      BY <2>3
    <2> QED
      BY <1>a, <2>1, <2>4, <2>5 DEF MilestonesPaidOnce
  <1>2. UNCHANGED ledger \/ \E s \in Saves : Commit(s)
    BY DEF Next, Step, Tick, Judge, LockOwner, TakeRow, ReadProgress, Write, SumXP, Rollback,
           SummaryRows, SummaryTotal, vars, tables
  <1>3. CASE UNCHANGED ledger
    BY <1>3, <1>a DEF MilestonesPaidOnce
  <1> QED
    BY <1>1, <1>2, <1>3

\* A save changes the progress row and the ledger of one challenge of one
\* player, and changes them together.
LEMMA LedgerStep ==
  ASSUME IInv, [Next]_vars
  PROVE  LedgerMatchesProgress'
  <1>a. SavesOK /\ OpenInv /\ ReadsInv /\ LedgerMatchesProgress
    BY DEF IInv
  <1>1. ASSUME NEW s \in Saves, Commit(s)
        PROVE  LedgerMatchesProgress'
    <2> DEFINE old == progress[Row(s)]
               paid == Paid(ledger, job[s].user, job[s].challenge)
    <2>1. /\ job[s] \in Job
          /\ progress' = [progress EXCEPT ![Row(s)] =
                            UpdateProgress(s, job[s].score, job[s].stars, job[s].at, old)]
          /\ ledger' = ledger \cup Awarded(s)
          /\ awards[s] = NewAwards(job[s].stars, job[s].difficulty, paid)
      BY <1>1, <1>a, CommitEffect
    <2>2. /\ Row(s) \in Rows /\ job[s].user \in Users /\ job[s].challenge \in Challenges
          /\ job[s].score \in Scores /\ job[s].stars \in Stars
          /\ job[s].difficulty \in Difficulties /\ job[s].at \in Times
      BY <2>1, JobFields DEF Row
    <2>3. old \in Progress \cup {None}
      BY <1>a, <2>2 DEF SavesOK
    <2>4. paid \in SUBSET Reasons
      BY <1>a, <2>1, PaidAfter
    <2>5. Matches(old, paid)
      BY <1>a, <2>2 DEF LedgerMatchesProgress, Row
    <2>6. Matches(UpdateProgress(s, job[s].score, job[s].stars, job[s].at, old),
                  paid \cup awards[s])
      <3> HIDE DEF old, paid
      <3> QED
        BY <2>1, <2>2, <2>3, <2>4, <2>5, AwardsPaid
    <2>7. Matches(progress'[Row(s)], Paid(ledger', job[s].user, job[s].challenge))
      <3>1. progress'[Row(s)] = UpdateProgress(s, job[s].score, job[s].stars, job[s].at, old)
        BY <1>a, <2>1, <2>2 DEF SavesOK
      <3>2. Paid(ledger', job[s].user, job[s].challenge) = paid \cup awards[s]
        BY <1>a, <2>1, PaidAfter
      <3> QED
        BY <2>6, <3>1, <3>2
    <2>8. ASSUME NEW u \in Users, NEW c \in Challenges
          PROVE  Matches(progress'[<<u, c>>], Paid(ledger', u, c))
      <3>1. CASE <<u, c>> = Row(s)
        BY <2>7, <3>1 DEF Row
      <3>2. CASE <<u, c>> # Row(s)
        <4>1. progress'[<<u, c>>] = progress[<<u, c>>]
          BY <1>a, <2>1, <3>2 DEF SavesOK, Rows
        <4>2. Paid(ledger', u, c) = Paid(ledger, u, c)
          BY <1>a, <2>1, <3>2, PaidAfter
        <4> QED
          BY <1>a, <4>1, <4>2 DEF LedgerMatchesProgress
      <3> QED
        BY <3>1, <3>2
    <2> QED
      BY <2>8 DEF LedgerMatchesProgress
  <1>2. UNCHANGED <<progress, ledger>> \/ \E s \in Saves : Commit(s)
    BY DEF Next, Step, Tick, Judge, LockOwner, TakeRow, ReadProgress, Write, SumXP, Rollback,
           SummaryRows, SummaryTotal, vars, tables
  <1>3. CASE UNCHANGED <<progress, ledger>>
    BY <1>3, <1>a DEF LedgerMatchesProgress
  <1> QED
    BY <1>1, <1>2, <1>3

-----------------------------------------------------------------------------
(* Progress rows and submissions *)

Summarises(p, mine, jobs) ==
  LET passing == {s \in mine : jobs[s].stars >= 1}
  IN  IF mine = {}
      THEN p = None
      ELSE /\ p # None
           /\ p.attempts = Cardinality(mine)
           /\ p.best \in mine
           /\ p.score = jobs[p.best].score
           /\ \A s \in mine : jobs[s].score <= p.score
           /\ p.stars = Max({jobs[s].stars : s \in mine})
           /\ p.completed \in
                IF passing = {} THEN {None} ELSE {jobs[s].at : s \in passing}

\* The policy counts one submission more.
LEMMA OneMore ==
  ASSUME NEW mine, mine \subseteq Saves, IsFiniteSet(mine), NEW id \in Saves \ mine, NEW jobs,
         \A s \in mine \cup {id} : jobs[s] \in Job,
         NEW p \in Progress \cup {None}, Summarises(p, mine, jobs)
  PROVE  Summarises(UpdateProgress(id, jobs[id].score, jobs[id].stars, jobs[id].at, p),
                    mine \cup {id}, jobs)
  <1> DEFINE j == jobs[id]
             new == UpdateProgress(id, j.score, j.stars, j.at, p)
             all == mine \cup {id}
             had == {jobs[s].stars : s \in mine}
             has == {jobs[s].stars : s \in all}
             passed == {s \in mine : jobs[s].stars >= 1}
             passing == {s \in all : jobs[s].stars >= 1}
  <1>1. \A s \in all : /\ jobs[s].stars \in 0..3 /\ jobs[s].score \in Nat /\ jobs[s].at \in Times
    BY JobFields, PolicyAssumption DEF Stars
  <1>2. Cardinality(all) = Cardinality(mine) + 1 /\ Cardinality(mine) \in Nat
    BY FS_AddElement, FS_CardinalityType
  <1>3. \A n \in has : (\A k \in has : k <= n) => n = Max(has)
    <2>1. has \subseteq 0..3 /\ has # {}
      BY <1>1
    <2> HIDE DEF has
    <2>2. Max(has) \in has /\ \A k \in has : k <= Max(has)
      BY <2>1, GreatestIsMax
    <2>3. \A k \in has : k \in Nat
      BY <2>1
    <2> QED
      BY <2>2, <2>3
  <1>4. CASE mine = {}
    <2>1. p = None
      BY <1>4 DEF Summarises
    <2>2. new = [best |-> id, score |-> j.score, stars |-> j.stars, attempts |-> 1,
                 completed |-> IF j.stars >= 1 THEN j.at ELSE None]
      BY <2>1 DEF UpdateProgress
    <2>3. new # None
      <3>1. new \in Progress
        BY <2>1, <1>1, JobFields, ProgressUpdated
      <3> QED
        BY <3>1, NoneAssumption
    <2>4. all = {id} /\ Cardinality(all) = 1
      BY <1>4, FS_Singleton
    <2>5. new.stars = Max(has)
      <3>1. has = {j.stars} /\ j.stars \in 0..3
        BY <1>1, <2>4
      <3>2. new.stars = j.stars
        BY <2>2
      <3> HIDE DEF has, new, j
      <3> QED
        BY <1>3, <3>1, <3>2
    <2>6. new.completed \in IF passing = {} THEN {None} ELSE {jobs[s].at : s \in passing}
      BY <2>2, <2>4
    <2>7. \A s \in all : jobs[s].score <= new.score
      BY <1>1, <2>2, <2>4
    <2> HIDE DEF new
    <2>8. /\ all # {} /\ new.attempts = Cardinality(all) /\ new.best \in all
          /\ new.score = jobs[new.best].score
      BY <2>2, <2>4
    <2>9. Summarises(new, all, jobs)
      BY <2>3, <2>5, <2>6, <2>7, <2>8 DEF Summarises
    <2> QED
      BY <2>9 DEF new
  <1>5. CASE mine # {}
    <2>1. /\ p # None /\ p \in Progress /\ p.attempts = Cardinality(mine) /\ p.best \in mine
          /\ p.score = jobs[p.best].score /\ \A s \in mine : jobs[s].score <= p.score
          /\ p.stars = Max(had)
          /\ p.completed \in IF passed = {} THEN {None} ELSE {jobs[s].at : s \in passed}
      BY <1>5 DEF Summarises
    <2>2. new = [best |-> IF j.score > p.score THEN id ELSE p.best,
                 score |-> Better(p.score, j.score),
                 stars |-> Better(p.stars, j.stars),
                 attempts |-> p.attempts + 1,
                 completed |-> IF p.completed = None /\ j.stars >= 1 THEN j.at ELSE p.completed]
      BY <2>1 DEF UpdateProgress
    <2>3. new # None
      <3>1. new \in Progress
        BY <1>1, JobFields, ProgressUpdated
      <3> QED
        BY <3>1, NoneAssumption
    <2>4. p.stars \in had /\ \A n \in had : n <= p.stars
      <3>1. had \subseteq 0..3 /\ had # {}
        BY <1>1, <1>5
      <3> HIDE DEF had
      <3> QED
        BY <2>1, <3>1, GreatestIsMax
    <2>5. new.stars = Max(has)
      <3>1. has = had \cup {j.stars}
        OBVIOUS
      <3>2. j.stars \in 0..3 /\ \A n \in had : n \in 0..3
        BY <1>1
      <3>3. new.stars = Better(p.stars, j.stars)
        BY <2>2
      <3> HIDE DEF has, had, new
      <3>4. new.stars \in has /\ \A n \in has : n <= new.stars
        BY <2>4, <3>1, <3>2, <3>3 DEF Better
      <3> QED
        BY <1>3, <3>4
    <2>6. /\ new.best \in all /\ new.score = jobs[new.best].score
          /\ \A s \in all : jobs[s].score <= new.score
      <3>1. /\ p.score \in Nat /\ j.score \in Nat /\ \A s \in all : jobs[s].score \in Nat
            /\ new.best = (IF j.score > p.score THEN id ELSE p.best)
            /\ new.score = Better(p.score, j.score)
        BY <1>1, <2>1, <2>2
      <3> HIDE DEF new
      <3>2. CASE j.score > p.score
        <4>1. new.best = id /\ new.score = j.score
          BY <3>1, <3>2 DEF Better
        <4> QED
          BY <2>1, <3>1, <3>2, <4>1
      <3>3. CASE ~(j.score > p.score)
        <4>1. new.best = p.best /\ new.score = p.score
          BY <3>1, <3>3 DEF Better
        <4> QED
          BY <2>1, <3>1, <3>3, <4>1
      <3> QED
        BY <3>2, <3>3
    <2>7. new.completed \in IF passing = {} THEN {None} ELSE {jobs[s].at : s \in passing}
      <3>1. passing = IF j.stars >= 1 THEN passed \cup {id} ELSE passed
        OBVIOUS
      <3>2. new.completed = IF p.completed = None /\ j.stars >= 1 THEN j.at ELSE p.completed
        BY <2>2
      <3>3. passed # {} => p.completed # None
        BY <1>1, <2>1, NoneAssumption
      <3> HIDE DEF new, passing, passed
      <3> QED
        BY <2>1, <3>1, <3>2, <3>3
    <2>8. new.attempts = Cardinality(all)
      BY <1>2, <2>1, <2>2
    <2> HIDE DEF new
    <2>9. Summarises(new, all, jobs)
      BY <2>3, <2>5, <2>6, <2>7, <2>8 DEF Summarises
    <2> QED
      BY <2>9 DEF new
  <1> QED
    BY <1>4, <1>5

Mine(k) == {s \in counted : Row(s) = k}

LEMMA MatchesIsSummary ==
  ProgressMatchesSubmissions <=> \A k \in Rows : Summarises(progress[k], Mine(k), job)
  BY DEF ProgressMatchesSubmissions, Summarises, Mine

LEMMA MatchStep ==
  ASSUME IInv, [Next]_vars
  PROVE  ProgressMatchesSubmissions'
  <1>a. SavesOK /\ OpenInv /\ ReadsInv /\ IsFiniteSet(counted)
    BY DEF IInv, SumsInv
  <1>b. \A k \in Rows : Summarises(progress[k], Mine(k), job)
    BY MatchesIsSummary DEF IInv
  <1>c. \A k : /\ Mine(k) \subseteq Saves /\ IsFiniteSet(Mine(k))
               /\ \A s \in Mine(k) : job[s] \in Job /\ s \in counted
    BY <1>a, FS_Subset DEF Mine, SavesOK, OpenInv
  <1>1. SUFFICES ASSUME NEW k \in Rows
                 PROVE  Summarises(progress'[k], Mine(k)', job')
    <2>1. ProgressMatchesSubmissions' <=>
            \A k \in Rows : Summarises(progress'[k], Mine(k)', job')
      BY DEF ProgressMatchesSubmissions, Summarises, Mine
    <2> QED
      BY <2>1
  <1>2. ASSUME UNCHANGED <<progress, counted>>, \A s \in counted : job'[s] = job[s]
        PROVE  Summarises(progress'[k], Mine(k)', job')
    <2>1. Mine(k)' = Mine(k) /\ \A s \in Mine(k) : job'[s] = job[s]
      BY <1>2 DEF Mine, Row
    <2>2. Summarises(progress[k], Mine(k), job') <=> Summarises(progress[k], Mine(k), job)
      <3> DEFINE m == Mine(k)
                 p == progress[k]
      <3>1. /\ {job'[s].stars : s \in m} = {job[s].stars : s \in m}
            /\ {s \in m : job'[s].stars >= 1} = {s \in m : job[s].stars >= 1}
            /\ {job'[s].at : s \in {t \in m : job'[t].stars >= 1}}
                 = {job[s].at : s \in {t \in m : job[t].stars >= 1}}
            /\ p.best \in m => job'[p.best] = job[p.best]
            /\ (\A s \in m : job'[s].score <= p.score) <=> (\A s \in m : job[s].score <= p.score)
        BY <2>1
      <3> HIDE DEF m, p
      <3>2. Summarises(p, m, job') <=> Summarises(p, m, job)
        BY <3>1 DEF Summarises
      <3> QED
        BY <3>2 DEF m, p
    <2> QED
      BY <1>2, <1>b, <2>1, <2>2
  <1>3. ASSUME NEW s \in Saves, Commit(s)
        PROVE  Summarises(progress'[k], Mine(k)', job')
    <2>1. /\ job[s] \in Job /\ s \notin counted /\ counted' = counted \cup {s} /\ UNCHANGED job
          /\ progress' = [progress EXCEPT ![Row(s)] =
                            UpdateProgress(s, job[s].score, job[s].stars, job[s].at,
                                           progress[Row(s)])]
          /\ Row(s) \in Rows
      BY <1>3, <1>a, CommitEffect, JobFields DEF Commit, Row
    <2>2. CASE k = Row(s)
      <3>1. Mine(k)' = Mine(k) \cup {s}
        BY <2>1, <2>2 DEF Mine, Row
      <3>2. progress'[k] = UpdateProgress(s, job[s].score, job[s].stars, job[s].at, progress[k])
        BY <1>a, <2>1, <2>2 DEF SavesOK
      <3>3. progress[k] \in Progress \cup {None} /\ s \in Saves \ Mine(k)
        BY <1>a, <2>1 DEF SavesOK, Mine
      <3>4. \A t \in Mine(k) \cup {s} : job[t] \in Job
        BY <1>c, <2>1
      <3>5. Summarises(UpdateProgress(s, job[s].score, job[s].stars, job[s].at, progress[k]),
                       Mine(k) \cup {s}, job)
        BY <1>b, <1>c, <3>3, <3>4, OneMore
      <3> QED
        BY <2>1, <3>1, <3>2, <3>5
    <2>3. CASE k # Row(s)
      <3>1. Mine(k)' = Mine(k)
        BY <2>1, <2>3 DEF Mine, Row
      <3>2. progress'[k] = progress[k]
        BY <1>a, <2>1, <2>3 DEF SavesOK
      <3> QED
        BY <1>b, <2>1, <3>1, <3>2
    <2> QED
      BY <2>2, <2>3
  <1>4. ASSUME NEW s \in Saves, Judge(s) \/ Rollback(s)
        PROVE  UNCHANGED <<progress, counted>> /\ \A t \in counted : job'[t] = job[t]
    <2>1. s \notin counted
      BY <1>4, <1>a DEF OpenInv, Judge, Rollback
    <2>2. UNCHANGED <<progress, counted>> /\ \E x : job' = [job EXCEPT ![s] = x]
      BY <1>4, <1>a, JudgedJob DEF Judge, Rollback, tables
    <2> QED
      BY <1>a, <2>1, <2>2 DEF SavesOK
  <1>5. \/ UNCHANGED <<progress, counted, job>>
        \/ \E s \in Saves : Judge(s) \/ Rollback(s) \/ Commit(s)
    BY DEF Next, Step, Tick, LockOwner, TakeRow, ReadProgress, Write, SumXP, SummaryRows,
           SummaryTotal, vars, saver, tables
  <1> QED
    BY <1>2, <1>3, <1>4, <1>5

-----------------------------------------------------------------------------
(* Sums and readers *)

\* Awards are among four reasons.
LEMMA AwardedFinite ==
  ASSUME NEW s \in Saves, awards[s] \subseteq Reasons
  PROVE  IsFiniteSet(Awarded(s))
  <1>1. IsFiniteSet(Reasons)
    <2>1. Reasons = ((({} \cup {"first_completion"}) \cup {"two_star"}) \cup {"three_star"})
                    \cup {"boss_completion"}
      BY DEF Reasons
    <2>2. IsFiniteSet(({} \cup {"first_completion"}) \cup {"two_star"})
      BY FS_EmptySet, FS_AddElement
    <2> QED
      BY <2>1, <2>2, FS_AddElement
  <1>2. IsFiniteSet(awards[s])
    BY <1>1, FS_Subset
  <1> DEFINE f == [r \in awards[s] |-> Award(s, r)]
  <1>3. f \in Surjection(awards[s], Awarded(s))
    BY DEF Awarded, Surjection
  <1> HIDE DEF f
  <1> QED
    BY <1>2, <1>3, FS_Surjection

LEMMA SumsStep ==
  ASSUME IInv, [Next]_vars
  PROVE  SumsInv'
  <1>a. SavesOK /\ OpenInv /\ ReadsInv /\ LedgerMatchesProgress /\ SumsInv
    BY DEF IInv
  <1>b. /\ IsFiniteSet(ledger) /\ IsFiniteSet(counted) /\ total \in [Saves -> Nat]
        /\ view \in [Readers -> Read] /\ ledger \subseteq XPRow
    BY <1>a DEF SumsInv, SavesOK
  <1>1. /\ IsFiniteSet(ledger') /\ IsFiniteSet(counted')
        /\ \A u, c : Paid(ledger, u, c) \subseteq Paid(ledger', u, c)
    <2>1. ASSUME NEW s \in Saves, Commit(s)
          PROVE  /\ ledger' = ledger \cup Awarded(s) /\ counted' = counted \cup {s}
                 /\ IsFiniteSet(Awarded(s))
      BY <2>1, <1>a, AwardedFinite DEF Commit, SavesOK
    <2>2. UNCHANGED <<ledger, counted>> \/ \E s \in Saves : Commit(s)
      BY DEF Next, Step, Tick, Judge, LockOwner, TakeRow, ReadProgress, Write, SumXP, Rollback,
             SummaryRows, SummaryTotal, vars, tables
    <2>3. ledger \subseteq ledger'
      BY <2>1, <2>2
    <2>4. IsFiniteSet(ledger') /\ IsFiniteSet(counted')
      <3>1. ASSUME NEW s \in Saves, Commit(s)
            PROVE  IsFiniteSet(ledger') /\ IsFiniteSet(counted')
        <4>1. IsFiniteSet(ledger \cup Awarded(s))
          BY <1>b, <2>1, <3>1, FS_Union
        <4>2. IsFiniteSet(counted \cup {s})
          BY <1>b, FS_AddElement
        <4> QED
          BY <2>1, <3>1, <4>1, <4>2
      <3> QED
        BY <1>b, <2>2, <3>1
    <2> QED
      BY <2>3, <2>4 DEF Paid
  <1>2. total' \in [Saves -> Nat]
    <2>1. ASSUME NEW s \in Saves, SumXP(s)
          PROVE  total' \in [Saves -> Nat]
      <3>1. awards[s] \subseteq Reasons /\ job[s] \in Job
        BY <2>1, <1>a DEF SavesOK, OpenInv, Open, SumXP
      <3>2. \A r \in awards[s] : Award(s, r) \in XPRow
        BY <3>1, JobFields DEF Award, XPRow
      <3>3. ledger \cup Awarded(s) \subseteq XPRow /\ IsFiniteSet(ledger \cup Awarded(s))
        BY <1>b, <3>1, <3>2, AwardedFinite, FS_Union DEF Awarded
      <3>4. TotalXP(ledger \cup Awarded(s), job[s].user) \in Nat
        BY <3>3, TotalType
      <3> QED
        BY <2>1, <1>b, <3>4 DEF SumXP
    <2>2. ASSUME NEW s \in Saves, Commit(s) \/ Rollback(s)
          PROVE  total' \in [Saves -> Nat]
      BY <2>2, <1>b DEF Commit, Rollback, Forget
    <2>3. UNCHANGED total \/ \E s \in Saves : SumXP(s) \/ Commit(s) \/ Rollback(s)
      BY DEF Next, Step, Tick, Judge, LockOwner, TakeRow, ReadProgress, Write, SummaryRows,
             SummaryTotal, vars, saver
    <2> QED
      BY <1>b, <2>1, <2>2, <2>3
  <1>3. ASSUME NEW r \in Readers, view'[r] = view[r]
        PROVE  view'[r] \in Read /\ ViewHolds(r)'
    <2>1. view[r] \in Read /\ ViewHolds(r)
      BY <1>a, <1>b DEF SumsInv
    <2>2. \A p, u, c : Backs(p, Paid(ledger, u, c)) => Backs(p, Paid(ledger', u, c))
      BY <1>1 DEF Backs
    <2>3. view[r].stage = "done" => view[r].total >= Implied(view[r].rows)
      BY <2>1 DEF ViewHolds
    <2> QED
      BY <1>3, <2>1, <2>2, <2>3 DEF ViewHolds
  <1>4. ASSUME NEW r \in Readers, SummaryRows(r)
        PROVE  view'[r] \in Read /\ ViewHolds(r)' /\ \A q \in Readers : q # r => view'[q] = view[q]
    <2>1. PICK u \in Users :
            view' = [view EXCEPT ![r] = [stage |-> "rows", user |-> u, total |-> 0,
                                         rows |-> [c \in Challenges |-> progress[<<u, c>>]]]]
      BY <1>4 DEF SummaryRows
    <2>2. /\ view'[r] = [stage |-> "rows", user |-> u, total |-> 0,
                         rows |-> [c \in Challenges |-> progress[<<u, c>>]]]
          /\ \A q \in Readers : q # r => view'[q] = view[q]
          /\ UNCHANGED ledger
      BY <1>4, <1>b, <2>1 DEF SummaryRows, tables
    <2>3. [c \in Challenges |-> progress[<<u, c>>]] \in [Challenges -> Progress \cup {None}]
      BY <1>a DEF SavesOK, Rows
    <2>4. \A c \in Challenges : Backs(progress[<<u, c>>], Paid(ledger, u, c))
      BY <1>a DEF LedgerMatchesProgress, Matches, Backs
    <2>5. view'[r] \in Read
      BY <2>2, <2>3 DEF Read
    <2>6. ViewHolds(r)'
      BY <2>2, <2>3, <2>4 DEF ViewHolds
    <2> QED
      BY <2>2, <2>5, <2>6
  <1>5. ASSUME NEW r \in Readers, SummaryTotal(r)
        PROVE  view'[r] \in Read /\ ViewHolds(r)' /\ \A q \in Readers : q # r => view'[q] = view[q]
    <2> DEFINE u == view[r].user
               rows == view[r].rows
    <2>1. /\ view[r].stage = "rows" /\ view[r] \in Read /\ ViewHolds(r)
          /\ view' = [view EXCEPT ![r].stage = "done", ![r].total = TotalXP(ledger, u)]
      BY <1>5, <1>a, <1>b DEF SummaryTotal, SumsInv
    <2>2. /\ u \in Users /\ rows \in [Challenges -> Progress \cup {None}]
          /\ \A c \in Challenges : Backs(rows[c], Paid(ledger, u, c))
      BY <2>1 DEF ViewHolds
    <2>3. TotalXP(ledger, u) \in Nat
      BY <1>b, TotalType
    <2>4. view' = [view EXCEPT ![r] = [view[r] EXCEPT !.stage = "done", !.total = TotalXP(ledger, u)]]
      BY <1>b, <2>1
    <2>5. view'[r] = [view[r] EXCEPT !.stage = "done", !.total = TotalXP(ledger, u)]
      BY <1>b, <2>4
    <2>6. view'[r] \in Read
      BY <2>1, <2>3, <2>5 DEF Read
    <2>7. /\ view'[r].stage = "done" /\ view'[r].user = u /\ view'[r].rows = rows
          /\ view'[r].total = TotalXP(ledger, u)
      BY <2>1, <2>5 DEF Read
    <2>8. Implied(rows) <= TotalXP(ledger, u) /\ Implied(rows) \in Nat
      <3> HIDE DEF u, rows
      <3> QED
        BY <1>b, <2>2, TotalCoversRows
    <2>9. ViewHolds(r)'
      <3>1. view'[r].user = u /\ view'[r].rows = rows /\ view'[r].stage = "done"
        BY <2>7
      <3>2. view'[r].total >= Implied(view'[r].rows)
        <4> HIDE DEF u, rows
        <4> QED
          BY <2>3, <2>7, <2>8
      <3> HIDE DEF u, rows
      <3> QED
        BY <2>2, <3>1, <3>2 DEF ViewHolds
    <2> QED
      BY <1>b, <2>4, <2>6, <2>9
  <1>6. UNCHANGED view \/ \E r \in Readers : SummaryRows(r) \/ SummaryTotal(r)
    BY DEF Next, Step, Tick, Judge, LockOwner, TakeRow, ReadProgress, Write, SumXP, Commit, Rollback,
           vars
  <1>7. \A r \in Readers : view'[r] \in Read /\ ViewHolds(r)'
    BY <1>3, <1>4, <1>5, <1>6
  <1>8. view' \in [Readers -> Read]
    <2>1. view' = [r \in Readers |-> view'[r]]
      BY <1>b, <1>6 DEF SummaryRows, SummaryTotal
    <2> QED
      BY <1>7, <2>1
  <1> QED
    BY <1>1, <1>2, <1>7, <1>8 DEF SumsInv

-----------------------------------------------------------------------------
(* The invariant *)

LEMMA Initially == Init => IInv
  <1> SUFFICES ASSUME Init PROVE IInv
    OBVIOUS
  <1> USE NoneAssumption DEF Init
  <1>1. SavesOK
    BY SavesAssumption DEF SavesOK, Locations, Times
  <1>2. OpenInv
    BY DEF OpenInv, Open
  <1>3. ReadsInv
    BY DEF ReadsInv, ReadsStand
  <1>4. MilestonesPaidOnce
    BY DEF MilestonesPaidOnce
  <1>5. LedgerMatchesProgress
    BY DEF LedgerMatchesProgress, Matches, Paid, Rows
  <1>6. ProgressMatchesSubmissions
    BY DEF ProgressMatchesSubmissions
  <1>7. SumsInv
    BY FS_EmptySet DEF SumsInv, ViewHolds, Read, Nothing
  <1> QED
    BY <1>1, <1>2, <1>3, <1>4, <1>5, <1>6, <1>7 DEF IInv

\* IInv holds in every reachable state.
THEOREM Invariance == Spec => []IInv
  <1>1. IInv /\ [Next]_vars => IInv'
    BY SavesStep, OpenStep, ReadsStep, PaidOnceStep, LedgerStep, MatchStep, SumsStep DEF IInv
  <1> QED
    BY <1>1, Initially, PTL DEF Spec

-----------------------------------------------------------------------------
(* What follows from it *)

\* Every variable of a save, every table and every answer holds values of its
\* type; the totals are sums of finitely many rewards.
THEOREM TypeCorrect == Spec => []TypeOK
  <1>1. IInv => TypeOK
    BY DEF IInv, SumsInv, TypeOK
  <1> QED
    BY <1>1, Invariance, PTL

\* However saves overlap, a progress row of user_progress is the exact summary of
\* the submissions that were committed: their number, their best, the most stars,
\* and the time of a passing one.
THEOREM NothingLostOrTwice == Spec => []ProgressMatchesSubmissions
  BY Invariance, PTL DEF IInv

\* get_summary reads progress and total in two statements, and a save may commit
\* between them: the total still covers all the stars that are shown.
THEOREM NeverUnderstated == Spec => []SummaryNeverUnderstates
  <1>1. IInv => SummaryNeverUnderstates
    BY DEF IInv, SumsInv, ViewHolds, SummaryNeverUnderstates
  <1> QED
    BY <1>1, Invariance, PTL

\* No milestone is paid twice, however saves of one player interleave.
THEOREM PaidOnce == Spec => []MilestonesPaidOnce
  BY Invariance, PTL DEF IInv

\* Ledger and progress agree in every state that another session can read.
THEOREM LedgerAgrees == Spec => []LedgerMatchesProgress
  BY Invariance, PTL DEF IInv

\* Progress never goes back.
THEOREM NeverLost == Spec => ProgressNeverLost
  <1>1. IInv /\ [Next]_vars =>
          [\A k \in Rows :
             LET old == progress[k]  new == progress'[k]
             IN  old # None =>
                   /\ new # None
                   /\ new.score >= old.score /\ new.stars >= old.stars
                   /\ new.attempts >= old.attempts
                   /\ new.best # old.best => new.score > old.score
                   /\ old.completed # None => new.completed = old.completed]_vars
    <2> SUFFICES ASSUME IInv, [Next]_vars, NEW k \in Rows, progress[k] # None
                 PROVE  LET old == progress[k]  new == progress'[k]
                        IN  /\ new # None
                            /\ new.score >= old.score /\ new.stars >= old.stars
                            /\ new.attempts >= old.attempts
                            /\ new.best # old.best => new.score > old.score
                            /\ old.completed # None => new.completed = old.completed
      OBVIOUS
    <2>a. SavesOK /\ OpenInv /\ ReadsInv
      BY DEF IInv
    <2>0. progress[k] \in Progress
      BY <2>a DEF SavesOK
    <2>1. CASE progress'[k] = progress[k]
      <3>1. /\ progress[k].score \in Scores /\ progress[k].stars \in 0..3
            /\ progress[k].attempts \in Nat
        BY <2>0 DEF Progress, Stars
      <3>2. progress[k].score \in Nat
        BY <3>1, PolicyAssumption
      <3> QED
        BY <2>1, <3>1, <3>2
    <2>2. ASSUME NEW s \in Saves, Commit(s), k = Row(s)
          PROVE  LET old == progress[k]  new == progress'[k]
                 IN  /\ new # None
                     /\ new.score >= old.score /\ new.stars >= old.stars
                     /\ new.attempts >= old.attempts
                     /\ new.best # old.best => new.score > old.score
                     /\ old.completed # None => new.completed = old.completed
      <3>1. /\ job[s] \in Job
            /\ progress'[k] = UpdateProgress(s, job[s].score, job[s].stars, job[s].at, progress[k])
        BY <2>a, <2>2, CommitEffect DEF SavesOK
      <3>2. /\ job[s].score \in Scores /\ job[s].stars \in Stars /\ job[s].at \in Times
            /\ progress[k] \in Progress \cup {None}
        BY <2>0, <3>1, JobFields
      <3> DEFINE new == UpdateProgress(s, job[s].score, job[s].stars, job[s].at, progress[k])
      <3>3. /\ new # None
            /\ new.score >= progress[k].score /\ new.stars >= progress[k].stars
            /\ new.attempts >= progress[k].attempts
            /\ new.best # progress[k].best => new.score > progress[k].score
            /\ progress[k].completed # None => new.completed = progress[k].completed
        BY <3>2, ProgressUpdated
      <3> QED
        BY <3>1, <3>3
    <2>3. UNCHANGED progress \/ \E s \in Saves : Commit(s)
      BY DEF Next, Step, Tick, Judge, LockOwner, TakeRow, ReadProgress, Write, SumXP, Rollback,
             SummaryRows, SummaryTotal, vars, tables
    <2>4. ASSUME NEW s \in Saves, Commit(s), k # Row(s)
          PROVE  progress'[k] = progress[k]
      BY <2>a, <2>4, CommitEffect DEF SavesOK
    <2> QED
      BY <2>1, <2>2, <2>3, <2>4
  <1> QED
    BY <1>1, Invariance, PTL DEF Spec, ProgressNeverLost

\* A Submit answers with the total that holds when it counts: the rows it summed
\* are still all of the player's when it commits.
THEOREM TotalRight == Spec => TotalAtCommit
  <1>1. IInv /\ [Next]_vars =>
          [\A s \in Saves :
             s \in counted' \ counted => total[s] = TotalXP(ledger', job[s].user)]_vars
    <2> SUFFICES ASSUME IInv, [Next]_vars, NEW s \in Saves, s \in counted' \ counted
                 PROVE  total[s] = TotalXP(ledger', job[s].user)
      OBVIOUS
    <2>1. PICK t \in Saves : Commit(t)
      BY DEF Next, Step, Tick, Judge, LockOwner, TakeRow, ReadProgress, Write, SumXP, Rollback,
             SummaryRows, SummaryTotal, vars, tables
    <2>2. /\ counted' = counted \cup {t} /\ ledger' = ledger \cup Awarded(t)
          /\ pc[t] = "summed"
      BY <2>1 DEF Commit
    <2>3. s = t
      BY <2>2
    <2> QED
      BY <2>2, <2>3 DEF IInv, ReadsInv, ReadsStand
  <1> QED
    BY <1>1, Invariance, PTL DEF Spec, TotalAtCommit

\* The transaction with its locks implements the promise: every commit is one
\* serial step, everything else a stutter.
THEOREM Serialised == Spec => SavesAreSerial
  <1>1. Init => Serial!Init
    BY DEF Init, Serial!Init, Rows
  <1>2. IInv /\ [Next]_vars => [Serial!Next]_Serial!vars
    <2> SUFFICES ASSUME IInv, [Next]_vars
                 PROVE  Serial!Next \/ UNCHANGED Serial!vars
      OBVIOUS
    <2>1. UNCHANGED tables \/ \E s \in Saves : Commit(s)
      BY DEF Next, Step, Tick, Judge, LockOwner, TakeRow, ReadProgress, Write, SumXP, Rollback,
             SummaryRows, SummaryTotal, vars
    <2>2. CASE UNCHANGED tables
      BY <2>2 DEF tables, Serial!vars
    <2>3. ASSUME NEW s \in Saves, Commit(s)
          PROVE  Serial!Next
      <3>1. /\ job[s] \in Job /\ s \notin counted
            /\ progress' = [progress EXCEPT ![Row(s)] =
                 UpdateProgress(s, job[s].score, job[s].stars, job[s].at, progress[Row(s)])]
            /\ ledger' = ledger \cup Awarded(s)
            /\ awards[s] = NewAwards(job[s].stars, job[s].difficulty,
                                     Paid(ledger, job[s].user, job[s].challenge))
            /\ counted' = counted \cup {s}
        BY <2>3, CommitEffect DEF IInv
      <3>2. Serial!UpdateProgress(s, job[s].score, job[s].stars, job[s].at, progress[Row(s)])
              = UpdateProgress(s, job[s].score, job[s].stars, job[s].at, progress[Row(s)])
        BY DEF Serial!UpdateProgress, UpdateProgress, Serial!Better, Better
      <3>3. Serial!NewAwards(job[s].stars, job[s].difficulty,
                             Serial!Paid(ledger, job[s].user, job[s].challenge)) = awards[s]
        BY <3>1 DEF Serial!NewAwards, NewAwards, Serial!Earned, Earned, Serial!Reasons, Reasons,
                    Serial!CompletionReasons, CompletionReasons, Serial!Paid, Paid
      <3>4. Awarded(s) = {Serial!Award(s, job[s].user, job[s].challenge, r) : r \in awards[s]}
        BY DEF Awarded, Award, Serial!Award
      <3>5. Serial!Count(s, job[s].user, job[s].challenge, job[s].score, job[s].stars,
                         job[s].difficulty, job[s].at)
        BY <3>1, <3>2, <3>3, <3>4 DEF Serial!Count, Row
      <3> QED
        BY <3>1, <3>5, JobFields
        DEF Serial!Next, Serial!Stars, Stars, Serial!Difficulties, Difficulties
    <2> QED
      BY <2>1, <2>2, <2>3
  <1> QED
    BY <1>1, <1>2, Invariance, PTL DEF Spec, SavesAreSerial, Serial!Spec
=============================================================================
