------------------------------ MODULE Ranking ------------------------------
(***************************************************************************)
(* How submissions are ranked.  The canonical order is that of             *)
(* rank_best_submissions; the leaderboard and the profile each restate it  *)
(* as SQL window functions, partitioned differently.                       *)
(*                                                                         *)
(* A submission's merit stands for its final score, accuracy and prompt    *)
(* tokens, more merit being better; its id for the tie-breakers, created_at *)
(* and the UUID, which need not be the order of the commits.               *)
(***************************************************************************)
EXTENDS Naturals, FiniteSets, FiniteSetsExt, SequencesExt

CONSTANTS
  Users, Challenges,
  MaxVersion,     \* bound on the versions of a challenge
  MaxMerit,       \* bound on the merits
  MaxSubmissions  \* bound on the submissions

Versions == 1..MaxVersion

Merits == 0..MaxMerit

Ids == 1..MaxSubmissions

ASSUME RankingAssumption ==
  MaxMerit \in Nat /\ MaxVersion \in Nat \ {0} /\ MaxSubmissions \in Nat

Submission ==
  [id : Ids, user : Users, challenge : Challenges, version : Versions, merit : Merits]

\* The ranking key, as an order.
Before(s, t) == s.merit > t.merit \/ (s.merit = t.merit /\ s.id < t.id)

-----------------------------------------------------------------------------
(* rank_best_submissions: one pass that keeps the best of each user, a sort. *)

Nobody == [id |-> 0]

\* Mutant: the last submission of a user counts.
KeepLast(best, s) == [best EXCEPT ![s.user] = s]

KeepBetter(best, s) ==
  IF best[s.user] = Nobody \/ Before(s, best[s.user])
  THEN [best EXCEPT ![s.user] = s]
  ELSE best

BestByUser(candidates) ==
  FoldLeft(KeepBetter, [u \in Users |-> Nobody], candidates)

\* sorted(S, key = ranking_key), all keys of which differ.
InOrder(S) ==
  CHOOSE f \in [1..Cardinality(S) -> S] : \A i, j \in DOMAIN f : i < j => Before(f[i], f[j])

RankBestSubmissions(candidates) ==
  LET best == BestByUser(candidates)
  IN  InOrder({best[u] : u \in {v \in Users : best[v] # Nobody}})

-----------------------------------------------------------------------------
(* The leaderboard's query over the submissions of one challenge version.    *)

\* row_number() OVER (PARTITION BY user ORDER BY key) = 1
UserBest(eligible) ==
  {s \in eligible : \A t \in eligible : t.user = s.user => t = s \/ Before(s, t)}

\* row_number() OVER (ORDER BY key)
Rank(eligible, s) == 1 + Cardinality({t \in UserBest(eligible) : Before(t, s)})

\* One page of it.
PageOf(eligible, offset, limit) ==
  {s \in UserBest(eligible) :
     Rank(eligible, s) > offset /\ Rank(eligible, s) <= offset + limit}

-----------------------------------------------------------------------------
(* The profile's query over the submissions of all active versions at once.  *)

\* PARTITION BY challenge, user
BestPerChallenge(eligible) ==
  {s \in eligible : \A t \in eligible :
     t.challenge = s.challenge /\ t.user = s.user => t = s \/ Before(s, t)}

\* Mutant: the second window is not partitioned.
RankOverall(eligible, s) == 1 + Cardinality({t \in BestPerChallenge(eligible) : Before(t, s)})

\* PARTITION BY challenge
RankInChallenge(eligible, s) ==
  1 + Cardinality({t \in BestPerChallenge(eligible) :
                     t.challenge = s.challenge /\ Before(t, s)})

\* MIN(rank) of the user, 0 if there is none.
BestRank(eligible, u) ==
  LET ranks == {RankInChallenge(eligible, s) :
                  s \in {t \in BestPerChallenge(eligible) : t.user = u}}
  IN  IF ranks = {} THEN 0 ELSE Min(ranks)
=============================================================================
