-------------------------- MODULE Standing_proofs --------------------------
(***************************************************************************)
(* Proofs about Standing, for any players, challenges, versions, verdicts  *)
(* and edits and any number of requests.  Two monotonicities carry them:   *)
(* submissions and stars only grow (PlayInv, BoardInv), and the catalog is *)
(* what a request has read of it until an edit comes (CalmInv).            *)
(***************************************************************************)
EXTENDS Standing, FiniteFolds

UniqueIds(S) == \A s, t \in S : s.id = t.id => s = t

OneEach(S) == \A s, t \in S : s.user = t.user => s = t

SubmissionsInv == IsFiniteSet(submissions) /\ UniqueIds(submissions)

OrderInv == \A c, d \in Challenges : order[c] = order[d] => c = d

\* What a player had completed he still has: stars are never lost.
PlayHolds(p) ==
  /\ play[p].stage # "idle" => play[p].challenge \in Challenges /\ play[p].version \in Versions
  /\ play[p].had => /\ play[p].user \in Users /\ play[p].challenge \in Challenges
                    /\ stars[<<play[p].user, play[p].challenge>>] >= 1
  /\ play[p].stage = "refused" => ~play[p].had
  /\ play[p].stage \in {"pointer", "loaded"} => play[p].path = {}

\* What an undisturbed request has read of the catalog still stands.
CalmHolds(p) ==
  /\ play[p].stage \in {"pointer", "loaded", "listing"} =>
       current[play[p].challenge] = play[p].version
  /\ play[p].stage = "listing" => play[p].rows \cup play[p].path = Path

\* What a leaderboard answer shows is still there to be counted and compared.
BoardHolds(b) ==
  /\ board[b].stage \in {"page", "total", "answered"} =>
       board[b].entries \subseteq Seen(b) /\ OneEach(board[b].entries)
  /\ board[b].stage \in {"total", "answered"} =>
       Cardinality(board[b].entries) <= board[b].total
  /\ board[b].stage = "answered" =>
       \A s \in board[b].entries : s.user = board[b].user =>
         \E t \in board[b].own : t = s \/ Before(t, s)

\* What an undisturbed profile has counted is still published, so that what it
\* reads next adds up.
ProfileHolds(q) ==
  /\ profile[q].stage = "count" =>
       profile[q].user \in Users /\ profile[q].published = Cardinality(Published)
  /\ profile[q].stage # "rejected"

PlayInv == \A p \in Plays : PlayHolds(p)

CalmInv == \A p \in Plays \cap calm : CalmHolds(p)

BoardInv == \A b \in Boards : BoardHolds(b)

ProfileInv == \A q \in Profiles \cap calm : ProfileHolds(q)

IInv ==
  TypeOK /\ SubmissionsInv /\ OrderInv /\ PlayInv /\ CalmInv /\ BoardInv /\ ProfileInv

-----------------------------------------------------------------------------
(* The ranking *)

LEMMA SubmissionFields ==
  ASSUME NEW s \in Submission
  PROVE  /\ s.id \in Nat /\ s.merit \in 0..MaxMerit /\ s.merit \in Nat
         /\ s.user \in Users /\ s.challenge \in Challenges /\ s.version \in Versions
  BY RankingAssumption DEF Submission, Ids, Merits

\* Any submissions have a best one.
LEMMA BestExists ==
  ASSUME NEW S, S \subseteq Submission, UniqueIds(S), S # {}
  PROVE  \E s \in S : \A t \in S : t = s \/ Before(s, t)
<1> DEFINE merits == {s.merit : s \in S}
<1>1. merits \subseteq 0..MaxMerit /\ merits # {}
  BY SubmissionFields
<1>2. PICK m \in merits : \A k \in merits : k <= m
  <2> HIDE DEF merits
  <2> QED BY <1>1, GreatestNat, RankingAssumption
<1> DEFINE top == {s \in S : s.merit = m}
           ids == {s.id : s \in top}
<1>3. ids \subseteq Nat /\ ids # {}
  BY <1>2, SubmissionFields
<1>4. PICK i \in ids : \A k \in ids : i <= k
  <2> HIDE DEF ids
  <2> QED BY <1>3, LeastNat
<1>5. PICK s \in top : s.id = i
  BY <1>4
<1>6. ASSUME NEW t \in S
      PROVE  t = s \/ Before(s, t)
  <2>1. t.merit <= m /\ s.merit = m /\ t.merit \in Nat /\ s.merit \in Nat /\ t.id \in Nat /\ s.id \in Nat
    BY <1>2, <1>5, SubmissionFields
  <2>2. CASE t.merit = m
    <3>1. s.id <= t.id
      BY <1>4, <1>5, <2>2
    <3> QED
      BY <2>1, <2>2, <3>1 DEF Before, UniqueIds
  <2>3. CASE t.merit # m
    BY <2>1, <2>3 DEF Before
  <2> QED
    BY <2>2, <2>3
<1> QED
  BY <1>5, <1>6

\* A submission's user has a place, no worse than this submission.
LEMMA PlaceOfUser ==
  ASSUME NEW S, S \subseteq Submission, UniqueIds(S), NEW s \in S
  PROVE  \E t \in UserBest(S) : t.user = s.user /\ (t = s \/ Before(t, s))
<1> DEFINE mine == {t \in S : t.user = s.user}
<1>1. mine \subseteq Submission /\ UniqueIds(mine) /\ mine # {}
  BY DEF UniqueIds
<1>2. PICK t \in mine : \A r \in mine : r = t \/ Before(t, r)
  <2> HIDE DEF mine
  <2> QED BY <1>1, BestExists
<1> QED
  BY <1>2 DEF UserBest

\* A user has one place.
LEMMA PlacesDiffer ==
  ASSUME NEW S, S \subseteq Submission
  PROVE  OneEach(UserBest(S))
<1> SUFFICES ASSUME NEW s \in UserBest(S), NEW t \in UserBest(S), s.user = t.user, s # t
             PROVE  FALSE
  BY DEF OneEach
<1>1. Before(s, t) /\ Before(t, s)
  BY DEF UserBest
<1> QED
  BY <1>1, SubmissionFields DEF Before, UserBest

\* However the submissions have grown, the players shown before are still counted.
LEMMA ShownAreCounted ==
  ASSUME NEW S, S \subseteq Submission, IsFiniteSet(S), UniqueIds(S),
         NEW E, E \subseteq S, OneEach(E)
  PROVE  Cardinality(E) <= Cardinality(UserBest(S))
<1> DEFINE f == [s \in E |-> CHOOSE t \in UserBest(S) : t.user = s.user]
<1>1. \A s \in E : f[s] \in UserBest(S) /\ f[s].user = s.user
  BY PlaceOfUser
<1>2. f \in [E -> UserBest(S)]
  BY <1>1
<1>3. \A s, t \in E : f[s] = f[t] => s = t
  BY <1>1 DEF OneEach
<1>4. f \in Injection(E, UserBest(S))
  <2> HIDE DEF f
  <2> QED BY <1>2, <1>3 DEF Injection, IsInjective
<1>5. IsFiniteSet(UserBest(S))
  BY FS_Subset DEF UserBest
<1> QED
  BY <1>4, <1>5, FS_Injection

-----------------------------------------------------------------------------
(* The ranking in memory *)

\* The ranking key orders submissions strictly.
LEMMA BeforeIsStrict ==
  ASSUME NEW s \in Submission, NEW t \in Submission
  PROVE  /\ ~(Before(s, t) /\ Before(t, s))
         /\ s.id # t.id => Before(s, t) \/ Before(t, s)
  BY SubmissionFields DEF Before

LEMMA BeforeIsTransitive ==
  ASSUME NEW r \in Submission, NEW s \in Submission, NEW t \in Submission,
         Before(r, s), Before(s, t)
  PROVE  Before(r, t)
  BY SubmissionFields DEF Before

LEMMA NobodyIsNone == Nobody \notin Submission
<1>1. Nobody.id = 0
  BY DEF Nobody
<1> QED
  BY <1>1, RankingAssumption DEF Submission, Ids

\* What best_by_user is once the submissions T have been seen.
Tallied(best, T) ==
  /\ best \in [Users -> T \cup {Nobody}]
  /\ \A u \in Users : IF \E t \in T : t.user = u
                      THEN best[u] \in UserBest(T) /\ best[u].user = u
                      ELSE best[u] = Nobody

\* One round of the loop.
LEMMA KeepBetterTallies ==
  ASSUME NEW T, T \subseteq Submission, NEW x \in Submission, UniqueIds(T \cup {x}),
         NEW best, Tallied(best, T)
  PROVE  Tallied(KeepBetter(best, x), T \cup {x})
<1> DEFINE new == KeepBetter(best, x)
           old == best[x.user]
           TT == T \cup {x}
<1>1. x.user \in Users /\ best \in [Users -> T \cup {Nobody}]
  BY SubmissionFields DEF Tallied
<1>2. \A v \in Users : v # x.user => new[v] = best[v]
  BY <1>1 DEF KeepBetter
<1>3. new \in [Users -> TT \cup {Nobody}]
  BY <1>1 DEF KeepBetter
<1>4. ASSUME NEW v \in Users, v # x.user
      PROVE  IF \E t \in TT : t.user = v THEN new[v] \in UserBest(TT) /\ new[v].user = v
             ELSE new[v] = Nobody
  BY <1>2, <1>4 DEF Tallied, UserBest
<1>5. new[x.user] \in UserBest(TT) /\ new[x.user].user = x.user
  <2>1. CASE old = Nobody
    <3>1. new[x.user] = x
      BY <1>1, <2>1 DEF KeepBetter
    <3>2. \A t \in T : t.user # x.user
      BY <1>1, <2>1, NobodyIsNone DEF Tallied, UserBest
    <3> QED
      BY <3>1, <3>2 DEF UserBest
  <2>2. CASE old # Nobody
    <3>1. old \in UserBest(T) /\ old.user = x.user /\ old \in T
      BY <1>1, <2>2 DEF Tallied, UserBest
    <3>2. \A t \in T : t.user = x.user => t = old \/ Before(old, t)
      BY <3>1 DEF UserBest
    <3>3. CASE Before(x, old)
      <4>1. new[x.user] = x
        BY <1>1, <3>3 DEF KeepBetter
      <4>2. \A t \in T : t.user = x.user => Before(x, t)
        BY <3>1, <3>2, <3>3, BeforeIsTransitive
      <4> QED
        BY <4>1, <4>2 DEF UserBest
    <3>4. CASE ~Before(x, old)
      <4>1. new[x.user] = old
        BY <2>2, <3>4 DEF KeepBetter
      <4>2. x = old \/ Before(old, x)
        BY <3>1, <3>4, BeforeIsStrict DEF UniqueIds
      <4> QED
        BY <3>1, <3>2, <4>1, <4>2 DEF UserBest
    <3> QED
      BY <3>3, <3>4
  <2> QED
    BY <2>1, <2>2
<1>6. \A u \in Users : IF \E t \in TT : t.user = u THEN new[u] \in UserBest(TT) /\ new[u].user = u
                       ELSE new[u] = Nobody
  BY <1>4, <1>5
<1> QED
  BY <1>3, <1>6 DEF Tallied

\* The whole loop.
LEMMA BestByUserTallies ==
  ASSUME NEW n \in Nat, NEW T, T \subseteq Submission, UniqueIds(T), NEW seq \in [1..n -> T]
  PROVE  Tallied(BestByUser(seq), {seq[i] : i \in 1..n})
<1> DEFINE D == 1..n
           base == [u \in Users |-> Nobody]
           V == [Users -> Submission \cup {Nobody}]
           P == [s \in SUBSET D |-> Max(s)]
           F == [s \in SUBSET D |-> [b \in V |-> IF s = {} THEN base
                                                 ELSE KeepBetter(b, seq[Max(s)])]]
           Iterates(g) == g = [s \in SUBSET D |-> IF s = {} THEN base
                                                  ELSE KeepBetter(g[s \ {Max(s)}], seq[Max(s)])]
<1>1. \A s \in SUBSET D : s # {} => Max(s) \in s
  <2> SUFFICES ASSUME NEW s \in SUBSET D, s # {}
               PROVE  Max(s) \in s
    OBVIOUS
  <2>1. s \subseteq 0..n
    OBVIOUS
  <2> QED
    BY <2>1, GreatestIsMax
<1>2. F \in [SUBSET D -> [V -> V]]
  <2>1. ASSUME NEW s \in SUBSET D, NEW b \in V
        PROVE  (IF s = {} THEN base ELSE KeepBetter(b, seq[Max(s)])) \in V
    <3>1. CASE s = {}
      BY <3>1
    <3>2. CASE s # {}
      <4>1. seq[Max(s)] \in Submission
        BY <1>1, <3>2
      <4>2. seq[Max(s)].user \in Users
        BY <4>1, SubmissionFields
      <4>3. KeepBetter(b, seq[Max(s)]) \in V
        BY <4>1, <4>2 DEF KeepBetter
      <4> QED BY <3>2, <4>3
    <3> QED BY <3>1, <3>2
  <2>2. \A s \in SUBSET D :
          [b \in V |-> IF s = {} THEN base ELSE KeepBetter(b, seq[Max(s)])] \in [V -> V]
    BY <2>1
  <2> QED BY <2>2
<1>3. IsFiniteSet(D) /\ base \in V /\ D \in SUBSET D
  BY FS_Interval
<1>4. \E g : Iterates(g)
  <2>1. \A s \in SUBSET D : s # {} => P[s] = Max(s) /\ P[s] \in s
    BY <1>1
  <2>2. PICK h \in [SUBSET D -> V] : Folds(h, F, P, base, D)
    <3> HIDE DEF P, F, V, base, D
    <3> QED BY <1>2, <1>3, <2>1, FoldExists
  <2>3. ASSUME NEW s \in SUBSET D
        PROVE  h[s] = IF s = {} THEN base ELSE KeepBetter(h[s \ {Max(s)}], seq[Max(s)])
    <3>1. h[s] = IF s = {} THEN base ELSE F[s][h[s \ {P[s]}]]
      BY <2>2 DEF Folds
    <3>2. s # {} => h[s \ {Max(s)}] \in V
      OBVIOUS
    <3> HIDE DEF V
    <3> QED BY <2>1, <3>1, <3>2
  <2>4. h = [s \in SUBSET D |-> h[s]]
    OBVIOUS
  <2>5. Iterates(h)
    <3> HIDE DEF D, base, V, F, P
    <3> QED BY <2>3, <2>4
  <2> HIDE DEF Iterates
  <2> QED BY <2>5
<1> DEFINE g == CHOOSE g : Iterates(g)
<1>5. BestByUser(seq) = g[D]
  <2>1. DOMAIN seq = D
    OBVIOUS
  <2>2. BestByUser(seq) =
          (CHOOSE g1 : g1 = [s \in SUBSET DOMAIN seq |->
                               IF s = {} THEN base
                               ELSE KeepBetter(g1[s \ {Max(s)}], seq[Max(s)])])[DOMAIN seq]
    BY DEF BestByUser, FoldLeft, MapThenFoldSet
  <2> QED BY <2>1, <2>2
<1>6. Iterates(g)
  <2> HIDE DEF Iterates
  <2> QED BY <1>4
<1> HIDE DEF g
<1>7. g[{}] = base /\ \A s \in SUBSET D : s # {} =>
        g[s] = KeepBetter(g[s \ {Max(s)}], seq[Max(s)])
  BY <1>6
<1> DEFINE Given(s) == {seq[i] : i \in s}
           G == {s \in SUBSET D : Tallied(g[s], Given(s))}
<1>8. {} \in G
  BY <1>7 DEF Tallied
<1>9. ASSUME NEW s \in SUBSET D, s # {}, \A x \in s : s \ {x} \in G
      PROVE  s \in G
  <2> DEFINE m == Max(s)
             t == s \ {m}
  <2>1. m \in s
    BY <1>1, <1>9
  <2>2. Tallied(g[t], Given(t))
    BY <1>9, <2>1
  <2>3. Given(s) = Given(t) \cup {seq[m]} /\ Given(s) \subseteq T /\ seq[m] \in T
    BY <2>1
  <2>4. UniqueIds(Given(s))
    BY <2>3 DEF UniqueIds
  <2>5. g[s] = KeepBetter(g[t], seq[m])
    BY <1>7, <1>9
  <2> HIDE DEF Given, t, m
  <2>6. Tallied(KeepBetter(g[t], seq[m]), Given(t) \cup {seq[m]})
    BY <2>2, <2>3, <2>4, KeepBetterTallies
  <2> QED
    BY <2>3, <2>5, <2>6
<1>10. D \in G
  <2> HIDE DEF G, D
  <2> QED BY <1>3, <1>8, <1>9, AllSubsets
<1> QED
  BY <1>5, <1>10

\* What the loop leaves is what the window query keeps.
LEMMA TalliedAreBest ==
  ASSUME NEW T, T \subseteq Submission, NEW best, Tallied(best, T)
  PROVE  {best[u] : u \in {v \in Users : best[v] # Nobody}} = UserBest(T)
<1>1. \A u \in Users : best[u] # Nobody => best[u] \in UserBest(T)
  BY DEF Tallied
<1>2. ASSUME NEW s \in UserBest(T)
      PROVE  s.user \in Users /\ best[s.user] = s /\ s # Nobody
  <2>1. s \in T /\ s \in Submission /\ s.user \in Users
    BY SubmissionFields DEF UserBest
  <2>2. best[s.user] \in UserBest(T) /\ best[s.user].user = s.user
    BY <2>1 DEF Tallied
  <2> QED
    BY <2>1, <2>2, PlacesDiffer, NobodyIsNone DEF OneEach
<1> QED
  BY <1>1, <1>2

\* The place of s among U: Rank, for any set.
Place(U, s) == 1 + Cardinality({t \in U : Before(t, s)})

LEMMA PlaceIsMonotone ==
  ASSUME NEW U, U \subseteq Submission, IsFiniteSet(U), NEW s \in U
  PROVE  /\ Place(U, s) \in 1..Cardinality(U)
         /\ \A t \in U : Before(s, t) => Place(U, s) < Place(U, t)
<1> DEFINE Ahead(t) == {r \in U : Before(r, t)}
<1>1. ASSUME NEW t \in U
      PROVE  /\ IsFiniteSet(Ahead(t)) /\ Cardinality(Ahead(t)) \in Nat
             /\ Cardinality(Ahead(t)) < Cardinality(U) /\ Cardinality(U) \in Nat
  <2>1. Ahead(t) \in SUBSET U /\ t \notin Ahead(t)
    BY BeforeIsStrict
  <2> HIDE DEF Ahead
  <2>2. Ahead(t) # U
    BY <2>1
  <2> QED
    BY <2>1, <2>2, FS_Subset, FS_CardinalityType
<1>2. ASSUME NEW t \in U, Before(s, t)
      PROVE  Cardinality(Ahead(s)) < Cardinality(Ahead(t))
  <2>1. Ahead(s) \in SUBSET Ahead(t)
    BY <1>2, BeforeIsTransitive
  <2>2. s \in Ahead(t) /\ s \notin Ahead(s)
    BY <1>2, BeforeIsStrict
  <2>3. Cardinality(Ahead(s)) \in Nat /\ Cardinality(Ahead(t)) \in Nat /\ IsFiniteSet(Ahead(t))
    BY <1>1
  <2> HIDE DEF Ahead
  <2> QED
    BY <2>1, <2>2, <2>3, FS_Subset
<1> HIDE DEF Ahead
<1>3. \A t \in U : Place(U, t) = 1 + Cardinality(Ahead(t))
  BY DEF Place, Ahead
<1> QED
  BY <1>1, <1>2, <1>3

\* The sort succeeds, and puts everyone in his place.
LEMMA InOrderIsRank ==
  ASSUME NEW U, U \subseteq Submission, IsFiniteSet(U), UniqueIds(U)
  PROVE  /\ InOrder(U) \in [1..Cardinality(U) -> U]
         /\ \A i \in 1..Cardinality(U) : Place(U, InOrder(U)[i]) = i
<1> DEFINE n == Cardinality(U)
           Sorted(f) == \A i, j \in DOMAIN f : i < j => Before(f[i], f[j])
<1>1. n \in Nat /\ IsFiniteSet(1..n) /\ Cardinality(1..n) = n
  <2>1. n \in Nat
    BY FS_CardinalityType
  <2> HIDE DEF n
  <2> QED
    BY <2>1, FS_Interval
<1>2. \A s, t \in U : s # t => Before(s, t) \/ Before(t, s)
  BY BeforeIsStrict DEF UniqueIds
<1>3. \A s \in U : Place(U, s) \in 1..n
  BY PlaceIsMonotone
<1>4. \A s, t \in U : Before(s, t) => Place(U, s) < Place(U, t)
  BY PlaceIsMonotone
<1> HIDE DEF n
<1>5. \E f \in [1..n -> U] : Sorted(f)
  <2> DEFINE p == [s \in U |-> Place(U, s)]
  <2>1. p \in Injection(U, 1..n)
    <3>1. p \in [U -> 1..n]
      BY <1>3
    <3>2. \A s, t \in U : p[s] = p[t] => s = t
      BY <1>1, <1>2, <1>3, <1>4
    <3> QED
      BY <3>1, <3>2 DEF Injection, IsInjective
  <2>2. p \in Surjection(U, 1..n)
    <3> HIDE DEF p
    <3> QED BY <1>1, <2>1, FS_Injection DEF n
  <2>3. \A i \in 1..n : \E s \in U : Place(U, s) = i
    BY <2>2 DEF Surjection
  <2> DEFINE f == [i \in 1..n |-> CHOOSE s \in U : Place(U, s) = i]
  <2>4. \A i \in 1..n : f[i] \in U /\ Place(U, f[i]) = i
    BY <2>3
  <2>5. f \in [1..n -> U]
    BY <2>4
  <2> HIDE DEF f
  <2>6. ASSUME NEW i \in 1..n, NEW j \in 1..n, i < j
        PROVE  Before(f[i], f[j])
    <3>1. f[i] # f[j]
      BY <2>4, <2>6
    <3>2. ~Before(f[j], f[i])
      BY <1>1, <1>4, <2>4, <2>6
    <3> QED
      BY <1>2, <2>4, <3>1, <3>2
  <2> QED
    BY <2>5, <2>6
<1> DEFINE f == InOrder(U)
<1>6. f \in [1..n -> U] /\ Sorted(f)
  BY <1>5 DEF InOrder, n
<1> HIDE DEF f
<1>7. \A i, j \in 1..n : i < j => Before(f[i], f[j])
  BY <1>6
<1>8. \A i, j \in 1..n : f[i] = f[j] => i = j
  <2> SUFFICES ASSUME NEW i \in 1..n, NEW j \in 1..n, f[i] = f[j], i < j
               PROVE  FALSE
    BY <1>1
  <2>1. Before(f[i], f[i]) /\ f[i] \in Submission
    BY <1>6, <1>7
  <2> QED
    BY <2>1, BeforeIsStrict
<1>9. f \in Surjection(1..n, U)
  <2>1. f \in Injection(1..n, U)
    BY <1>6, <1>8 DEF Injection, IsInjective
  <2> QED
    BY <1>1, <2>1, FS_Injection DEF n
<1>10. ASSUME NEW i \in 1..n
       PROVE  Place(U, f[i]) = i
  <2> DEFINE ahead == {t \in U : Before(t, f[i])}
             h == [j \in 1..(i - 1) |-> f[j]]
  <2>1. \A j \in 1..(i - 1) : j \in 1..n /\ j < i
    BY <1>1
  <2>2. \A j \in 1..(i - 1) : f[j] \in ahead
    BY <1>6, <1>7, <2>1
  <2>3. ASSUME NEW t \in ahead
        PROVE  \E j \in 1..(i - 1) : f[j] = t
    <3>1. PICK j \in 1..n : f[j] = t
      BY <1>9 DEF Surjection
    <3>2. f[i] \in U /\ t \in Submission /\ f[i] \in Submission
      BY <1>6
    <3>3. j # i
      BY <2>3, <3>1, <3>2, BeforeIsStrict
    <3>4. ~(i < j)
      BY <1>7, <2>3, <3>1, <3>2, BeforeIsStrict
    <3>5. j \in 1..(i - 1)
      BY <1>1, <3>3, <3>4
    <3> QED
      BY <3>1, <3>5
  <2>4. h \in Bijection(1..(i - 1), ahead)
    <3>1. h \in [1..(i - 1) -> ahead]
      BY <2>2
    <3>2. \A j, k \in 1..(i - 1) : h[j] = h[k] => j = k
      BY <1>8, <2>1
    <3>3. \A t \in ahead : \E j \in 1..(i - 1) : h[j] = t
      BY <2>3
    <3> HIDE DEF h, ahead
    <3> QED
      BY <3>1, <3>2, <3>3 DEF Bijection, Injection, Surjection, IsInjective
  <2>5. i - 1 \in Nat /\ i \in Nat
    BY <1>1
  <2>6. Cardinality(ahead) = i - 1
    <3> HIDE DEF ahead, h
    <3> QED BY <2>4, <2>5, FS_CountingElements DEF ExistsBijection
  <2> QED
    BY <2>5, <2>6 DEF Place
<1> QED
  BY <1>6, <1>10 DEF n, f

\* For any submissions, the two rankings have the same players in the same places.
LEMMA RankingsOf ==
  ASSUME NEW E, E \subseteq Submission, IsFiniteSet(E), UniqueIds(E)
  PROVE  LET ranked == RankBestSubmissions(SetToSeq(E))
         IN  /\ Len(ranked) = Cardinality(UserBest(E))
             /\ \A i \in 1..Len(ranked) :
                  ranked[i] \in UserBest(E) /\ Rank(E, ranked[i]) = i
<1> DEFINE n == Cardinality(E)
           seq == SetToSeq(E)
           U == UserBest(E)
<1>1. n \in Nat /\ IsFiniteSet(1..n) /\ Cardinality(1..n) = n /\ ExistsBijection(1..n, E)
  <2>1. n \in Nat /\ ExistsBijection(1..n, E)
    BY FS_CardinalityType
  <2> HIDE DEF n
  <2> QED
    BY <2>1, FS_Interval
<1>2. seq \in Injection(1..n, E)
  BY <1>1 DEF SetToSeq, ExistsBijection, Bijection, Injection
<1> HIDE DEF seq
<1>3. seq \in Surjection(1..n, E)
  BY <1>1, <1>2, FS_Injection
<1> HIDE DEF n
<1>4. seq \in [1..n -> E] /\ {seq[i] : i \in 1..n} = E
  BY <1>2, <1>3 DEF Injection, Surjection
<1>5. Tallied(BestByUser(seq), E)
  BY <1>1, <1>4, BestByUserTallies
<1>6. RankBestSubmissions(seq) = InOrder(U)
  BY <1>5, TalliedAreBest DEF RankBestSubmissions
<1>7. U \subseteq Submission /\ IsFiniteSet(U) /\ UniqueIds(U) /\ Cardinality(U) \in Nat
  BY FS_Subset, FS_CardinalityType DEF UserBest, UniqueIds
<1>8. \A s : Rank(E, s) = Place(U, s)
  BY DEF Rank, Place
<1> HIDE DEF U
<1>9. /\ InOrder(U) \in [1..Cardinality(U) -> U]
      /\ \A i \in 1..Cardinality(U) : Place(U, InOrder(U)[i]) = i
  BY <1>7, InOrderIsRank
<1>10. Len(InOrder(U)) = Cardinality(U)
  BY <1>7, <1>9
<1> QED
  BY <1>6, <1>8, <1>9, <1>10 DEF seq, U

-----------------------------------------------------------------------------
(* The path *)

LEMMA PathItems ==
  ASSUME TypeOK
  PROVE  /\ Path \subseteq Item
         /\ \A i \in Path : /\ i.challenge \in Published
                            /\ i.order = order[i.challenge]
                            /\ i.version = current[i.challenge]
         /\ \A c \in Published : \E i \in Path : i.challenge = c
         /\ Published \subseteq Challenges
<1>1. \A c \in Published : c \in Challenges /\ order[c] \in Orders /\ current[c] \in Versions
  BY DEF Published, TypeOK
<1>2. ASSUME NEW i \in Path
      PROVE  /\ i \in Item /\ i.challenge \in Published
             /\ i.order = order[i.challenge] /\ i.version = current[i.challenge]
  <2>1. PICK c \in Published : i = [challenge |-> c, order |-> order[c], version |-> current[c]]
    BY DEF Path
  <2> QED
    BY <1>1, <2>1 DEF Item
<1>3. ASSUME NEW c \in Published
      PROVE  \E i \in Path : i.challenge = c
  <2>1. [challenge |-> c, order |-> order[c], version |-> current[c]] \in Path
    BY DEF Path
  <2> QED
    BY <2>1
<1> QED
  BY <1>1, <1>2, <1>3

LEMMA BestType ==
  ASSUME TypeOK, NEW u \in Users \cup {None}, NEW c \in Challenges
  PROVE  Best(u, c) \in Stars
  BY StandingAssumption DEF Best, TypeOK, Stars

\* On the path as it is, what evaluate_path says is the rule of PRODUCT.md.
LEMMA RuleOfPath ==
  ASSUME TypeOK, OrderInv, NEW u \in Users \cup {None}, NEW i \in Path
  PROVE  Accessible(Path, i, u) <=> Open(u, i.challenge)
<1> DEFINE c == i.challenge
           before == {d \in Published : order[d] < order[c]}
           earlier == {j \in Path : j.order < i.order}
           next == \E j \in earlier : /\ \A k \in earlier : k.order <= j.order
                                     /\ Best(u, j.challenge) >= 1
<1>1. c \in Published /\ i.order = order[c] /\ c \in Challenges
  BY PathItems
<1>2. Best(u, c) \in 0..3
  BY <1>1, BestType DEF Stars
<1>3. CASE Best(u, c) >= 1
  <2>1. Status(Path, i, u) \in {"mastered", "completed"}
    BY <1>3 DEF Status
  <2> QED
    BY <1>3, <2>1 DEF Accessible, Open
<1>4. CASE ~(Best(u, c) >= 1)
  <2>1. Accessible(Path, i, u) <=> earlier = {} \/ next
    BY <1>2, <1>4 DEF Accessible, Status
  <2>2. Open(u, c) <=> \A d \in Preceding(c) : Best(u, d) >= 1
    BY <1>4 DEF Open
  <2>3. CASE before = {}
    <3>1. earlier = {}
      BY <1>1, <2>3, PathItems
    <3>2. Preceding(c) = {}
      BY <2>3 DEF Preceding
    <3> QED
      BY <2>1, <2>2, <3>1, <3>2
  <2>4. CASE before # {}
    <3> DEFINE places == {order[d] : d \in before}
    <3>1. places \subseteq 0..MaxOrder /\ places # {}
      <4>1. \A d \in before : order[d] \in Orders
        BY DEF TypeOK, Published
      <4> QED
        BY <2>4, <4>1, StandingAssumption DEF Orders
    <3>2. PICK m \in places : \A k \in places : k <= m
      <4> HIDE DEF places
      <4> QED BY <3>1, GreatestNat, StandingAssumption
    <3>3. PICK d \in before : order[d] = m
      BY <3>2
    <3>4. \A e \in before : order[e] <= order[d]
      BY <3>2, <3>3
    <3>5. \A e \in before : order[e] \in Nat
      BY StandingAssumption DEF TypeOK, Orders, Published
    <3>6. Preceding(c) = {d}
      <4>1. d \in Preceding(c)
        BY <3>4 DEF Preceding
      <4>2. ASSUME NEW e \in Preceding(c)
            PROVE  e = d
        <5>1. e \in before /\ order[d] <= order[e]
          BY DEF Preceding
        <5>2. order[e] = order[d]
          BY <3>4, <3>5, <5>1
        <5> QED
          BY <5>1, <5>2 DEF OrderInv, Published
      <4> QED
        BY <4>1, <4>2
    <3>7. PICK j \in Path : j.challenge = d
      BY PathItems
    <3>8. j \in earlier /\ \A k \in earlier : k.order <= j.order
      BY <1>1, <3>4, <3>7, PathItems
    <3>9. \A k \in earlier : (\A l \in earlier : l.order <= k.order) => k.challenge = d
      <4> SUFFICES ASSUME NEW k \in earlier, \A l \in earlier : l.order <= k.order
                   PROVE  k.challenge = d
        OBVIOUS
      <4>1. k.challenge \in before /\ k.order = order[k.challenge]
        BY <1>1, PathItems
      <4>2. order[k.challenge] = order[d]
        BY <3>4, <3>5, <3>7, <3>8, <4>1, PathItems
      <4> QED
        BY <4>1, <4>2 DEF OrderInv, Published
    <3>10. next <=> Best(u, d) >= 1
      BY <3>7, <3>8, <3>9
    <3> QED
      BY <2>1, <2>2, <3>6, <3>8, <3>10
  <2> QED
    BY <2>3, <2>4
<1> QED
  BY <1>3, <1>4

-----------------------------------------------------------------------------
(* Every step keeps the invariant. *)

LEMMA Initially == Init => IInv
<1> SUFFICES ASSUME Init PROVE IInv
  OBVIOUS
<1>1. IsFiniteSet({})
  BY FS_EmptySet
<1>2. order \in [Challenges -> Orders]
  BY DEF Init
<1>3. 1 \in Versions
  BY RankingAssumption DEF Versions
<1>4. TypeOK
  BY <1>2, <1>3 DEF Init, TypeOK, Play, Board, Profile, NoPlay, NoBoard, NoProfile, Stars
<1>5. SubmissionsInv /\ OrderInv
  BY <1>1 DEF Init, SubmissionsInv, UniqueIds, OrderInv
<1>6. PlayInv /\ CalmInv /\ BoardInv /\ ProfileInv
  BY DEF Init, PlayInv, PlayHolds, CalmInv, BoardInv, BoardHolds, ProfileInv, NoPlay, NoBoard
<1> QED
  BY <1>4, <1>5, <1>6 DEF IInv

\* A saved submission has an id of its own; nothing is lost.
LEMMA TablesStep ==
  ASSUME IInv, [Next]_vars
  PROVE  /\ SubmissionsInv' /\ OrderInv'
         /\ submissions \subseteq submissions'
         /\ submissions' \subseteq Submission
         /\ stars' \in [Users \X Challenges -> Stars]
         /\ \A u \in Users, c \in Challenges : stars'[<<u, c>>] >= stars[<<u, c>>]
<1> USE DEF IInv
<1> DEFINE Same == UNCHANGED <<stars, submissions>>
           Goal == /\ SubmissionsInv' /\ submissions \subseteq submissions'
                   /\ submissions' \subseteq Submission
                   /\ stars' \in [Users \X Challenges -> Stars]
                   /\ \A u \in Users, c \in Challenges : stars'[<<u, c>>] >= stars[<<u, c>>]
<1>1. Same => Goal
  BY DEF SubmissionsInv, TypeOK, Stars
<1>2. ASSUME NEW p \in Plays, Save(p)
      PROVE  Goal
  <2>1. PICK v \in Verdicts, id \in Ids :
          /\ \A s \in submissions : s.id # id
          /\ submissions' = submissions \cup
               {[id |-> id, user |-> play[p].user, challenge |-> play[p].challenge,
                 version |-> play[p].version, merit |-> v.merit]}
          /\ stars' = [stars EXCEPT ![<<play[p].user, play[p].challenge>>] =
                         IF v.stars > @ THEN v.stars ELSE @]
    BY <1>2 DEF Save
  <2>2. play[p].user \in Users /\ play[p].challenge \in Challenges /\ play[p].version \in Versions
    BY <1>2 DEF Save, PlayInv, PlayHolds, TypeOK, Play
  <2>3. v.stars \in Stars /\ v.merit \in Merits
    BY StandingAssumption
  <2>4. submissions' \subseteq Submission
    BY <2>1, <2>2, <2>3 DEF TypeOK, Submission
  <2>5. SubmissionsInv'
    <3>1. IsFiniteSet(submissions')
      BY <2>1, FS_AddElement DEF SubmissionsInv
    <3> QED
      BY <2>1, <3>1 DEF SubmissionsInv, UniqueIds
  <2>6. /\ stars' \in [Users \X Challenges -> Stars]
        /\ \A u \in Users, c \in Challenges : stars'[<<u, c>>] >= stars[<<u, c>>]
    BY <2>1, <2>2, <2>3 DEF TypeOK, Stars
  <2> QED
    BY <2>1, <2>4, <2>5, <2>6
<1>3. Goal
  <2>1. ASSUME Next PROVE Same \/ \E p \in Plays : Save(p)
    BY <2>1 DEF Next, Playing, Ranking, Profiling, Editing, OpenChallenge, LoadChallenge, ListRows,
      ListVersion, Decide, EndPlay, OpenBoard, LoadBoard, ReadPage, ReadTotal, ReadOwn, EndBoard,
      CountPublished, ReadAggregates, EndProfile, Release, Withdraw, Move, Disturb, tables
  <2>2. UNCHANGED vars => Same
    BY DEF vars, tables
  <2> HIDE DEF Same, Goal
  <2> QED
    BY <1>1, <1>2, <2>1, <2>2
<1>4. OrderInv'
  <2>1. ASSUME NEW c \in Challenges, NEW o \in Orders, Move(c, o)
        PROVE  OrderInv'
    BY <2>1 DEF Move, OrderInv, TypeOK
  <2>2. order' = order => OrderInv'
    BY DEF OrderInv
  <2>3. ASSUME Next
        PROVE  order' = order \/ \E c \in Challenges, o \in Orders : Move(c, o)
    BY <2>3 DEF Next, Playing, Ranking, Profiling, Editing, OpenChallenge, LoadChallenge, ListRows,
      ListVersion, Decide, Save, EndPlay, OpenBoard, LoadBoard, ReadPage, ReadTotal, ReadOwn,
      EndBoard, CountPublished, ReadAggregates, EndProfile, Release, Withdraw, tables, catalog
  <2>4. UNCHANGED vars => order' = order
    BY DEF vars, tables, catalog
  <2> QED
    BY <2>1, <2>2, <2>3, <2>4
<1> QED
  BY <1>3, <1>4

LEMMA TypeStep ==
  ASSUME IInv, [Next]_vars
  PROVE  TypeOK'
<1> USE DEF IInv
<1>1. submissions' \subseteq Submission /\ stars' \in [Users \X Challenges -> Stars]
  BY TablesStep
<1>2. ASSUME NEW p \in Plays, Playing(p)
      PROVE  TypeOK'
  <2>1. play' \in [Plays -> Play]
    <3>1. CASE OpenChallenge(p)
      <4>1. PICK u \in Users \cup {None}, c \in Challenges :
              /\ current[c] # None
              /\ play' = [play EXCEPT ![p] =
                            [NoPlay EXCEPT !.stage = "pointer", !.user = u, !.challenge = c,
                                           !.version = current[c], !.had = Best(u, c) >= 1]]
        BY <3>1 DEF OpenChallenge
      <4>2. current[c] \in Versions /\ (Best(u, c) >= 1) \in BOOLEAN
        BY <4>1 DEF TypeOK
      <4>3. [NoPlay EXCEPT !.stage = "pointer", !.user = u, !.challenge = c,
                           !.version = current[c], !.had = Best(u, c) >= 1] \in Play
        BY <4>2 DEF Play, NoPlay
      <4> QED
        BY <4>1, <4>3 DEF TypeOK
    <3>2. CASE LoadChallenge(p)
      BY <3>2 DEF LoadChallenge, TypeOK, Play
    <3>3. CASE ListRows(p)
      <4>1. [play[p] EXCEPT !.stage = "listing", !.rows = Path] \in Play
        <5>1. Path \in SUBSET Item
          BY PathItems
        <5> QED
          BY <5>1 DEF TypeOK, Play
      <4>2. play' = [play EXCEPT ![p] = [play[p] EXCEPT !.stage = "listing", !.rows = Path]]
        BY <3>3 DEF ListRows, TypeOK
      <4> QED
        BY <4>1, <4>2 DEF TypeOK
    <3>4. CASE ListVersion(p)
      <4>1. PICK i \in play[p].rows :
              play' = [play EXCEPT
                         ![p].rows = @ \ {i},
                         ![p].path = IF current[i.challenge] = i.version THEN @ \cup {i} ELSE @]
        BY <3>4 DEF ListVersion
      <4> DEFINE rows == play[p].rows \ {i}
                 path == IF current[i.challenge] = i.version THEN play[p].path \cup {i}
                         ELSE play[p].path
      <4>2. rows \in SUBSET Item /\ path \in SUBSET Item
        BY DEF TypeOK, Play
      <4>3. play' = [play EXCEPT ![p] = [play[p] EXCEPT !.rows = rows, !.path = path]]
        BY <4>1 DEF TypeOK
      <4>4. [play[p] EXCEPT !.rows = rows, !.path = path] \in Play
        <5> HIDE DEF rows, path
        <5> QED BY <4>2 DEF TypeOK, Play
      <4> HIDE DEF rows, path
      <4> QED
        BY <4>3, <4>4 DEF TypeOK
    <3>5. CASE Decide(p)
      <4>1. PICK to \in {"missing", "granted", "refused"} :
              play' = [play EXCEPT ![p].stage = to, ![p].path = {}]
        BY <3>5 DEF Decide
      <4>2. play' = [play EXCEPT ![p] = [play[p] EXCEPT !.stage = to, !.path = {}]]
        BY <4>1 DEF TypeOK
      <4>3. [play[p] EXCEPT !.stage = to, !.path = {}] \in Play
        BY DEF TypeOK, Play
      <4> QED
        BY <4>2, <4>3 DEF TypeOK
    <3>6. CASE Save(p)
      BY <3>6 DEF Save, TypeOK, Play, NoPlay
    <3>7. CASE EndPlay(p)
      BY <3>7 DEF EndPlay, TypeOK, Play, NoPlay
    <3> QED
      BY <1>2, <3>1, <3>2, <3>3, <3>4, <3>5, <3>6, <3>7 DEF Playing
  <2>2. UNCHANGED <<order, current, newest, board, profile>> /\ calm' \subseteq calm \cup Plays
    BY <1>2 DEF Playing, OpenChallenge, LoadChallenge, ListRows, ListVersion, Decide, Save, EndPlay,
      tables, catalog
  <2> QED
    BY <1>1, <2>1, <2>2 DEF TypeOK
<1>3. ASSUME NEW b \in Boards, Ranking(b)
      PROVE  TypeOK'
  <2>1. board' \in [Boards -> Board]
    <3>1. CASE OpenBoard(b)
      <4>1. PICK u \in Users \cup {None}, c \in Challenges :
              /\ current[c] # None
              /\ board' = [board EXCEPT ![b] =
                             [NoBoard EXCEPT !.stage = "pointer", !.user = u, !.challenge = c,
                                             !.version = current[c]]]
        BY <3>1 DEF OpenBoard
      <4>2. current[c] \in Versions
        BY <4>1 DEF TypeOK
      <4>3. [NoBoard EXCEPT !.stage = "pointer", !.user = u, !.challenge = c,
                            !.version = current[c]] \in Board
        BY <4>2 DEF Board, NoBoard
      <4> QED
        BY <4>1, <4>3 DEF TypeOK
    <3>2. CASE LoadBoard(b)
      <4>1. NoBoard \in Board /\ [board[b] EXCEPT !.stage = "loaded"] \in Board
        BY DEF TypeOK, Board, NoBoard
      <4> QED
        BY <3>2, <4>1 DEF LoadBoard, TypeOK
    <3>3. CASE ReadPage(b)
      <4> DEFINE entries == PageOf(Seen(b), Offset, Limit)
      <4>1. entries \in SUBSET Submission
        BY DEF TypeOK, PageOf, UserBest, Seen, Eligible
      <4>2. board' = [board EXCEPT ![b] = [board[b] EXCEPT !.stage = "page", !.entries = entries]]
        BY <3>3 DEF ReadPage, TypeOK
      <4> HIDE DEF entries
      <4>3. [board[b] EXCEPT !.stage = "page", !.entries = entries] \in Board
        BY <4>1 DEF TypeOK, Board
      <4> QED
        BY <4>2, <4>3 DEF TypeOK
    <3>4. CASE ReadTotal(b)
      <4>1. Cardinality(UserBest(Seen(b))) \in Nat
        BY FS_Subset, FS_CardinalityType DEF UserBest, Seen, Eligible, SubmissionsInv
      <4> DEFINE total == Cardinality(UserBest(Seen(b)))
      <4>2. board' = [board EXCEPT ![b] = [board[b] EXCEPT !.stage = "total", !.total = total]]
        BY <3>4 DEF ReadTotal, TypeOK
      <4> HIDE DEF total
      <4>3. [board[b] EXCEPT !.stage = "total", !.total = total] \in Board
        BY <4>1 DEF TypeOK, Board, total
      <4> QED
        BY <4>2, <4>3 DEF TypeOK
    <3>5. CASE ReadOwn(b)
      <4> DEFINE own == {s \in UserBest(Seen(b)) : s.user = board[b].user}
      <4>1. own \in SUBSET Submission
        BY DEF TypeOK, UserBest, Seen, Eligible
      <4>2. board' = [board EXCEPT ![b] = [board[b] EXCEPT !.stage = "answered", !.own = own]]
        BY <3>5 DEF ReadOwn, TypeOK
      <4> HIDE DEF own
      <4>3. [board[b] EXCEPT !.stage = "answered", !.own = own] \in Board
        BY <4>1 DEF TypeOK, Board
      <4> QED
        BY <4>2, <4>3 DEF TypeOK
    <3>6. CASE EndBoard(b)
      BY <3>6 DEF EndBoard, TypeOK, Board, NoBoard
    <3> QED
      BY <1>3, <3>1, <3>2, <3>3, <3>4, <3>5, <3>6 DEF Ranking
  <2>2. UNCHANGED <<tables, play, profile, calm>>
    BY <1>3 DEF Ranking, OpenBoard, LoadBoard, ReadPage, ReadTotal, ReadOwn, EndBoard
  <2> QED
    BY <2>1, <2>2 DEF TypeOK, tables, catalog
<1>4. ASSUME NEW q \in Profiles, Profiling(q)
      PROVE  TypeOK'
  <2>1. profile' \in [Profiles -> Profile]
    <3>1. CASE CountPublished(q)
      <4>1. Cardinality(Published) \in Nat
        BY StandingAssumption, FS_Subset, FS_CardinalityType DEF Published
      <4> QED
        BY <3>1, <4>1 DEF CountPublished, TypeOK, Profile
    <3>2. CASE ReadAggregates(q)
      BY <3>2 DEF ReadAggregates, TypeOK, Profile
    <3>3. CASE EndProfile(q)
      BY <3>3 DEF EndProfile, TypeOK, Profile, NoProfile
    <3> QED
      BY <1>4, <3>1, <3>2, <3>3 DEF Profiling
  <2>2. UNCHANGED <<tables, play, board>> /\ calm' \subseteq calm \cup Profiles
    BY <1>4 DEF Profiling, CountPublished, ReadAggregates, EndProfile
  <2> QED
    BY <2>1, <2>2 DEF TypeOK, tables, catalog
<1>5. ASSUME NEW c \in Challenges, Editing(c)
      PROVE  TypeOK'
  <2>1. CASE Release(c)
    <3>1. newest[c] + 1 \in Versions
      BY <2>1 DEF Release
    <3> QED
      BY <2>1, <3>1 DEF Release, Disturb, TypeOK
  <2>2. CASE Withdraw(c)
    BY <2>2 DEF Withdraw, Disturb, TypeOK
  <2>3. ASSUME NEW o \in Orders, Move(c, o)
        PROVE  TypeOK'
    BY <2>3 DEF Move, Disturb, TypeOK
  <2> QED
    BY <1>5, <2>1, <2>2, <2>3 DEF Editing
<1>6. CASE UNCHANGED vars
  BY <1>6 DEF vars, tables, catalog, TypeOK
<1> QED
  BY <1>2, <1>3, <1>4, <1>5, <1>6 DEF Next

LEMMA PlayStep ==
  ASSUME IInv, [Next]_vars
  PROVE  PlayInv'
<1> USE DEF IInv
\* Requests that do not move keep what they have: no star is lost.
<1>1. ASSUME NEW q \in Plays, play'[q] = play[q]
      PROVE  PlayHolds(q)'
  <2>1. PlayHolds(q)
    BY DEF PlayInv
  <2>2. play[q].had => /\ stars'[<<play[q].user, play[q].challenge>>] >=
                             stars[<<play[q].user, play[q].challenge>>]
                       /\ stars'[<<play[q].user, play[q].challenge>>] \in Stars
                       /\ stars[<<play[q].user, play[q].challenge>>] \in Stars
    BY <2>1, TablesStep DEF PlayHolds, TypeOK
  <2> QED
    BY <1>1, <2>1, <2>2 DEF PlayHolds, Stars
<1>2. UNCHANGED play => PlayInv'
  BY <1>1 DEF PlayInv
<1>3. ASSUME NEW p \in Plays, Playing(p)
      PROVE  PlayInv'
  <2>1. \A q \in Plays : q # p => play'[q] = play[q]
    BY <1>3 DEF Playing, OpenChallenge, LoadChallenge, ListRows, ListVersion, Decide, Save, EndPlay,
      TypeOK
  <2>2. SUFFICES PlayHolds(p)'
    BY <1>1, <2>1 DEF PlayInv
  <2>3. PlayHolds(p) /\ play[p] \in Play
    BY DEF PlayInv, TypeOK
  <2>4. CASE OpenChallenge(p)
    <3>1. PICK u \in Users \cup {None}, c \in Challenges :
            /\ current[c] # None
            /\ play' = [play EXCEPT ![p] =
                          [NoPlay EXCEPT !.stage = "pointer", !.user = u, !.challenge = c,
                                         !.version = current[c], !.had = Best(u, c) >= 1]]
      BY <2>4 DEF OpenChallenge
    <3>2. current[c] \in Versions /\ UNCHANGED stars
      BY <2>4, <3>1 DEF OpenChallenge, tables, TypeOK
    <3>3. /\ play'[p].stage = "pointer" /\ play'[p].user = u /\ play'[p].challenge = c
          /\ play'[p].version = current[c] /\ play'[p].path = {}
          /\ play'[p].had = (Best(u, c) >= 1)
      BY <3>1 DEF TypeOK, NoPlay
    <3>4. Best(u, c) >= 1 => u \in Users /\ stars[<<u, c>>] >= 1
      BY DEF Best
    <3> QED
      BY <3>2, <3>3, <3>4 DEF PlayHolds
  <2>5. CASE LoadChallenge(p) \/ ListRows(p) \/ ListVersion(p)
    <3> DEFINE SameAsked ==
            /\ play'[p].user = play[p].user /\ play'[p].challenge = play[p].challenge
            /\ play'[p].version = play[p].version /\ play'[p].had = play[p].had
    <3>1. CASE LoadChallenge(p)
      <4>1. SameAsked /\ play'[p].path = play[p].path
        BY <2>3, <3>1 DEF LoadChallenge, TypeOK, Play
      <4>2. play[p].stage = "pointer" /\ play'[p].stage \in {"loaded", "missing"} /\ UNCHANGED stars
        BY <3>1 DEF LoadChallenge, TypeOK, tables
      <4> QED
        BY <2>3, <4>1, <4>2 DEF PlayHolds
    <3>2. CASE ListRows(p)
      <4>1. SameAsked
        BY <2>3, <3>2 DEF ListRows, TypeOK, Play
      <4>2. play[p].stage = "loaded" /\ play'[p].stage = "listing" /\ UNCHANGED stars
        BY <3>2 DEF ListRows, TypeOK, tables
      <4> QED
        BY <2>3, <4>1, <4>2 DEF PlayHolds
    <3>3. CASE ListVersion(p)
      <4>1. play[p].stage = "listing" /\ UNCHANGED stars
        BY <3>3 DEF ListVersion, tables
      <4>2. PICK rows, path :
              play' = [play EXCEPT ![p] = [play[p] EXCEPT !.rows = rows, !.path = path]]
        <5>1. PICK i \in play[p].rows :
                play' = [play EXCEPT
                           ![p].rows = @ \ {i},
                           ![p].path = IF current[i.challenge] = i.version THEN @ \cup {i} ELSE @]
          BY <3>3 DEF ListVersion
        <5> QED
          BY <5>1 DEF TypeOK
      <4>3. SameAsked /\ play'[p].stage = play[p].stage
        BY <2>3, <4>2 DEF TypeOK, Play
      <4> QED
        BY <2>3, <4>1, <4>3 DEF PlayHolds
    <3> QED
      BY <2>5, <3>1, <3>2, <3>3
  <2>6. CASE Decide(p)
    <3> DEFINE asked == {i \in play[p].path : i.challenge = play[p].challenge}
               to == IF asked = {} THEN "missing"
                     ELSE IF \E i \in asked : Accessible(play[p].path, i, play[p].user)
                     THEN "granted" ELSE "refused"
    <3>1. play' = [play EXCEPT ![p].stage = to, ![p].path = {}]
      BY <2>6 DEF Decide
    <3>2. to = "refused" => ~play[p].had
      <4> SUFFICES ASSUME play[p].had, NEW i \in asked
                   PROVE  Accessible(play[p].path, i, play[p].user)
        OBVIOUS
      <4>1. Best(play[p].user, i.challenge) >= 1
        BY <2>3, StandingAssumption DEF PlayHolds, Best
      <4> QED
        BY <4>1 DEF Accessible, Status
    <3>3. to \in {"missing", "granted", "refused"}
      OBVIOUS
    <3> HIDE DEF to
    <3>4. /\ play'[p].user = play[p].user /\ play'[p].challenge = play[p].challenge
          /\ play'[p].version = play[p].version /\ play'[p].had = play[p].had
      BY <2>3, <3>1 DEF TypeOK, Play
    <3>5. play'[p].stage = to
      BY <2>3, <3>1 DEF TypeOK, Play
    <3>6. play[p].stage = "listing" /\ UNCHANGED stars
      BY <2>6 DEF Decide, tables
    <3> QED
      BY <2>3, <3>2, <3>3, <3>4, <3>5, <3>6 DEF PlayHolds
  <2>7. CASE Save(p) \/ EndPlay(p)
    <3>1. play'[p] = NoPlay
      BY <2>7 DEF Save, EndPlay, TypeOK
    <3> QED
      BY <3>1 DEF PlayHolds, NoPlay
  <2> QED
    BY <1>3, <2>4, <2>5, <2>6, <2>7 DEF Playing
<1>4. ASSUME NEW b \in Boards, Ranking(b)
      PROVE  UNCHANGED play
  BY <1>4 DEF Ranking, OpenBoard, LoadBoard, ReadPage, ReadTotal, ReadOwn, EndBoard
<1>5. ASSUME NEW q \in Profiles, Profiling(q)
      PROVE  UNCHANGED play
  BY <1>5 DEF Profiling, CountPublished, ReadAggregates, EndProfile
<1>6. ASSUME NEW c \in Challenges, Editing(c)
      PROVE  UNCHANGED play
  BY <1>6 DEF Editing, Release, Withdraw, Move, Disturb
<1>7. UNCHANGED vars => UNCHANGED play
  BY DEF vars
<1> QED
  BY <1>2, <1>3, <1>4, <1>5, <1>6, <1>7 DEF Next

LEMMA CalmStep ==
  ASSUME IInv, [Next]_vars
  PROVE  CalmInv'
<1> USE DEF IInv
<1>1. ASSUME NEW q \in Plays, CalmHolds(q), play'[q] = play[q], UNCHANGED catalog
      PROVE  CalmHolds(q)'
  BY <1>1 DEF CalmHolds, catalog, Path, Published
<1>2. UNCHANGED <<play, catalog>> /\ calm' \cap Plays \subseteq calm => CalmInv'
  BY <1>1 DEF CalmInv
<1>3. ASSUME NEW p \in Plays, Playing(p)
      PROVE  CalmInv'
  <2>1. \A q \in Plays : q # p => play'[q] = play[q] /\ (q \in calm' => q \in calm)
    BY <1>3 DEF Playing, OpenChallenge, LoadChallenge, ListRows, ListVersion, Decide, Save, EndPlay,
      TypeOK
  <2>2. UNCHANGED catalog /\ Path' = Path
    BY <1>3 DEF Playing, OpenChallenge, LoadChallenge, ListRows, ListVersion, Decide, Save, EndPlay,
      tables, catalog, Path, Published
  <2>3. SUFFICES ASSUME p \in calm'
                 PROVE  CalmHolds(p)'
    BY <1>1, <2>1, <2>2 DEF CalmInv
  <2>4. PlayHolds(p) /\ (p \in calm => CalmHolds(p))
    BY DEF PlayInv, CalmInv
  <2>5. CASE OpenChallenge(p)
    BY <2>2, <2>5 DEF OpenChallenge, CalmHolds, NoPlay, TypeOK, catalog
  <2>6. CASE LoadChallenge(p)
    BY <2>2, <2>3, <2>4, <2>6 DEF LoadChallenge, CalmHolds, TypeOK, catalog
  <2>7. CASE ListRows(p)
    <3>1. /\ p \in calm /\ play[p].stage = "loaded" /\ play[p].path = {}
          /\ play'[p].rows = Path /\ play'[p].path = play[p].path
          /\ play'[p].challenge = play[p].challenge /\ play'[p].version = play[p].version
      BY <2>3, <2>4, <2>7 DEF ListRows, PlayHolds, TypeOK
    <3> QED
      BY <2>2, <2>4, <3>1 DEF CalmHolds, catalog
  <2>8. CASE ListVersion(p)
    <3>1. p \in calm /\ play[p].stage = "listing" /\ play[p].rows \cup play[p].path = Path
      BY <2>3, <2>4, <2>8 DEF ListVersion, CalmHolds
    <3>2. PICK i \in play[p].rows :
            play' = [play EXCEPT
                       ![p].rows = @ \ {i},
                       ![p].path = IF current[i.challenge] = i.version THEN @ \cup {i} ELSE @]
      BY <2>8 DEF ListVersion
    <3>3. current[i.challenge] = i.version
      BY <3>1, PathItems
    <3>4. /\ play'[p].rows = play[p].rows \ {i} /\ play'[p].path = play[p].path \cup {i}
          /\ play'[p].stage = "listing"
          /\ play'[p].challenge = play[p].challenge /\ play'[p].version = play[p].version
      BY <3>1, <3>2, <3>3 DEF TypeOK
    <3> QED
      BY <2>2, <2>4, <3>1, <3>4 DEF CalmHolds, catalog
  <2>9. CASE Decide(p)
    <3>1. PICK to \in {"missing", "granted", "refused"} :
            play' = [play EXCEPT ![p].stage = to, ![p].path = {}]
      BY <2>9 DEF Decide
    <3>2. play'[p].stage = to
      BY <3>1 DEF TypeOK, Play
    <3> QED
      BY <3>2 DEF CalmHolds
  <2>10. CASE Save(p) \/ EndPlay(p)
    <3>1. play'[p].stage = "idle"
      BY <2>10 DEF Save, EndPlay, NoPlay, TypeOK
    <3> QED
      BY <3>1 DEF CalmHolds
  <2> QED
    BY <1>3, <2>5, <2>6, <2>7, <2>8, <2>9, <2>10 DEF Playing
<1>4. ASSUME NEW b \in Boards, Ranking(b)
      PROVE  CalmInv'
  BY <1>2, <1>4 DEF Ranking, OpenBoard, LoadBoard, ReadPage, ReadTotal, ReadOwn, EndBoard, tables
<1>5. ASSUME NEW q \in Profiles, Profiling(q)
      PROVE  CalmInv'
  BY <1>2, <1>5, StandingAssumption DEF Profiling, CountPublished, ReadAggregates, EndProfile, tables
\* An edit disturbs everyone.
<1>6. ASSUME NEW c \in Challenges, Editing(c)
      PROVE  CalmInv'
  <2>1. calm' = {}
    BY <1>6 DEF Editing, Release, Withdraw, Move, Disturb
  <2> QED
    BY <2>1 DEF CalmInv
<1>7. CASE UNCHANGED vars
  BY <1>2, <1>7 DEF vars, tables
<1> QED
  BY <1>3, <1>4, <1>5, <1>6, <1>7 DEF Next

LEMMA BoardStep ==
  ASSUME IInv, [Next]_vars
  PROVE  BoardInv'
<1> USE DEF IInv
\* An answer that is not being worked on stands: submissions only grow.
<1>1. ASSUME NEW q \in Boards, board'[q] = board[q]
      PROVE  BoardHolds(q)'
  <2>1. BoardHolds(q) /\ submissions \subseteq submissions'
    BY TablesStep DEF BoardInv
  <2>2. Seen(q) \subseteq Seen(q)'
    BY <1>1, <2>1 DEF Seen, Eligible
  <2> QED
    BY <1>1, <2>1, <2>2 DEF BoardHolds
<1>2. UNCHANGED board => BoardInv'
  BY <1>1 DEF BoardInv
<1>3. ASSUME NEW b \in Boards, Ranking(b)
      PROVE  BoardInv'
  <2>1. \A q \in Boards : q # b => board'[q] = board[q]
    BY <1>3 DEF Ranking, OpenBoard, LoadBoard, ReadPage, ReadTotal, ReadOwn, EndBoard, TypeOK
  <2>2. SUFFICES BoardHolds(b)'
    BY <1>1, <2>1 DEF BoardInv
  <2>3. BoardHolds(b) /\ board[b] \in Board
    BY DEF BoardInv, TypeOK
  <2>4. UNCHANGED submissions
    BY <1>3 DEF Ranking, OpenBoard, LoadBoard, ReadPage, ReadTotal, ReadOwn, EndBoard, tables
  <2>5. Seen(b) \subseteq Submission /\ IsFiniteSet(Seen(b)) /\ UniqueIds(Seen(b))
    <3>1. Seen(b) \in SUBSET submissions
      BY DEF Seen, Eligible
    <3> QED
      BY <3>1, FS_Subset DEF SubmissionsInv, UniqueIds, TypeOK
  <2>6. CASE OpenBoard(b)
    <3>1. board'[b].stage = "pointer"
      BY <2>6 DEF OpenBoard, NoBoard, TypeOK
    <3> QED
      BY <3>1 DEF BoardHolds
  <2>7. CASE LoadBoard(b) \/ EndBoard(b)
    <3>1. board'[b].stage \in {"idle", "loaded"}
      BY <2>3, <2>7 DEF LoadBoard, EndBoard, NoBoard, TypeOK, Board
    <3> QED
      BY <3>1 DEF BoardHolds
  <2>8. CASE ReadPage(b)
    <3> DEFINE entries == PageOf(Seen(b), Offset, Limit)
    <3>1. entries \subseteq Seen(b) /\ OneEach(entries)
      BY <2>5, PlacesDiffer DEF PageOf, UserBest, OneEach
    <3>2. board' = [board EXCEPT ![b].stage = "page", ![b].entries = entries]
      BY <2>8 DEF ReadPage
    <3> HIDE DEF entries
    <3>3. /\ board'[b].stage = "page" /\ board'[b].entries = entries
          /\ board'[b].challenge = board[b].challenge /\ board'[b].version = board[b].version
      BY <2>3, <3>2 DEF TypeOK, Board
    <3>4. Seen(b)' = Seen(b)
      BY <2>4, <3>3 DEF Seen, Eligible
    <3> QED
      BY <3>1, <3>3, <3>4 DEF BoardHolds
  <2>9. CASE ReadTotal(b)
    <3> DEFINE total == Cardinality(UserBest(Seen(b)))
    <3>1. board[b].entries \subseteq Seen(b) /\ OneEach(board[b].entries)
      BY <2>3, <2>9 DEF ReadTotal, BoardHolds
    <3>2. Cardinality(board[b].entries) <= total
      BY <2>5, <3>1, ShownAreCounted
    <3>3. board' = [board EXCEPT ![b].stage = "total", ![b].total = total]
      BY <2>9 DEF ReadTotal
    <3> HIDE DEF total
    <3>4. /\ board'[b].stage = "total" /\ board'[b].total = total
          /\ board'[b].entries = board[b].entries
          /\ board'[b].challenge = board[b].challenge /\ board'[b].version = board[b].version
      BY <2>3, <3>3 DEF TypeOK, Board
    <3>5. Seen(b)' = Seen(b)
      BY <2>4, <3>4 DEF Seen, Eligible
    <3> QED
      BY <3>1, <3>2, <3>4, <3>5 DEF BoardHolds
  <2>10. CASE ReadOwn(b)
    <3> DEFINE own == {s \in UserBest(Seen(b)) : s.user = board[b].user}
    <3>1. /\ board[b].entries \subseteq Seen(b) /\ OneEach(board[b].entries)
          /\ Cardinality(board[b].entries) <= board[b].total
      BY <2>3, <2>10 DEF ReadOwn, BoardHolds
    <3>2. \A s \in board[b].entries : s.user = board[b].user =>
            \E t \in own : t = s \/ Before(t, s)
      BY <2>5, <3>1, PlaceOfUser
    <3>3. board' = [board EXCEPT ![b].stage = "answered", ![b].own = own]
      BY <2>10 DEF ReadOwn
    <3> HIDE DEF own
    <3>4. /\ board'[b].stage = "answered" /\ board'[b].own = own
          /\ board'[b].total = board[b].total
          /\ board'[b].entries = board[b].entries /\ board'[b].user = board[b].user
          /\ board'[b].challenge = board[b].challenge /\ board'[b].version = board[b].version
      BY <2>3, <3>3 DEF TypeOK, Board
    <3>5. Seen(b)' = Seen(b)
      BY <2>4, <3>4 DEF Seen, Eligible
    <3> QED
      BY <3>1, <3>2, <3>4, <3>5 DEF BoardHolds
  <2> QED
    BY <1>3, <2>6, <2>7, <2>8, <2>9, <2>10 DEF Ranking
<1>4. ASSUME NEW p \in Plays, Playing(p)
      PROVE  UNCHANGED board
  BY <1>4 DEF Playing, OpenChallenge, LoadChallenge, ListRows, ListVersion, Decide, Save, EndPlay
<1>5. ASSUME NEW q \in Profiles, Profiling(q)
      PROVE  UNCHANGED board
  BY <1>5 DEF Profiling, CountPublished, ReadAggregates, EndProfile
<1>6. ASSUME NEW c \in Challenges, Editing(c)
      PROVE  UNCHANGED board
  BY <1>6 DEF Editing, Release, Withdraw, Move, Disturb
<1>7. UNCHANGED vars => UNCHANGED board
  BY DEF vars
<1> QED
  BY <1>2, <1>3, <1>4, <1>5, <1>6, <1>7 DEF Next

\* The stars that a profile adds up.
LEMMA StarsEarned ==
  ASSUME NEW u, NEW done
  PROVE  MapThenSumSet(LAMBDA c : stars[<<u, c>>], done)
           = SumOver([c \in done |-> stars[<<u, c>>]], done)
<1> DEFINE W == [c \in done |-> stars[<<u, c>>]]
           Iterates(g) == g = [s \in SUBSET done |->
                                 IF s = {} THEN 0 ELSE stars[<<u, Some(s)>>] + g[s \ {Some(s)}]]
<1>1. MapThenSumSet(LAMBDA c : stars[<<u, c>>], done) = (CHOOSE g : Iterates(g))[done]
  BY DEF MapThenSumSet, MapThenFoldSet, Some
<1>2. \A g : Iterates(g) <=> AddsUp(g, W, done)
  <2>1. \A s \in SUBSET done : s # {} => stars[<<u, Some(s)>>] = W[Some(s)]
    BY SomeIn
  <2> HIDE DEF W
  <2> QED BY <2>1 DEF AddsUp
<1> HIDE DEF W, Iterates
<1>3. (CHOOSE g : Iterates(g)) = Adding(W, done)
  BY <1>2 DEF Adding
<1> QED
  BY <1>1, <1>3 DEF SumOver, W

\* A player has at most three stars on each of the published challenges.
LEMMA AggregatesAddUp ==
  ASSUME TypeOK, NEW u \in Users
  PROVE  /\ Cardinality(WithProgress(u)) <= Cardinality(Published)
         /\ MapThenSumSet(LAMBDA c : stars[<<u, c>>], WithProgress(u)) <= 3 * Cardinality(Published)
<1> DEFINE done == WithProgress(u)
           W == [c \in done |-> stars[<<u, c>>]]
<1>1. IsFiniteSet(Published) /\ done \in SUBSET Published
  BY StandingAssumption, FS_Subset DEF Published, WithProgress
<1>2. /\ IsFiniteSet(done) /\ Cardinality(done) \in Nat /\ Cardinality(Published) \in Nat
      /\ Cardinality(done) <= Cardinality(Published)
  BY <1>1, FS_Subset, FS_CardinalityType
<1>3. \A c \in done : W[c] \in 0..3
  BY DEF WithProgress, Published, TypeOK, Stars
<1> HIDE DEF done, W
<1>4. SumOver(W, done) <= 3 * Cardinality(done) /\ SumOver(W, done) \in Nat
  BY <1>2, <1>3, SumOverBound, SumOverType
<1>5. SumOver(W, done) <= 3 * Cardinality(Published)
  BY <1>2, <1>4
<1>6. MapThenSumSet(LAMBDA c : stars[<<u, c>>], done) = SumOver(W, done)
  BY StarsEarned DEF W
<1> QED
  BY <1>2, <1>5, <1>6 DEF done

LEMMA ProfileStep ==
  ASSUME IInv, [Next]_vars
  PROVE  ProfileInv'
<1> USE DEF IInv
<1>1. UNCHANGED <<profile, current>> /\ calm' \cap Profiles \subseteq calm => ProfileInv'
  BY DEF ProfileInv, ProfileHolds, Published
<1>2. ASSUME NEW q \in Profiles, Profiling(q)
      PROVE  ProfileInv'
  <2>1. UNCHANGED current /\ calm' \subseteq calm \cup {q}
    BY <1>2 DEF Profiling, CountPublished, ReadAggregates, EndProfile, tables, catalog
  <2>2. \A r \in Profiles : r # q => profile'[r] = profile[r]
    BY <1>2 DEF Profiling, CountPublished, ReadAggregates, EndProfile, TypeOK
  <2>3. q \in calm' => ProfileHolds(q)'
    <3>1. CASE CountPublished(q)
      BY <2>1, <3>1 DEF CountPublished, ProfileHolds, Published, TypeOK
    <3>2. CASE ReadAggregates(q)
      <4>1. SUFFICES ASSUME q \in calm
                     PROVE  ProfileHolds(q)'
        BY <3>2 DEF ReadAggregates
      <4>2. profile[q].user \in Users /\ profile[q].published = Cardinality(Published)
        BY <3>2, <4>1 DEF ReadAggregates, ProfileInv, ProfileHolds
      <4>3. profile' = [profile EXCEPT ![q].stage = "answered"]
        BY <3>2, <4>2, AggregatesAddUp DEF ReadAggregates
      <4>4. profile'[q].stage = "answered"
        BY <4>3 DEF TypeOK, Profile
      <4> QED
        BY <4>4 DEF ProfileHolds
    <3>3. CASE EndProfile(q)
      BY <3>3 DEF EndProfile, NoProfile, ProfileHolds, TypeOK
    <3> QED
      BY <1>2, <3>1, <3>2, <3>3 DEF Profiling
  <2> QED
    BY <2>1, <2>2, <2>3 DEF ProfileInv, ProfileHolds, Published
<1>3. ASSUME NEW p \in Plays, Playing(p)
      PROVE  ProfileInv'
  <2>1. UNCHANGED <<profile, current>> /\ calm' \subseteq calm \cup {p}
    BY <1>3 DEF Playing, OpenChallenge, LoadChallenge, ListRows, ListVersion, Decide, Save, EndPlay,
      tables, catalog
  <2>2. p \notin Profiles
    BY StandingAssumption
  <2> QED
    BY <1>1, <2>1, <2>2
<1>4. ASSUME NEW b \in Boards, Ranking(b)
      PROVE  ProfileInv'
  BY <1>1, <1>4 DEF Ranking, OpenBoard, LoadBoard, ReadPage, ReadTotal, ReadOwn, EndBoard, tables, catalog
\* An edit disturbs everyone.
<1>5. ASSUME NEW c \in Challenges, Editing(c)
      PROVE  ProfileInv'
  <2>1. calm' = {}
    BY <1>5 DEF Editing, Release, Withdraw, Move, Disturb
  <2> QED
    BY <2>1 DEF ProfileInv
<1>6. CASE UNCHANGED vars
  BY <1>1, <1>6 DEF vars, tables, catalog
<1> QED
  BY <1>2, <1>3, <1>4, <1>5, <1>6 DEF Next

\* The answer of an undisturbed request.
LEMMA AnswerStep ==
  ASSUME IInv, [Next]_vars, NEW p \in Plays, p \in calm, play'[p].stage # play[p].stage
  PROVE  /\ play'[p].stage # "missing"
         /\ play'[p].stage = "granted" => Open(play[p].user, play[p].challenge)
         /\ play'[p].stage = "refused" => ~Open(play[p].user, play[p].challenge)
<1> USE DEF IInv
<1>1. play[p] \in Play /\ PlayHolds(p) /\ CalmHolds(p)
  BY DEF TypeOK, PlayInv, CalmInv
<1>2. Playing(p)
  <2>1. play' # play
    OBVIOUS
  <2>2. ~ UNCHANGED vars
    BY <2>1 DEF vars
  <2>3. \E q \in Plays : Playing(q)
    BY <2>1, <2>2 DEF Next, Ranking, OpenBoard, LoadBoard, ReadPage, ReadTotal, ReadOwn, EndBoard,
      Profiling, CountPublished, ReadAggregates, EndProfile, Editing, Release, Withdraw, Move, Disturb
  <2>4. ASSUME NEW q \in Plays, Playing(q), q # p
        PROVE  FALSE
    <3>1. play'[p] = play[p]
      BY <2>4 DEF Playing, OpenChallenge, LoadChallenge, ListRows, ListVersion, Decide, Save,
        EndPlay, TypeOK
    <3> QED
      BY <3>1
  <2> QED
    BY <2>3, <2>4
<1>3. CASE OpenChallenge(p) \/ Save(p) \/ EndPlay(p)
  <2>1. OpenChallenge(p) => play'[p].stage = "pointer"
    BY DEF OpenChallenge, NoPlay, TypeOK
  <2>2. Save(p) \/ EndPlay(p) => play'[p].stage = "idle"
    BY DEF Save, EndPlay, NoPlay, TypeOK
  <2> QED
    BY <1>3, <2>1, <2>2
\* The version it was pointed at is still published.
<1>4. CASE LoadChallenge(p)
  <2>1. current[play[p].challenge] = play[p].version
    BY <1>1, <1>4 DEF LoadChallenge, CalmHolds
  <2>2. play'[p].stage = "loaded"
    BY <1>1, <1>4, <2>1 DEF LoadChallenge, TypeOK, Play
  <2> QED
    BY <2>2
<1>5. CASE ListRows(p)
  <2>1. play'[p].stage = "listing"
    BY <1>1, <1>5 DEF ListRows, TypeOK, Play
  <2> QED
    BY <2>1
<1>6. CASE ListVersion(p)
  <2>1. PICK rows, path :
          play' = [play EXCEPT ![p] = [play[p] EXCEPT !.rows = rows, !.path = path]]
    <3>1. PICK i \in play[p].rows :
            play' = [play EXCEPT
                       ![p].rows = @ \ {i},
                       ![p].path = IF current[i.challenge] = i.version THEN @ \cup {i} ELSE @]
      BY <1>6 DEF ListVersion
    <3> QED
      BY <3>1 DEF TypeOK
  <2>2. play'[p].stage = play[p].stage
    BY <1>1, <2>1 DEF TypeOK, Play
  <2> QED
    BY <2>2
\* The path it has read is the path, and its challenge is on it.
<1>7. CASE Decide(p)
  <2> DEFINE u == play[p].user
             c == play[p].challenge
             asked == {i \in play[p].path : i.challenge = c}
             to == IF asked = {} THEN "missing"
                   ELSE IF \E i \in asked : Accessible(play[p].path, i, u)
                   THEN "granted" ELSE "refused"
  <2>1. play[p].path = Path /\ current[c] = play[p].version /\ play[p].stage = "listing"
    BY <1>1, <1>7 DEF Decide, CalmHolds
  <2>2. c \in Published
    BY <1>1, <2>1, StandingAssumption DEF PlayHolds, Published
  <2>3. u \in Users \cup {None}
    BY <1>1 DEF Play
  <2>4. asked # {} /\ asked \subseteq Path
    BY <2>1, <2>2, PathItems
  <2>5. \A i \in asked : Accessible(play[p].path, i, u) <=> Open(u, c)
    BY <2>1, <2>3, RuleOfPath
  <2>6. to = IF Open(u, c) THEN "granted" ELSE "refused"
    BY <2>4, <2>5
  <2>7. play' = [play EXCEPT ![p].stage = to, ![p].path = {}]
    BY <1>7 DEF Decide
  <2> HIDE DEF to
  <2>8. play'[p].stage = to
    BY <1>1, <2>7 DEF TypeOK, Play
  <2> QED
    BY <2>6, <2>8
<1> QED
  BY <1>2, <1>3, <1>4, <1>5, <1>6, <1>7 DEF Playing

-----------------------------------------------------------------------------
(* The theorems *)

\* The invariant: submissions and stars only grow, places differ, an undisturbed
\* request has read the catalog that still is, an answer shows what still is there.
THEOREM Invariant == Spec => []IInv
<1>1. Init => IInv
  BY Initially
<1>2. IInv /\ [Next]_vars => IInv'
  BY TablesStep, TypeStep, PlayStep, CalmStep, BoardStep, ProfileStep DEF IInv
<1> QED
  BY <1>1, <1>2, PTL DEF Spec

\* Every variable of Standing has its type.
THEOREM TypeCorrect == Spec => []TypeOK
<1>1. IInv => TypeOK
  BY DEF IInv
<1> QED
  BY <1>1, Invariant, PTL

\* A request for a challenge the player had completed when he asked is never
\* refused (access.py evaluates completion before the predecessor).
THEOREM CompletedIsNeverLocked == Spec => []CompletedStaysOpen
<1>1. IInv => CompletedStaysOpen
  BY DEF IInv, PlayInv, PlayHolds, CompletedStaysOpen
<1> QED
  BY <1>1, Invariant, PTL

\* Without an edit between its statements, a request is answered by the unlocking
\* rule of PRODUCT.md and does not fail (ChallengeAccessService.require_access).
THEOREM UnlockingRule == Spec => CalmAccess
<1>1. IInv /\ [Next]_vars =>
        [\A p \in Plays :
           p \in calm /\ play'[p].stage # play[p].stage =>
             /\ play'[p].stage # "missing"
             /\ play'[p].stage = "granted" => Open(play[p].user, play[p].challenge)
             /\ play'[p].stage = "refused" => ~Open(play[p].user, play[p].challenge)]_vars
  BY AnswerStep
<1> QED
  BY <1>1, Invariant, PTL DEF Spec, CalmAccess

\* LeaderboardPage never refuses what get_page has read.
THEOREM PageIsCounted == Spec => []TotalCoversPage
<1>1. IInv => TotalCoversPage
  BY DEF IInv, BoardInv, BoardHolds, TotalCoversPage
<1> QED
  BY <1>1, Invariant, PTL

\* In one leaderboard answer the player's own entry is no worse than his place on
\* the page, and is there if that is (get_page reads it last).
THEOREM OwnEntryKeepsUp == Spec => []OwnEntryNotWorse
<1>1. IInv => OwnEntryNotWorse
  BY DEF IInv, BoardInv, BoardHolds, OwnEntryNotWorse
<1> QED
  BY <1>1, Invariant, PTL

\* ProfileSnapshot accepts what an undisturbed profile has read, however much is
\* submitted meanwhile: the challenges and stars it counts are of published ones.
THEOREM CalmProfilesAddUp == Spec => []CalmProfile
<1>1. IInv => CalmProfile
  BY DEF IInv, ProfileInv, ProfileHolds, CalmProfile
<1> QED
  BY <1>1, Invariant, PTL

\* rank_best_submissions and the window functions of get_page agree: the same
\* submission of each player, in the same place, places 1 to the number of players.
THEOREM SameRanking == Spec => []RankingsAgree
<1>1. IInv => RankingsAgree
  <2> SUFFICES ASSUME IInv, NEW c \in Challenges, NEW v \in Versions
               PROVE  LET ranked == RankBestSubmissions(SetToSeq(Eligible(c, v)))
                      IN  /\ Len(ranked) = Cardinality(UserBest(Eligible(c, v)))
                          /\ \A i \in 1..Len(ranked) :
                               /\ ranked[i] \in UserBest(Eligible(c, v))
                               /\ Rank(Eligible(c, v), ranked[i]) = i
    BY DEF RankingsAgree
  <2>1. /\ Eligible(c, v) \subseteq Submission /\ IsFiniteSet(Eligible(c, v))
        /\ UniqueIds(Eligible(c, v))
    BY FS_Subset DEF IInv, TypeOK, SubmissionsInv, UniqueIds, Eligible
  <2> QED
    BY <2>1, RankingsOf
<1> QED
  BY <1>1, Invariant, PTL

\* get_profile ranks the submissions of all active versions in one query, get_page
\* those of one: the best rank of a profile is the player's best place on the
\* leaderboards of the published challenges, and none if he is on none of them.
THEOREM ProfileRankIsAPlace == Spec => []BestRankIsOnABoard
<1>1. TypeOK => BestRankIsOnABoard
  <2> SUFFICES ASSUME TypeOK, NEW u \in Users
               PROVE  LET entered(c) == Eligible(c, current[c])
                          places == UNION {{Rank(entered(c), s) :
                                              s \in {t \in UserBest(entered(c)) : t.user = u}} :
                                            c \in Published}
                      IN  BestRank(ActiveSubmissions, u) = IF places = {} THEN 0 ELSE Min(places)
    BY DEF BestRankIsOnABoard
  <2> DEFINE active == ActiveSubmissions
             entered(c) == Eligible(c, current[c])
             places == UNION {{Rank(entered(c), s) :
                                 s \in {t \in UserBest(entered(c)) : t.user = u}} : c \in Published}
             ranks == {RankInChallenge(active, s) : s \in {t \in BestPerChallenge(active) : t.user = u}}
  <2>1. \A c : entered(c) = {s \in active : s.challenge = c}
    BY DEF ActiveSubmissions, Eligible
  <2>2. \A s \in active : s.challenge \in Published
    <3> SUFFICES ASSUME NEW s \in active PROVE s.challenge \in Published
      OBVIOUS
    <3>1. s \in Submission /\ current[s.challenge] = s.version
      BY DEF ActiveSubmissions, TypeOK
    <3>2. s.version # None
      BY <3>1, StandingAssumption DEF Submission, Versions
    <3> QED
      BY <3>1, <3>2 DEF Published, Submission
  <2> HIDE DEF active
  <2>3. \A c : UserBest(entered(c)) = {s \in BestPerChallenge(active) : s.challenge = c}
    BY <2>1 DEF UserBest, BestPerChallenge
  <2>4. \A s : RankInChallenge(active, s) = Rank(entered(s.challenge), s)
    <3> SUFFICES ASSUME NEW s PROVE RankInChallenge(active, s) = Rank(entered(s.challenge), s)
      OBVIOUS
    <3>1. {t \in BestPerChallenge(active) : t.challenge = s.challenge /\ Before(t, s)}
            = {t \in UserBest(entered(s.challenge)) : Before(t, s)}
      BY <2>3
    <3> HIDE DEF entered
    <3> QED
      BY <3>1 DEF RankInChallenge, Rank
  <2>5. \A s \in BestPerChallenge(active) : s.challenge \in Published
    BY <2>2 DEF BestPerChallenge
  <2>6. ranks = places
    <3> HIDE DEF entered
    <3>1. ranks \subseteq places
      BY <2>3, <2>4, <2>5
    <3>2. places \subseteq ranks
      BY <2>3, <2>4
    <3> QED
      BY <3>1, <3>2
  <2>7. BestRank(active, u) = IF ranks = {} THEN 0 ELSE Min(ranks)
    BY DEF BestRank
  <2> HIDE DEF ranks, places
  <2>8. BestRank(active, u) = IF places = {} THEN 0 ELSE Min(places)
    BY <2>6, <2>7
  <2> QED
    BY <2>8 DEF places, active
<1> QED
  BY <1>1, TypeCorrect, PTL
=============================================================================
