------------------------------ MODULE Standing ------------------------------
(***************************************************************************)
(* What a player is told about where he stands: whether a challenge is     *)
(* open to him, his leaderboard, his profile.  None of it is stored; each  *)
(* answer is put together from statements at READ COMMITTED while          *)
(* submissions are saved and administrators edit the path.                 *)
(*                                                                         *)
(* The saved submission and its progress are one step, as Progression      *)
(* shows; a challenge has one published version, the one its pointer       *)
(* names, or none, as Catalog shows.  One track is modelled: a challenge   *)
(* is on it or not published.                                              *)
(***************************************************************************)
EXTENDS Ranking

CONSTANTS
  MaxOrder,     \* bound on the places of the track
  Verdicts,     \* the [stars, merit] that a submission can get
  Edits,        \* what administrators do while players play
  Plays,        \* requests for a challenge: detail, Run, Submit
  Boards,       \* requests for a leaderboard
  Profiles,     \* requests for a profile
  Offset, Limit,    \* the page that boards ask for
  None          \* an anonymous visitor; no version

Orders == 1..MaxOrder

Stars == 0..3

EditKinds == {"release", "withdraw", "move"}

ASSUME StandingAssumption ==
  /\ MaxOrder \in Nat
  /\ Verdicts \subseteq [stars : Stars, merit : Merits]
  /\ Edits \subseteq EditKinds
  /\ Offset \in Nat /\ Limit \in Nat \ {0}
  /\ IsFiniteSet(Challenges)
  /\ Plays \cap Profiles = {}
  /\ None \notin Users /\ None \notin Versions

VARIABLES
  order,        \* order[c]: challenges.sort_order
  current,      \* current[c]: challenges.current_version, or None
  newest,       \* newest[c]: the highest version number given
  stars,        \* stars[<<u, c>>]: user_progress.best_stars, 0 without a row
  submissions,
  play, board, profile,   \* what each request has read
  calm          \* history: the requests no edit has disturbed

catalog == <<order, current, newest>>
tables == <<catalog, stars, submissions>>
vars == <<tables, play, board, profile, calm>>

-----------------------------------------------------------------------------

Item == [challenge : Challenges, order : Orders, version : Versions]

NoPlay == [stage |-> "idle", user |-> None, challenge |-> None, version |-> None,
           had |-> FALSE, rows |-> {}, path |-> {}]

NoBoard == [stage |-> "idle", user |-> None, challenge |-> None, version |-> None,
            entries |-> {}, total |-> 0, own |-> {}]

NoProfile == [stage |-> "idle", user |-> None, published |-> 0]

Published == {c \in Challenges : current[c] # None}

\* Their part of the path as it is now.
Path == {[challenge |-> c, order |-> order[c], version |-> current[c]] :
           c \in Published}

Eligible(c, v) == {s \in submissions : s.challenge = c /\ s.version = v}

Best(u, c) == IF u = None THEN 0 ELSE stars[<<u, c>>]

\* Mutant: a completed challenge follows the rule of all others.
StatusByPredecessor(path, i, u) ==
  LET earlier == {j \in path : j.order < i.order}
  IN  IF earlier = {} \/ \E j \in earlier : /\ \A k \in earlier : k.order <= j.order
                                            /\ Best(u, j.challenge) >= 1
      THEN "available"
      ELSE "locked"

\* Mutant: one star on the challenge before does not do.
StatusPastOne(path, i, u) ==
  LET earlier == {j \in path : j.order < i.order}
      mine == Best(u, i.challenge)
  IN  IF mine >= 3 THEN "mastered"
      ELSE IF mine >= 1 THEN "completed"
      ELSE IF earlier = {} \/ \E j \in earlier : /\ \A k \in earlier : k.order <= j.order
                                                 /\ Best(u, j.challenge) > 1
      THEN "available"
      ELSE "locked"

\* evaluate_path, for one item of the path.
Status(path, i, u) ==
  LET earlier == {j \in path : j.order < i.order}
      mine == Best(u, i.challenge)
  IN  IF mine >= 3 THEN "mastered"
      ELSE IF mine >= 1 THEN "completed"
      ELSE IF earlier = {} \/ \E j \in earlier : /\ \A k \in earlier : k.order <= j.order
                                                 /\ Best(u, j.challenge) >= 1
      THEN "available"
      ELSE "locked"

Accessible(path, i, u) == Status(path, i, u) # "locked"

Init ==
  /\ order \in {f \in [Challenges -> Orders] :
                  \A c, d \in Challenges : f[c] = f[d] => c = d}
  /\ current = [c \in Challenges |-> 1]
  /\ newest = [c \in Challenges |-> 1]
  /\ stars = [k \in Users \X Challenges |-> 0]
  /\ submissions = {}
  /\ play = [p \in Plays |-> NoPlay]
  /\ board = [b \in Boards |-> NoBoard]
  /\ profile = [q \in Profiles |-> NoProfile]
  /\ calm = {}

-----------------------------------------------------------------------------
(* A request for a challenge *)

\* get_by_slug: the row.
OpenChallenge(p) ==
  /\ play[p].stage = "idle"
  /\ \E u \in Users \cup {None}, c \in Challenges :
       /\ current[c] # None
       /\ play' = [play EXCEPT ![p] =
                     [NoPlay EXCEPT !.stage = "pointer", !.user = u, !.challenge = c,
                                    !.version = current[c], !.had = Best(u, c) >= 1]]
  /\ calm' = calm \cup {p}
  /\ UNCHANGED <<tables, board, profile>>

\* get_by_slug: the version, only if it is published by now; a 404 otherwise.
LoadChallenge(p) ==
  /\ play[p].stage = "pointer"
  /\ play' = [play EXCEPT ![p].stage =
                IF current[play[p].challenge] = play[p].version THEN "loaded" ELSE "missing"]
  /\ UNCHANGED <<tables, board, profile, calm>>

\* Mutant: challenges without a published version are listed too.
ListRowsAll(p) ==
  /\ play[p].stage = "loaded"
  /\ play' = [play EXCEPT
                ![p].stage = "listing",
                ![p].rows = {[challenge |-> c, order |-> order[c], version |-> current[c]] :
                               c \in Challenges}]
  /\ UNCHANGED <<tables, board, profile, calm>>

\* list_published: the rows.
ListRows(p) ==
  /\ play[p].stage = "loaded"
  /\ play' = [play EXCEPT ![p].stage = "listing", ![p].rows = Path]
  /\ UNCHANGED <<tables, board, profile, calm>>

\* list_published: the version of the next row, left out unless it is published.
ListVersion(p) ==
  /\ play[p].stage = "listing"
  /\ \E i \in play[p].rows :
       /\ \A j \in play[p].rows : i.order <= j.order
       /\ play' = [play EXCEPT
                     ![p].rows = @ \ {i},
                     ![p].path = IF current[i.challenge] = i.version THEN @ \cup {i} ELSE @]
  /\ UNCHANGED <<tables, board, profile, calm>>

\* The progress is read and the path evaluated.  A challenge that is not on the
\* path any more is an error; one that is locked a 401 or 403.
Decide(p) ==
  LET asked == {i \in play[p].path : i.challenge = play[p].challenge}
  IN  /\ play[p].stage = "listing" /\ play[p].rows = {}
      /\ play' = [play EXCEPT ![p].stage =
                    IF asked = {} THEN "missing"
                    ELSE IF \E i \in asked : Accessible(play[p].path, i, play[p].user)
                    THEN "granted" ELSE "refused",
                                     ![p].path = {}]
      /\ UNCHANGED <<tables, board, profile, calm>>

\* A Submit: the verdict on the version that was read counts.
Save(p) ==
  /\ play[p].stage = "granted" /\ play[p].user # None
  /\ \E v \in Verdicts, id \in Ids :
       /\ \A s \in submissions : s.id # id
       /\ submissions' = submissions \cup
            {[id |-> id, user |-> play[p].user, challenge |-> play[p].challenge,
              version |-> play[p].version, merit |-> v.merit]}
       /\ stars' = [stars EXCEPT ![<<play[p].user, play[p].challenge>>] =
                      IF v.stars > @ THEN v.stars ELSE @]
  /\ play' = [play EXCEPT ![p] = NoPlay]
  /\ UNCHANGED <<catalog, board, profile, calm>>

\* The answer of a detail or a Run, or an error.
EndPlay(p) ==
  /\ play[p].stage \in {"granted", "refused", "missing"}
  /\ play' = [play EXCEPT ![p] = NoPlay]
  /\ UNCHANGED <<tables, board, profile, calm>>

-----------------------------------------------------------------------------
(* A request for a leaderboard: get_by_slug, then the three statements of    *)
(* get_page, for the version that get_by_slug found.                         *)

OpenBoard(b) ==
  /\ board[b].stage = "idle"
  /\ \E u \in Users \cup {None}, c \in Challenges :
       /\ current[c] # None
       /\ board' = [board EXCEPT ![b] =
                      [NoBoard EXCEPT !.stage = "pointer", !.user = u, !.challenge = c,
                                      !.version = current[c]]]
  /\ UNCHANGED <<tables, play, profile, calm>>

LoadBoard(b) ==
  /\ board[b].stage = "pointer"
  /\ board' = [board EXCEPT ![b] =
                 IF current[@.challenge] = @.version THEN [@ EXCEPT !.stage = "loaded"]
                 ELSE NoBoard]
  /\ UNCHANGED <<tables, play, profile, calm>>

Seen(b) == Eligible(board[b].challenge, board[b].version)

ReadPage(b) ==
  /\ board[b].stage = "loaded"
  /\ board' = [board EXCEPT ![b].stage = "page",
                            ![b].entries = PageOf(Seen(b), Offset, Limit)]
  /\ UNCHANGED <<tables, play, profile, calm>>

\* Mutant: only players beyond the page are counted.
ReadTotalBeyond(b) ==
  /\ board[b].stage = "page"
  /\ board' = [board EXCEPT
                 ![b].stage = "total",
                 ![b].total = Cardinality(UserBest(Seen(b)) \ PageOf(Seen(b), 0, Offset + Limit))]
  /\ UNCHANGED <<tables, play, profile, calm>>

ReadTotal(b) ==
  /\ board[b].stage = "page"
  /\ board' = [board EXCEPT ![b].stage = "total", ![b].total = Cardinality(UserBest(Seen(b)))]
  /\ UNCHANGED <<tables, play, profile, calm>>

\* Mutant: the visitor's own entry is his latest.
ReadOwnLatest(b) ==
  /\ board[b].stage = "total"
  /\ board' = [board EXCEPT
                 ![b].stage = "answered",
                 ![b].own = {s \in Seen(b) : /\ s.user = board[b].user
                                             /\ \A t \in Seen(b) :
                                                  t.user = s.user => t.id <= s.id}]
  /\ UNCHANGED <<tables, play, profile, calm>>

\* The visitor's own entry, wherever it is.
ReadOwn(b) ==
  /\ board[b].stage = "total"
  /\ board' = [board EXCEPT
                 ![b].stage = "answered",
                 ![b].own = {s \in UserBest(Seen(b)) : s.user = board[b].user}]
  /\ UNCHANGED <<tables, play, profile, calm>>

EndBoard(b) ==
  /\ board[b].stage = "answered"
  /\ board' = [board EXCEPT ![b] = NoBoard]
  /\ UNCHANGED <<tables, play, profile, calm>>

-----------------------------------------------------------------------------
(* A request for a profile *)

CountPublished(q) ==
  /\ profile[q].stage = "idle"
  /\ \E u \in Users :
       profile' = [profile EXCEPT ![q] = [stage |-> "count", user |-> u,
                                          published |-> Cardinality(Published)]]
  /\ calm' = calm \cup {q}
  /\ UNCHANGED <<tables, play, board>>

\* Mutant: progress on all challenges, published or not.
WithProgressAnywhere(u) == {c \in Challenges : stars[<<u, c>>] >= 1}

\* user_progress rows with a star, of challenges that are published now.
WithProgress(u) == {c \in Published : stars[<<u, c>>] >= 1}

\* The progress aggregates; ProfileSnapshot refuses what does not add up.
ReadAggregates(q) ==
  LET done == WithProgress(profile[q].user)
      earned == MapThenSumSet(LAMBDA c : stars[<<profile[q].user, c>>], done)
      published == profile[q].published
  IN  /\ profile[q].stage = "count"
      /\ profile' = [profile EXCEPT ![q].stage =
                       IF Cardinality(done) <= published /\ earned <= 3 * published
                       THEN "answered" ELSE "rejected"]
      /\ UNCHANGED <<tables, play, board, calm>>

EndProfile(q) ==
  /\ profile[q].stage \in {"answered", "rejected"}
  /\ profile' = [profile EXCEPT ![q] = NoProfile]
  /\ UNCHANGED <<tables, play, board, calm>>

-----------------------------------------------------------------------------
(* Administrators *)

Disturb == calm' = {} /\ UNCHANGED <<stars, submissions, play, board, profile>>

\* Publish: a newer version replaces the active one in one step, or is the first
\* after an unpublish.
Release(c) ==
  /\ "release" \in Edits
  /\ newest[c] + 1 \in Versions
  /\ current' = [current EXCEPT ![c] = newest[c] + 1]
  /\ newest' = [newest EXCEPT ![c] = @ + 1]
  /\ UNCHANGED order
  /\ Disturb

\* Unpublish.
Withdraw(c) ==
  /\ "withdraw" \in Edits
  /\ current[c] # None
  /\ current' = [current EXCEPT ![c] = None]
  /\ UNCHANGED <<order, newest>>
  /\ Disturb

\* A draft is saved: the challenge moves at once, published or not.
Move(c, o) ==
  /\ "move" \in Edits
  /\ \A d \in Challenges : order[d] # o
  /\ order' = [order EXCEPT ![c] = o]
  /\ UNCHANGED <<current, newest>>
  /\ Disturb

-----------------------------------------------------------------------------

Playing(p) ==
  \/ OpenChallenge(p) \/ LoadChallenge(p) \/ ListRows(p) \/ ListVersion(p) \/ Decide(p)
  \/ Save(p) \/ EndPlay(p)

Ranking(b) ==
  \/ OpenBoard(b) \/ LoadBoard(b) \/ ReadPage(b) \/ ReadTotal(b) \/ ReadOwn(b) \/ EndBoard(b)

Profiling(q) == CountPublished(q) \/ ReadAggregates(q) \/ EndProfile(q)

Editing(c) == Release(c) \/ Withdraw(c) \/ \E o \in Orders : Move(c, o)

Next ==
  \/ \E p \in Plays : Playing(p)
  \/ \E b \in Boards : Ranking(b)
  \/ \E q \in Profiles : Profiling(q)
  \/ \E c \in Challenges : Editing(c)

Spec == Init /\ [][Next]_vars

-----------------------------------------------------------------------------
(* Properties *)

Play ==
  [stage : {"idle", "pointer", "loaded", "listing", "granted", "refused", "missing"},
   user : Users \cup {None}, challenge : Challenges \cup {None},
   version : Versions \cup {None}, had : BOOLEAN, rows : SUBSET Item, path : SUBSET Item]

Board ==
  [stage : {"idle", "pointer", "loaded", "page", "total", "answered"},
   user : Users \cup {None}, challenge : Challenges \cup {None},
   version : Versions \cup {None}, entries : SUBSET Submission, total : Nat,
   own : SUBSET Submission]

Profile ==
  [stage : {"idle", "count", "answered", "rejected"}, user : Users \cup {None},
   published : Nat]

TypeOK ==
  /\ order \in [Challenges -> Orders]
  /\ current \in [Challenges -> Versions \cup {None}]
  /\ newest \in [Challenges -> Versions]
  /\ stars \in [Users \X Challenges -> Stars]
  /\ submissions \subseteq Submission
  /\ play \in [Plays -> Play]
  /\ board \in [Boards -> Board]
  /\ profile \in [Profiles -> Profile]
  /\ calm \subseteq Plays \cup Profiles

\* PRODUCT.md: "Completed challenges remain replayable": whatever happens to the
\* path before it, a challenge the player had completed is never locked to him.
CompletedStaysOpen ==
  \A p \in Plays : play[p].stage = "refused" => ~play[p].had

\* The published challenge right before c.
Preceding(c) ==
  {d \in Published : /\ order[d] < order[c]
                     /\ \A e \in Published : order[e] < order[c] => order[e] <= order[d]}

Open(u, c) == Best(u, c) >= 1 \/ \A d \in Preceding(c) : Best(u, d) >= 1

\* PRODUCT.md: a challenge "becomes available when the immediately preceding
\* challenge has best_stars >= 1", the first one at once.  If no edit comes
\* between its statements, a request is answered by this rule as it stands when
\* the progress is read, whatever is submitted meanwhile, and never fails.
CalmAccess ==
  [][\A p \in Plays :
       p \in calm /\ play'[p].stage # play[p].stage =>
         /\ play'[p].stage # "missing"
         /\ play'[p].stage = "granted" => Open(play[p].user, play[p].challenge)
         /\ play'[p].stage = "refused" => ~Open(play[p].user, play[p].challenge)]_vars

\* A leaderboard answer is never refused by LeaderboardPage: the total, read after
\* the page, covers it.
TotalCoversPage ==
  \A b \in Boards :
    board[b].stage \in {"total", "answered"} => Cardinality(board[b].entries) <= board[b].total

\* In one answer a player's own entry may be newer than his place on the page,
\* never worse.
OwnEntryNotWorse ==
  \A b \in Boards : board[b].stage = "answered" =>
    \A s \in board[b].entries : s.user = board[b].user =>
      \E t \in board[b].own : t = s \/ Before(t, s)

\* A profile is refused by ProfileSnapshot only if an edit came between its
\* statements; submissions cannot make it so.
CalmProfile ==
  \A q \in Profiles : profile[q].stage = "rejected" => q \notin calm

\* models.py: the in-memory ranking is the "canonical in-memory form of the
\* PostgreSQL leaderboard ordering": same players, same submissions, same places,
\* which are unique and sequential.
RankingsAgree ==
  \A c \in Challenges, v \in Versions :
    LET eligible == Eligible(c, v)
        ranked == RankBestSubmissions(SetToSeq(eligible))
    IN  /\ Len(ranked) = Cardinality(UserBest(eligible))
        /\ \A i \in 1..Len(ranked) :
             ranked[i] \in UserBest(eligible) /\ Rank(eligible, ranked[i]) = i

ActiveSubmissions == {s \in submissions : current[s.challenge] = s.version}

\* API.md: the profile's best rank "uses the same active-version eligibility and
\* deterministic ordering as challenge leaderboards".
BestRankIsOnABoard ==
  \A u \in Users :
    LET entered(c) == Eligible(c, current[c])
        places == UNION {{Rank(entered(c), s) : s \in {t \in UserBest(entered(c)) : t.user = u}} :
                          c \in Published}
    IN  BestRank(ActiveSubmissions, u) = IF places = {} THEN 0 ELSE Min(places)
=============================================================================
