------------------------------ MODULE Catalog ------------------------------
(***************************************************************************)
(* The challenge catalog: challenges and their versions, the admin use     *)
(* cases that author them, the seed script, and the players who read what  *)
(* is published.                                                           *)
(*                                                                         *)
(* An admin request reads the challenge in one transaction, decides in     *)
(* Python, and writes in another one; between the two, and between the     *)
(* statements of a READ COMMITTED transaction, other requests run.  What   *)
(* a writing transaction does after it has the lock on the challenge's row *)
(* (FOR UPDATE, or the key lock of an insert that refers to it) no other   *)
(* writer of that challenge overlaps, so it is one step.                   *)
(***************************************************************************)
EXTENDS Naturals, FiniteSets, FiniteSetsExt

CONSTANTS
  Challenges,     \* slugs
  Seeded,         \* those of the seed script
  SeedContent,    \* what it installs as their version 1
  SeedSlot,       \* and where
  Labels,         \* version ids that are not numbers
  MaxVersion,     \* bound on the numbered versions of a challenge
  Slots,          \* (track, sort_order) pairs
  ControlSlots,   \* those of the track "control"
  Contents,       \* what a version says: texts, configuration, test cases
  Complete,       \* contents with a visible and a hidden test case
  Admins,         \* admin requests that can be in progress together
  Players,        \* players' requests
  None

Numbers == 1..MaxVersion

Versions == Numbers \cup Labels

ASSUME CatalogAssumption ==
  /\ MaxVersion \in Nat \ {0}
  /\ Labels \cap Numbers = {}
  /\ Complete \subseteq Contents
  /\ Seeded \subseteq Challenges
  /\ SeedContent \in [Seeded -> Complete]
  /\ ControlSlots \subseteq Slots
  /\ SeedSlot \in [Seeded -> ControlSlots]

VARIABLES
  row,        \* challenges: [id, slot, current], current is the pointer current_version
  version,    \* challenge_versions: version[c][v] is [state, content]
  step,       \* step[a]: how far admin request a has got
  req,        \* req[a]: what it was sent, and what it has read
  play,       \* play[p]: what the player's request has read
  reseeded    \* history: the challenges that were there when the seed script was run

tables == <<row, version>>
vars == <<row, version, step, req, play, reseeded>>

-----------------------------------------------------------------------------

States == {"draft", "published", "retired"}

Version == [state : States, content : Contents]

\* The id of a challenge is its slug behind the track it was created on, which
\* a draft may leave; the ids of the seed script are those of track "control".
Row == [id : {"control", "other"}, slot : Slots, current : Versions \cup {None}]

ASSUME NoneAssumption ==
  /\ None \notin Version \cup Versions \cup Contents
  /\ None \notin Row

Ops == {"create", "update", "version", "publish", "unpublish"}

Steps == {"idle", "read", "approved", "ordered", "created"}

\* The versions of c, by state.
In(c, state) == {v \in Versions : version[c][v] # None /\ version[c][v].state = state}

Existing(c) == {v \in Versions : version[c][v] # None}

NextNumber(existing) == Max({0} \cup (existing \cap Numbers)) + 1

\* The newest of a challenge's versions: numbers are given in order, after a label.
Newest(existing) ==
  IF existing \cap Numbers = {} THEN CHOOSE v \in existing : TRUE
  ELSE Max(existing \cap Numbers)

\* The version an admin record shows: the draft, else the current one, else the newest.
Shown(c, current) ==
  IF In(c, "draft") # {} THEN CHOOSE v \in In(c, "draft") : TRUE
  ELSE IF current # None THEN current
  ELSE Newest(Existing(c))

Idle == [stage |-> "idle", challenge |-> None, version |-> None, read |-> None, hidden |-> None]

Init ==
  /\ row = [c \in Challenges |-> None]
  /\ version = [c \in Challenges |-> [v \in Versions |-> None]]
  /\ step = [a \in Admins |-> "idle"]
  /\ req = [a \in Admins |-> None]
  /\ play = [p \in Players |-> Idle]
  /\ reseeded = {}

Goto(a, s) == step' = [step EXCEPT ![a] = s]

Sent(op, c, slot, content, v, current, publish) ==
  [op |-> op, challenge |-> c, slot |-> slot, content |-> content, version |-> v,
   current |-> current, publish |-> publish]

Begin(a, request, s) ==
  /\ req' = [req EXCEPT ![a] = request]
  /\ Goto(a, s)
  /\ UNCHANGED <<tables, play, reseeded>>

Done(a) ==
  /\ Goto(a, "idle")
  /\ req' = [req EXCEPT ![a] = None]
  /\ UNCHANGED <<play, reseeded>>

-----------------------------------------------------------------------------
(* What a use case reads and decides before its repository writes *)

\* CreateChallengeUseCase: the slug is free, and what is to be published is complete.
AskCreate(a) ==
  /\ step[a] = "idle"
  /\ \E c \in Challenges, slot \in Slots, content \in Contents, v \in Versions,
        publish \in BOOLEAN :
       /\ row[c] = None
       /\ publish => content \in Complete
       /\ Begin(a, Sent("create", c, slot, content, v, None, publish), "approved")

Ignored == CHOOSE content \in Contents : TRUE

\* The other use cases: the challenge exists; its row is read first.  Only an
\* update is sent a slot and a content.
Ask(a) ==
  /\ step[a] = "idle"
  /\ \E op \in Ops \ {"create"}, c \in Challenges, slot \in Slots, content \in Contents :
       /\ row[c] # None
       /\ op = "unpublish" => row[c].current # None
       /\ op # "update" => slot = row[c].slot /\ content = Ignored
       /\ Begin(a, Sent(op, c, slot, content, None, row[c].current, FALSE),
                IF op = "unpublish" THEN "approved" ELSE "read")

\* UpdateChallengeDraftUseCase: the version shown is a draft.
ApproveUpdate(a) ==
  /\ step[a] = "read" /\ req[a].op = "update"
  /\ LET c == req[a].challenge  v == Shown(c, req[a].current)
     IN  /\ version[c][v].state = "draft"
         /\ Begin(a, [req[a] EXCEPT !.version = v], "approved")

\* CreateChallengeVersionUseCase: no version is a draft; the one shown is cloned.
ApproveVersion(a) ==
  /\ step[a] = "read" /\ req[a].op = "version"
  /\ LET c == req[a].challenge
     IN  /\ In(c, "draft") = {}
         /\ NextNumber(Existing(c)) \in Numbers
         /\ Begin(a, [req[a] EXCEPT !.version = NextNumber(Existing(c)),
                                    !.content = version[c][Shown(c, req[a].current)].content],
                  "approved")

\* PublishChallengeUseCase: the version shown is a complete draft.
ApprovePublish(a) ==
  /\ step[a] = "read" /\ req[a].op = "publish"
  /\ LET c == req[a].challenge  v == Shown(c, req[a].current)
     IN  /\ version[c][v].state = "draft"
         /\ version[c][v].content \in Complete
         /\ Begin(a, [req[a] EXCEPT !.version = v], "approved")

\* A refusal, an error or the death of the worker: what was not committed is
\* gone, and so is what was going to be done next.
Drop(a) ==
  /\ step[a] # "idle"
  /\ Done(a)
  /\ UNCHANGED tables

-----------------------------------------------------------------------------
(* What the repository writes *)

Taken(c, slot) == \E d \in Challenges \ {c} : row[d] # None /\ row[d].slot = slot

\* _ensure_order_available: a read that locks nothing.
CheckOrder(a) ==
  /\ step[a] = "approved" /\ req[a].op \in {"create", "update"}
  /\ ~Taken(req[a].challenge, req[a].slot)
  /\ Goto(a, "ordered")
  /\ UNCHANGED <<tables, req, play, reseeded>>

Id(slot) == IF slot \in ControlSlots THEN "control" ELSE "other"

\* uq_challenges_slug: the row is still missing.
Create(a) ==
  LET c == req[a].challenge
  IN  /\ step[a] = "ordered" /\ req[a].op = "create"
      /\ row[c] = None
      /\ row' = [row EXCEPT ![c] = [id |-> Id(req[a].slot), slot |-> req[a].slot,
                                     current |-> None]]
      /\ version' = [version EXCEPT ![c][req[a].version] =
                       [state |-> "draft", content |-> req[a].content]]
      /\ IF req[a].publish THEN Goto(a, "created") /\ UNCHANGED <<req, play, reseeded>>
                           ELSE Done(a)

\* Mutant: what the use case saw is still so.
UpdateUnchecked(a) ==
  LET c == req[a].challenge  v == req[a].version
  IN  /\ step[a] = "ordered" /\ req[a].op = "update"
      /\ row' = [row EXCEPT ![c].slot = req[a].slot]
      /\ version' = [version EXCEPT ![c][v].content = req[a].content]
      /\ Done(a)

\* The row of the challenge and the one of the version are locked, and the
\* version is still a draft.
UpdateDraft(a) ==
  LET c == req[a].challenge  v == req[a].version
  IN  /\ step[a] = "ordered" /\ req[a].op = "update"
      /\ version[c][v].state = "draft"
      /\ row' = [row EXCEPT ![c].slot = req[a].slot]
      /\ version' = [version EXCEPT ![c][v].content = req[a].content]
      /\ Done(a)

\* Mutant: a number that is taken is counted up.
InsertNextFree(a) ==
  LET c == req[a].challenge  v == NextNumber(Existing(c))
  IN  /\ step[a] = "approved" /\ req[a].op = "version"
      /\ v \in Numbers
      /\ version' = [version EXCEPT ![c][v] = [state |-> "draft", content |-> req[a].content]]
      /\ Done(a)
      /\ UNCHANGED row

\* uq_challenge_version: the number is still free.
InsertVersion(a) ==
  LET c == req[a].challenge  v == req[a].version
  IN  /\ step[a] = "approved" /\ req[a].op = "version"
      /\ version[c][v] = None
      /\ version' = [version EXCEPT ![c][v] = [state |-> "draft", content |-> req[a].content]]
      /\ Done(a)
      /\ UNCHANGED row

\* The versions of c with those in vs retired.
Retired(c, vs) ==
  [w \in Versions |->
     IF w \in vs THEN [version[c][w] EXCEPT !.state = "retired"] ELSE version[c][w]]

Publishing(a) ==
  \/ step[a] = "approved" /\ req[a].op = "publish"
  \/ step[a] = "created"

\* v of c becomes the active version, and those in vs stop being so.
Activate(a, c, v, vs) ==
  /\ version[c][v].state = "draft"
  /\ version' = [version EXCEPT ![c] = [Retired(c, vs) EXCEPT ![v].state = "published"]]
  /\ row' = [row EXCEPT ![c].current = v]
  /\ Done(a)

\* Mutant: what the use case validated is published.
PublishUncounted(a) ==
  LET c == req[a].challenge  v == req[a].version
  IN  Publishing(a) /\ Activate(a, c, v, In(c, "published"))

\* Both rows are locked, the draft checked again and its test cases counted.
Publish(a) ==
  LET c == req[a].challenge  v == req[a].version
  IN  /\ Publishing(a)
      /\ version[c][v].content \in Complete
      /\ Activate(a, c, v, In(c, "published"))

\* The pointer is cleared, and v retired if it is published.
Deactivate(a, c, v) ==
  /\ step[a] = "approved" /\ req[a].op = "unpublish"
  /\ row[c].current # None
  /\ version' = [version EXCEPT ![c] = Retired(c, {v} \cap In(c, "published"))]
  /\ row' = [row EXCEPT ![c].current = None]
  /\ Done(a)

\* Mutant: the version that is retired is the one the use case saw.
UnpublishSeen(a) == Deactivate(a, req[a].challenge, req[a].current)

\* The row is locked and its pointer read again.
Unpublish(a) == Deactivate(a, req[a].challenge, row[req[a].challenge].current)

-----------------------------------------------------------------------------
(* The seed script, run whenever an operator likes: one transaction of       *)
(* upserts, by the id of a challenge and by the number of its version.  What *)
(* it finds under them it overwrites, authored or not, draft or published.   *)

\* uq_challenges_slug: it fails if a slug is taken under an id of another track.
Seed ==
  /\ \A c \in Seeded : row[c] # None => row[c].id = "control"
  /\ row' = [c \in Challenges |->
               IF c \in Seeded THEN [id |-> "control", slot |-> SeedSlot[c], current |-> 1]
               ELSE row[c]]
  /\ version' = [c \in Challenges |->
                   IF c \in Seeded
                   THEN [version[c] EXCEPT ![1] = [state |-> "published",
                                                   content |-> SeedContent[c]]]
                   ELSE version[c]]
  /\ reseeded' = reseeded \cup {c \in Seeded : row[c] # None}
  /\ UNCHANGED <<step, req, play>>

-----------------------------------------------------------------------------
(* Players: the pointer, the version it names and, for a Submit, the hidden  *)
(* suite of that version are read by separate statements.                    *)

ReadPointer(p) ==
  /\ play[p].stage = "idle"
  /\ \E c \in Challenges :
       /\ row[c] # None /\ row[c].current # None
       /\ play' = [play EXCEPT ![p] = [Idle EXCEPT !.stage = "pointer", !.challenge = c,
                                                   !.version = row[c].current]]
  /\ UNCHANGED <<tables, step, req, reseeded>>

\* The row of the version is taken only if it is published.
ReadVersion(p) ==
  LET v == version[play[p].challenge][play[p].version]
  IN  /\ play[p].stage = "pointer"
      /\ v.state = "published"
      /\ play' = [play EXCEPT ![p].stage = "playing", ![p].read = v.content]
      /\ UNCHANGED <<tables, step, req, reseeded>>

\* Mutant: the hidden suite of the version that is current by now.
ReadHiddenOfCurrent(p) ==
  LET c == play[p].challenge
  IN  /\ play[p].stage = "playing"
      /\ row[c].current # None
      /\ play' = [play EXCEPT ![p].stage = "judged",
                              ![p].hidden = version[c][row[c].current].content]
      /\ UNCHANGED <<tables, step, req, reseeded>>

\* get_for_version asks for the exact version, whatever its state is by now.
ReadHidden(p) ==
  /\ play[p].stage = "playing"
  /\ play' = [play EXCEPT ![p].stage = "judged",
                          ![p].hidden = version[play[p].challenge][play[p].version].content]
  /\ UNCHANGED <<tables, step, req, reseeded>>

\* The answer, a 404 or an error.
EndPlay(p) ==
  /\ play[p].stage # "idle"
  /\ play' = [play EXCEPT ![p] = Idle]
  /\ UNCHANGED <<tables, step, req, reseeded>>

-----------------------------------------------------------------------------

Author(a) ==
  \/ AskCreate(a) \/ Ask(a)
  \/ ApproveUpdate(a) \/ ApproveVersion(a) \/ ApprovePublish(a)
  \/ CheckOrder(a) \/ Create(a) \/ UpdateDraft(a) \/ InsertVersion(a)
  \/ Publish(a) \/ Unpublish(a) \/ Drop(a)

Read(p) == ReadPointer(p) \/ ReadVersion(p) \/ ReadHidden(p) \/ EndPlay(p)

Next ==
  \/ Seed
  \/ \E a \in Admins : Author(a)
  \/ \E p \in Players : Read(p)

Spec == Init /\ [][Next]_vars

-----------------------------------------------------------------------------
(* Properties *)

Request ==
  [op : Ops, challenge : Challenges, slot : Slots, content : Contents,
   version : Versions \cup {None}, current : Versions \cup {None}, publish : BOOLEAN]

Playing ==
  [stage : {"idle", "pointer", "playing", "judged"}, challenge : Challenges \cup {None},
   version : Versions \cup {None}, read : Contents \cup {None}, hidden : Contents \cup {None}]

\* Every challenge has a row and a version, or neither: _load_record and the
\* builder cannot show a challenge without versions.
TypeOK ==
  /\ row \in [Challenges -> Row \cup {None}]
  /\ version \in [Challenges -> [Versions -> Version \cup {None}]]
  /\ step \in [Admins -> Steps]
  /\ req \in [Admins -> Request \cup {None}]
  /\ play \in [Players -> Playing]
  /\ reseeded \subseteq Seeded
  /\ \A c \in Challenges : row[c] = None <=> Existing(c) = {}

\* A challenge never has two drafts, though the check that there is none and the
\* insert of a new one are two transactions, and no constraint forbids a second.
OneDraft ==
  \A c \in Challenges : \A v, w \in In(c, "draft") : v = w

Pointed(c) == IF row[c] = None \/ row[c].current = None THEN {} ELSE {row[c].current}

\* ARCHITECTURE.md: "A challenge points to one active published version": the
\* pointer names a published version, and no other version is published.
OnlyPointedPublished == \A c \in Challenges : In(c, "published") = Pointed(c)

\* So it is, however publishes and unpublishes overlap, of every challenge the
\* seed script was not run over; of those it was, the pointer still names a
\* published version.
OneActiveVersion ==
  \A c \in Challenges :
    /\ Pointed(c) \subseteq In(c, "published")
    /\ c \notin reseeded => In(c, "published") \subseteq Pointed(c)

\* Nothing that players can be judged against is without test cases, though the
\* draft may be edited after the use case has validated it.
PublishedComplete ==
  \A c \in Challenges, v \in Versions :
    version[c][v] # None /\ version[c][v].state # "draft" => version[c][v].content \in Complete

\* The content of a version that was once published never changes, nor does it
\* become a draft again; only the seed script rewrites one, the version 1 of its
\* own challenges, and always to what it ships.
VersionsImmutable ==
  [][\A c \in Challenges, v \in Versions :
       version[c][v] # None /\ version[c][v].state # "draft" =>
         /\ version'[c][v] # None
         /\ version'[c][v].state # "draft"
         /\ \/ version'[c][v].content = version[c][v].content
            \/ Seed /\ c \in Seeded /\ v = 1 /\ version'[c][v].content = SeedContent[c]]_vars

\* A Submit is judged by the hidden tests of the version its player has read,
\* whatever is published or unpublished in between, unless the seed script has
\* rewritten that very version, and then by those it ships.
JudgedAsRead ==
  \A p \in Players :
    play[p].stage = "judged" =>
      \/ play[p].hidden = play[p].read
      \/ /\ play[p].challenge \in reseeded /\ play[p].version = 1
         /\ play[p].hidden = SeedContent[play[p].challenge]

\* What editors and players see of a challenge.
Draft(c) ==
  IF In(c, "draft") = {} THEN None
  ELSE version[c][CHOOSE v \in In(c, "draft") : TRUE].content

Active(c) ==
  IF row[c] = None \/ row[c].current = None THEN None ELSE version[c][row[c].current].content

Promise == INSTANCE EditorsPromise WITH
             draft <- [c \in Challenges |-> Draft(c)],
             active <- [c \in Challenges |-> Active(c)]

\* Whatever requests overlap, editors share one draft and publishing swaps it in
\* in one step; nothing but the seed script takes a draft from them.
KeepsPromise == Promise!Spec

\* DATABASE.md: "Track/order conflicts are rejected": no two challenges have the
\* same place.
SlotsUnique ==
  \A c, d \in Challenges :
    row[c] # None /\ row[d] # None /\ row[c].slot = row[d].slot => c = d
=============================================================================
