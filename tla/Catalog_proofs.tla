--------------------------- MODULE Catalog_proofs ---------------------------
(***************************************************************************)
(* Proofs about Catalog, for any number of challenges, versions, admin     *)
(* requests and players.  That a challenge has one draft rests on the      *)
(* numbers of its versions: a request that has seen no draft holds the     *)
(* number that comes next, and as long as that number is free nobody has   *)
(* opened a draft since (NumberedInv).                                     *)
(***************************************************************************)
EXTENDS Catalog, WellFoundedInduction, TLAPS

Stored(c, v) == v \in Versions /\ version[c][v] # None

\* The number held by a request for a new version is taken, or still the next.
Numbered(a) ==
  LET c == req[a].challenge  n == req[a].version
  IN  /\ n \in Numbers
      /\ version[c][n] = None => n = NextNumber(Existing(c)) /\ In(c, "draft") = {}

\* What a request in progress has read that no other request can undo.
RequestOK(a) ==
  LET r == req[a]
  IN  /\ r \in Request
      /\ r.op # "create" => row[r.challenge] # None
      /\ r.op = "create" => r.version \in Versions
      /\ r.current # None => Stored(r.challenge, r.current)
      /\ step[a] = "read" => r.op \in {"update", "version", "publish"}
      /\ step[a] = "created" => r.op = "create" /\ Stored(r.challenge, r.version)
      /\ step[a] \in {"approved", "ordered"} /\ r.op \in {"update", "publish"} =>
           Stored(r.challenge, r.version)

RequestInv == \A a \in Admins : step[a] # "idle" => RequestOK(a)

NumberedInv ==
  \A a \in Admins : step[a] = "approved" /\ req[a].op = "version" => Numbered(a)

\* The pointer names a published version.
PointerInv ==
  \A c \in Challenges :
    row[c] # None /\ row[c].current # None => row[c].current \in In(c, "published")

\* Where the seed script has been run over a challenge, version 1 is what it
\* ships, whatever becomes of it.
SeededInv ==
  \A c \in reseeded :
    /\ Stored(c, 1)
    /\ version[c][1].state # "draft"
    /\ version[c][1].content = SeedContent[c]

\* The version of a request q may have been rewritten since it was read.
Rewritten(q) == q.challenge \in reseeded /\ q.version = 1

\* What a player has read of a version that was published.
PlayOK(p) ==
  LET q == play[p]
  IN  /\ q.stage # "idle" => /\ q.challenge \in Challenges
                             /\ Stored(q.challenge, q.version)
                             /\ version[q.challenge][q.version].state # "draft"
      /\ q.stage = "playing" =>
           q.read = version[q.challenge][q.version].content \/ Rewritten(q)
      /\ q.stage = "judged" =>
           q.hidden = q.read \/ (Rewritten(q) /\ q.hidden = SeedContent[q.challenge])

PlayInv == \A p \in Players : PlayOK(p)

IInv ==
  /\ TypeOK
  /\ RequestInv
  /\ NumberedInv
  /\ OneDraft
  /\ PointerInv
  /\ PublishedComplete
  /\ SeededInv
  /\ PlayInv

-----------------------------------------------------------------------------
(* The versions of a challenge *)

LEMMA MaxOfInterval ==
  ASSUME NEW N \in Nat, NEW S, S \subseteq 0..N, S # {}
  PROVE  Max(S) \in S /\ \A y \in S : Max(S) >= y
  <1> DEFINE T == {N - n : n \in S}
  <1>1. T \subseteq Nat
    BY SMT
  <1>2. T # {}
    OBVIOUS
  <1>3. IsWellFoundedOn(OpToRel(<, Nat), Nat)
    BY NatLessThanWellFounded
  <1>4. PICK x \in T : \A y \in T : ~ (<<y, x>> \in OpToRel(<, Nat))
    BY <1>1, <1>2, <1>3, WFMin
  <1>5. \A y \in T : ~(y < x)
    BY <1>1, <1>4 DEF OpToRel
  <1>6. PICK n \in S : x = N - n
    OBVIOUS
  <1>7. ASSUME NEW y \in S
        PROVE  n >= y
    <2>1. N - y \in T
      OBVIOUS
    <2>2. ~(N - y < N - n)
      BY <1>5, <1>6, <2>1
    <2>3. n \in Nat /\ y \in Nat
      OBVIOUS
    <2> QED
      BY <2>2, <2>3
  <1>8. \E m \in S : \A y \in S : m >= y
    BY <1>7
  <1> QED
    BY <1>8, Zenon DEF Max

\* A version 1 that comes late does not change which number is next.
LEMMA NextWithFirst ==
  ASSUME NEW S, NextNumber(S) # 1
  PROVE  NextNumber(S \cup {1}) = NextNumber(S)
  <1> DEFINE T == {0} \cup (S \cap Numbers)
             U == {0} \cup ((S \cup {1}) \cap Numbers)
  <1>1. U = T \cup {1}
    BY CatalogAssumption DEF Numbers
  <1>2. /\ T \subseteq 0..MaxVersion /\ U \subseteq 0..MaxVersion
        /\ T # {} /\ U # {} /\ MaxVersion \in Nat
    BY CatalogAssumption DEF Numbers
  <1> HIDE DEF T, U
  <1>3. Max(T) \in T /\ \A y \in T : Max(T) >= y
    BY <1>2, MaxOfInterval
  <1>4. Max(U) \in U /\ \A y \in U : Max(U) >= y
    BY <1>2, MaxOfInterval
  <1>5. NextNumber(S) = Max(T) + 1 /\ NextNumber(S \cup {1}) = Max(U) + 1
    BY DEF NextNumber, T, U
  <1>6. Max(T) \in Nat /\ Max(U) \in Nat
    <2>1. 0..MaxVersion \subseteq Nat
      OBVIOUS
    <2> QED
      BY <1>2, <1>3, <1>4, <2>1, Zenon
  <1>7. Max(T) >= 1
    BY <1>5, <1>6
  <1>8. Max(U) >= Max(T) /\ Max(T) >= Max(U)
    BY <1>1, <1>3, <1>4, <1>7
  <1> QED
    BY <1>5, <1>6, <1>8

\* The version an admin record shows is one of the challenge's versions.
LEMMA ShownStored ==
  ASSUME TypeOK, NEW c \in Challenges, row[c] # None, NEW current,
         current # None => Stored(c, current)
  PROVE  Stored(c, Shown(c, current))
  <1>1. CASE In(c, "draft") # {}
    BY <1>1 DEF Shown, In, Stored
  <1>2. CASE In(c, "draft") = {} /\ current # None
    BY <1>2 DEF Shown
  <1>3. CASE In(c, "draft") = {} /\ current = None
    <2>1. Existing(c) # {}
      BY DEF TypeOK
    <2>2. CASE Existing(c) \cap Numbers = {}
      BY <1>3, <2>1, <2>2 DEF Shown, Newest, Existing, Stored
    <2>3. CASE Existing(c) \cap Numbers # {}
      <3>1. Max(Existing(c) \cap Numbers) \in Existing(c) \cap Numbers
        BY <2>3, MaxOfInterval, CatalogAssumption DEF Numbers
      <3> QED
        BY <1>3, <2>3, <3>1 DEF Shown, Newest, Existing, Stored
    <2> QED
      BY <2>2, <2>3
  <1> QED
    BY <1>1, <1>2, <1>3

-----------------------------------------------------------------------------
(* What the writing steps do to the tables, point by point *)

\* Version v of c becomes new, and everything else stays.
OnlyVersion(c, v, new) ==
  \A d \in Challenges, w \in Versions :
    version'[d][w] = IF d = c /\ w = v THEN new ELSE version[d][w]

OnlyRow(c, new) == \A d \in Challenges : row'[d] = IF d = c THEN new ELSE row[d]

Drafted(content) == [state |-> "draft", content |-> content]

LEMMA DraftedVersion ==
  ASSUME NEW content \in Contents
  PROVE  /\ Drafted(content) \in Version /\ Drafted(content) # None
         /\ Drafted(content).state = "draft" /\ Drafted(content).content = content
  BY NoneAssumption DEF Drafted, Version, States

LEMMA VersionFields ==
  ASSUME TypeOK, NEW c \in Challenges, NEW v \in Versions, version[c][v] # None
  PROVE  /\ version[c][v] \in Version
         /\ version[c][v].state \in States /\ version[c][v].content \in Contents
  BY DEF TypeOK, Version

LEMMA RequestFields ==
  ASSUME TypeOK, RequestInv, NEW a \in Admins, step[a] # "idle"
  PROVE  /\ RequestOK(a) /\ req[a] \in Request
         /\ req[a].challenge \in Challenges /\ req[a].slot \in Slots
         /\ req[a].content \in Contents /\ req[a].op \in Ops
         /\ req[a].version \in Versions \cup {None}
  BY DEF RequestInv, RequestOK, Request

LEMMA CreateEffect ==
  ASSUME TypeOK, RequestInv, NEW a \in Admins, Create(a)
  PROVE  LET c == req[a].challenge  v == req[a].version
             new == [id |-> Id(req[a].slot), slot |-> req[a].slot, current |-> None]
         IN  /\ c \in Challenges /\ v \in Versions /\ row[c] = None
             /\ new \in Row
             /\ row' = [row EXCEPT ![c] = new]
             /\ version' = [version EXCEPT ![c] =
                    [version[c] EXCEPT ![v] = Drafted(req[a].content)]]
             /\ OnlyRow(c, new)
             /\ OnlyVersion(c, v, Drafted(req[a].content))
  <1>1. /\ step[a] = "ordered" /\ req[a].op = "create"
        /\ row[req[a].challenge] = None
    BY DEF Create
  <1>2. /\ req[a].challenge \in Challenges /\ req[a].version \in Versions
        /\ req[a].slot \in Slots
    BY <1>1, RequestFields DEF RequestOK
  <1>3. [id |-> Id(req[a].slot), slot |-> req[a].slot, current |-> None] \in Row
    BY <1>2 DEF Row, Id
  <1>4. /\ row' = [row EXCEPT ![req[a].challenge] =
                     [id |-> Id(req[a].slot), slot |-> req[a].slot, current |-> None]]
        /\ version' = [version EXCEPT ![req[a].challenge] =
                         [version[req[a].challenge] EXCEPT ![req[a].version] =
                            Drafted(req[a].content)]]
    BY DEF Create, Drafted
  <1>5. OnlyRow(req[a].challenge, [id |-> Id(req[a].slot), slot |-> req[a].slot, current |-> None])
    BY <1>2, <1>4 DEF OnlyRow, TypeOK
  <1>6. OnlyVersion(req[a].challenge, req[a].version, Drafted(req[a].content))
    BY <1>2, <1>4 DEF OnlyVersion, TypeOK
  <1> QED
    BY <1>1, <1>2, <1>3, <1>4, <1>5, <1>6

LEMMA InsertEffect ==
  ASSUME TypeOK, RequestInv, NumberedInv, NEW a \in Admins, InsertVersion(a)
  PROVE  LET c == req[a].challenge  v == req[a].version
         IN  /\ c \in Challenges /\ v \in Versions /\ row[c] # None
             /\ version[c][v] = None
             /\ v \in Numbers /\ v = NextNumber(Existing(c)) /\ In(c, "draft") = {}
             /\ row' = row
             /\ version' = [version EXCEPT ![c] =
                    [version[c] EXCEPT ![v] = Drafted(req[a].content)]]
             /\ OnlyVersion(c, v, Drafted(req[a].content))
  <1>1. /\ step[a] = "approved" /\ req[a].op = "version"
        /\ version[req[a].challenge][req[a].version] = None
        /\ row' = row
    BY DEF InsertVersion
  <1>2. req[a].challenge \in Challenges /\ row[req[a].challenge] # None
    BY <1>1, RequestFields DEF RequestOK
  <1>3. /\ req[a].version \in Numbers /\ req[a].version \in Versions
        /\ req[a].version = NextNumber(Existing(req[a].challenge))
        /\ In(req[a].challenge, "draft") = {}
    BY <1>1 DEF NumberedInv, Numbered, Versions
  <1>4. version' = [version EXCEPT ![req[a].challenge] =
                      [version[req[a].challenge] EXCEPT ![req[a].version] =
                         Drafted(req[a].content)]]
    BY DEF InsertVersion, Drafted
  <1>5. OnlyVersion(req[a].challenge, req[a].version, Drafted(req[a].content))
    BY <1>2, <1>3, <1>4 DEF OnlyVersion, TypeOK
  <1> QED
    BY <1>1, <1>2, <1>3, <1>4, <1>5

LEMMA UpdateEffect ==
  ASSUME TypeOK, RequestInv, NEW a \in Admins, UpdateDraft(a)
  PROVE  LET c == req[a].challenge  v == req[a].version
             new == [id |-> row[c].id, slot |-> req[a].slot, current |-> row[c].current]
         IN  /\ c \in Challenges /\ v \in Versions /\ row[c] # None
             /\ version[c][v] # None /\ version[c][v].state = "draft"
             /\ new \in Row
             /\ row' = [row EXCEPT ![c] = new]
             /\ version' = [version EXCEPT ![c] =
                    [version[c] EXCEPT ![v] = Drafted(req[a].content)]]
             /\ OnlyRow(c, new)
             /\ OnlyVersion(c, v, Drafted(req[a].content))
  <1> DEFINE c == req[a].challenge
             v == req[a].version
             new == [id |-> row[c].id, slot |-> req[a].slot, current |-> row[c].current]
  <1>1. /\ step[a] = "ordered" /\ req[a].op = "update"
        /\ version[c][v].state = "draft"
        /\ row' = [row EXCEPT ![c].slot = req[a].slot]
        /\ version' = [version EXCEPT ![c][v].content = req[a].content]
    BY DEF UpdateDraft
  <1>2. /\ c \in Challenges /\ req[a].slot \in Slots /\ row[c] # None
        /\ v \in Versions /\ version[c][v] # None
    BY <1>1, RequestFields DEF RequestOK, Stored
  <1>3. row[c] \in Row
    BY <1>2 DEF TypeOK
  <1>4. new \in Row
    BY <1>2, <1>3 DEF Row
  <1>5. [row[c] EXCEPT !.slot = req[a].slot] = new
    BY <1>3 DEF Row
  <1>6. row' = [row EXCEPT ![c] = new]
    BY <1>1, <1>5
  <1>7. [version[c][v] EXCEPT !.content = req[a].content] = Drafted(req[a].content)
    BY <1>1, <1>2, VersionFields DEF Version, Drafted
  <1>8. version' = [version EXCEPT ![c] = [version[c] EXCEPT ![v] = Drafted(req[a].content)]]
    BY <1>1, <1>7
  <1> HIDE DEF c, v, new
  <1>9. OnlyRow(c, new)
    BY <1>2, <1>6 DEF OnlyRow, TypeOK
  <1>10. OnlyVersion(c, v, Drafted(req[a].content))
    BY <1>2, <1>8 DEF OnlyVersion, TypeOK
  <1> QED
    BY <1>1, <1>2, <1>4, <1>6, <1>8, <1>9, <1>10 DEF c, v, new

Restated(c, v, state) == [state |-> state, content |-> version[c][v].content]

\* The current version of c is v, or none; nothing else about c's row changes.
Repointed(c, v) == [id |-> row[c].id, slot |-> row[c].slot, current |-> v]

LEMMA RestatedVersion ==
  ASSUME TypeOK, NEW c \in Challenges, NEW v \in Versions, version[c][v] # None,
         NEW state \in States
  PROVE  /\ Restated(c, v, state) \in Version /\ Restated(c, v, state) # None
         /\ Restated(c, v, state).state = state
         /\ Restated(c, v, state).content = version[c][v].content
         /\ [version[c][v] EXCEPT !.state = state] = Restated(c, v, state)
  <1>1. version[c][v] \in Version
    BY DEF TypeOK
  <1>2. Restated(c, v, state) \in Version
    BY <1>1 DEF Restated, Version
  <1>3. [version[c][v] EXCEPT !.state = state] = Restated(c, v, state)
    BY <1>1 DEF Restated, Version
  <1>4. /\ Restated(c, v, state).state = state
        /\ Restated(c, v, state).content = version[c][v].content
    BY DEF Restated
  <1> QED
    BY <1>2, <1>3, <1>4, NoneAssumption

LEMMA RepointedRow ==
  ASSUME TypeOK, NEW c \in Challenges, row[c] # None, NEW v \in Versions \cup {None}
  PROVE  /\ Repointed(c, v) \in Row /\ Repointed(c, v) # None
         /\ Repointed(c, v).current = v /\ Repointed(c, v).id = row[c].id
         /\ [row[c] EXCEPT !.current = v] = Repointed(c, v)
  <1>1. row[c] \in Row
    BY DEF TypeOK
  <1>2. Repointed(c, v) \in Row
    BY <1>1 DEF Repointed, Row
  <1>3. [row[c] EXCEPT !.current = v] = Repointed(c, v)
    BY <1>1 DEF Repointed, Row
  <1>4. Repointed(c, v).current = v /\ Repointed(c, v).id = row[c].id
    BY DEF Repointed
  <1> QED
    BY <1>2, <1>3, <1>4, NoneAssumption

LEMMA RetiredVersions ==
  ASSUME TypeOK, NEW c \in Challenges, NEW vs, vs \subseteq In(c, "published")
  PROVE  /\ Retired(c, vs) \in [Versions -> Version \cup {None}]
         /\ \A w \in Versions :
              Retired(c, vs)[w] = IF w \in vs THEN Restated(c, w, "retired") ELSE version[c][w]
  <1>1. ASSUME NEW w \in vs
        PROVE  /\ w \in Versions /\ Restated(c, w, "retired") \in Version
               /\ [version[c][w] EXCEPT !.state = "retired"] = Restated(c, w, "retired")
    BY RestatedVersion DEF In, States
  <1>2. \A w \in Versions :
          Retired(c, vs)[w] = IF w \in vs THEN Restated(c, w, "retired") ELSE version[c][w]
    BY <1>1 DEF Retired
  <1>3. \A w \in Versions : version[c][w] \in Version \cup {None}
    BY DEF TypeOK
  <1>4. \A w \in Versions : Retired(c, vs)[w] \in Version \cup {None}
    BY <1>1, <1>2, <1>3
  <1>5. Retired(c, vs) = [w \in Versions |-> Retired(c, vs)[w]]
    BY DEF Retired
  <1> QED
    BY <1>2, <1>4, <1>5

LEMMA PublishEffect ==
  ASSUME TypeOK, RequestInv, NEW a \in Admins, Publish(a)
  PROVE  LET c == req[a].challenge  v == req[a].version
         IN  /\ c \in Challenges /\ v \in Versions /\ row[c] # None
             /\ version[c][v] # None /\ version[c][v].state = "draft"
             /\ version[c][v].content \in Complete
             /\ row' = [row EXCEPT ![c] = Repointed(c, v)]
             /\ version' = [version EXCEPT ![c] =
                  [Retired(c, In(c, "published")) EXCEPT ![v] = Restated(c, v, "published")]]
             /\ OnlyRow(c, Repointed(c, v))
             /\ \A d \in Challenges, w \in Versions :
                  version'[d][w] = IF d # c THEN version[d][w]
                                   ELSE IF w = v THEN Restated(c, v, "published")
                                   ELSE IF w \in In(c, "published") THEN Restated(c, w, "retired")
                                   ELSE version[d][w]
  <1> DEFINE c == req[a].challenge
             v == req[a].version
             old == Retired(c, In(c, "published"))
  <1>1. /\ Publishing(a)
        /\ version[c][v].content \in Complete
        /\ version[c][v].state = "draft"
        /\ version' = [version EXCEPT ![c] = [old EXCEPT ![v].state = "published"]]
        /\ row' = [row EXCEPT ![c].current = v]
    BY DEF Publish, Activate
  <1>2. RequestOK(a) /\ c \in Challenges
    BY <1>1, RequestFields DEF Publishing
  <1>3. Stored(c, v)
    BY <1>1, <1>2 DEF Publishing, RequestOK
  <1>4. v \in Versions /\ version[c][v] # None
    BY <1>3 DEF Stored
  <1>5. row[c] # None
    BY <1>2, <1>4 DEF TypeOK, Existing
  <1>6. v \notin In(c, "published")
    BY <1>1 DEF In
  <1>7. /\ old \in [Versions -> Version \cup {None}]
        /\ \A w \in Versions :
             old[w] = IF w \in In(c, "published") THEN Restated(c, w, "retired")
                      ELSE version[c][w]
    <2> HIDE DEF c
    <2> QED
      BY <1>2, RetiredVersions
  <1>8. [version[c][v] EXCEPT !.state = "published"] = Restated(c, v, "published")
    <2> HIDE DEF c, v
    <2> QED
      BY <1>2, <1>4, RestatedVersion DEF States
  <1>9. row' = [row EXCEPT ![c] = Repointed(c, v)]
    <2>1. [row[c] EXCEPT !.current = v] = Repointed(c, v)
      <3> HIDE DEF c, v
      <3> QED
        BY <1>2, <1>4, <1>5, RepointedRow
    <2> QED
      BY <1>1, <2>1
  <1>10. version' = [version EXCEPT ![c] = [old EXCEPT ![v] = Restated(c, v, "published")]]
    <2>1. old[v] = version[c][v]
      BY <1>4, <1>6, <1>7
    <2> HIDE DEF old, c, v
    <2> QED
      BY <1>1, <1>8, <2>1
  <1> HIDE DEF c, v, old
  <1>11. OnlyRow(c, Repointed(c, v))
    BY <1>2, <1>9 DEF OnlyRow, TypeOK
  <1>12. \A d \in Challenges, w \in Versions :
           version'[d][w] = IF d # c THEN version[d][w]
                            ELSE IF w = v THEN Restated(c, v, "published")
                            ELSE IF w \in In(c, "published") THEN Restated(c, w, "retired")
                            ELSE version[d][w]
    BY <1>2, <1>4, <1>7, <1>10 DEF TypeOK
  <1> QED
    BY <1>1, <1>2, <1>4, <1>5, <1>9, <1>10, <1>11, <1>12 DEF c, v, old

LEMMA UnpublishEffect ==
  ASSUME TypeOK, RequestInv, NEW a \in Admins, Unpublish(a)
  PROVE  LET c == req[a].challenge  vs == {row[c].current} \cap In(c, "published")
         IN  /\ c \in Challenges /\ row[c] # None /\ row[c].current \in Versions
             /\ row' = [row EXCEPT ![c] = Repointed(c, None)]
             /\ version' = [version EXCEPT ![c] = Retired(c, vs)]
             /\ OnlyRow(c, Repointed(c, None))
             /\ \A d \in Challenges, w \in Versions :
                  version'[d][w] = IF d = c /\ w \in vs THEN Restated(c, w, "retired")
                                   ELSE version[d][w]
  <1> DEFINE c == req[a].challenge
             vs == {row[c].current} \cap In(c, "published")
  <1>1. /\ step[a] = "approved" /\ req[a].op = "unpublish"
        /\ row[c].current # None
        /\ version' = [version EXCEPT ![c] = Retired(c, vs)]
        /\ row' = [row EXCEPT ![c].current = None]
    BY DEF Unpublish, Deactivate
  <1>2. c \in Challenges /\ row[c] # None
    BY <1>1, RequestFields DEF RequestOK
  <1>3. row[c].current \in Versions
    BY <1>1, <1>2 DEF TypeOK, Row
  <1> HIDE DEF c
  <1>4. /\ Retired(c, vs) \in [Versions -> Version \cup {None}]
        /\ \A w \in Versions :
             Retired(c, vs)[w] = IF w \in vs THEN Restated(c, w, "retired") ELSE version[c][w]
    <2>1. vs \subseteq In(c, "published")
      OBVIOUS
    <2> HIDE DEF vs
    <2> QED
      BY <1>2, <2>1, RetiredVersions
  <1>5. row' = [row EXCEPT ![c] = Repointed(c, None)]
    <2>1. [row[c] EXCEPT !.current = None] = Repointed(c, None)
      BY <1>2, RepointedRow
    <2> QED
      BY <1>1, <2>1
  <1>6. OnlyRow(c, Repointed(c, None))
    BY <1>2, <1>5 DEF OnlyRow, TypeOK
  <1> HIDE DEF vs
  <1>7. \A d \in Challenges, w \in Versions :
          version'[d][w] = IF d = c /\ w \in vs THEN Restated(c, w, "retired")
                           ELSE version[d][w]
    BY <1>1, <1>2, <1>4 DEF TypeOK
  <1> QED
    BY <1>1, <1>2, <1>3, <1>5, <1>6, <1>7 DEF c, vs

SeedRow(c) == [id |-> "control", slot |-> SeedSlot[c], current |-> 1]

SeedVersion(c) == [state |-> "published", content |-> SeedContent[c]]

LEMMA SeedEffect ==
  ASSUME TypeOK, Seed
  PROVE  /\ 1 \in Versions
         /\ \A c \in Seeded : row[c] # None => c \in reseeded'
         /\ \A c \in Challenges : row'[c] = IF c \in Seeded THEN SeedRow(c) ELSE row[c]
         /\ \A c \in Seeded : /\ c \in Challenges
                              /\ SeedRow(c) \in Row /\ SeedVersion(c) \in Version
                              /\ SeedContent[c] \in Complete /\ SeedContent[c] \in Contents
         /\ \A c \in Challenges, w \in Versions :
              version'[c][w] = IF c \in Seeded /\ w = 1 THEN SeedVersion(c) ELSE version[c][w]
         /\ row' = [c \in Challenges |-> row'[c]]
         /\ version' = [c \in Challenges |-> [w \in Versions |-> version'[c][w]]]
  <1> USE DEF Seed
  <1>1. 1 \in Versions
    BY CatalogAssumption DEF Versions, Numbers
  <1>2. \A c \in Seeded : /\ c \in Challenges /\ SeedSlot[c] \in Slots
                          /\ SeedContent[c] \in Complete /\ SeedContent[c] \in Contents
    BY CatalogAssumption
  <1>3. \A c \in Seeded : SeedRow(c) \in Row
    BY <1>1, <1>2 DEF SeedRow, Row
  <1>4. \A c \in Seeded : SeedVersion(c) \in Version
    BY <1>2 DEF SeedVersion, Version, States
  <1>5. \A c \in Challenges : row'[c] = IF c \in Seeded THEN SeedRow(c) ELSE row[c]
    BY DEF SeedRow
  <1>6. \A c \in Challenges :
          version'[c] = IF c \in Seeded THEN [version[c] EXCEPT ![1] = SeedVersion(c)]
                        ELSE version[c]
    BY DEF SeedVersion
  <1>7. \A c \in Challenges : version[c] \in [Versions -> Version \cup {None}]
    BY DEF TypeOK
  <1>8. \A c \in Challenges, w \in Versions :
          version'[c][w] = IF c \in Seeded /\ w = 1 THEN SeedVersion(c) ELSE version[c][w]
    BY <1>1, <1>6, <1>7
  <1>9. \A c \in Challenges : version'[c] = [w \in Versions |-> version'[c][w]]
    BY <1>1, <1>6, <1>7
  <1>10. version' = [c \in Challenges |-> version'[c]]
    OBVIOUS
  <1> QED
    BY <1>1, <1>2, <1>3, <1>4, <1>5, <1>8, <1>9, <1>10

-----------------------------------------------------------------------------
(* Versions and rows only grow, and what was published stays as it was *)

TablesMoved ==
  \/ UNCHANGED tables
  \/ Seed
  \/ \E a \in Admins : Create(a) \/ InsertVersion(a) \/ UpdateDraft(a) \/ Publish(a) \/ Unpublish(a)

LEMMA WritersOnly ==
  ASSUME [Next]_vars
  PROVE  TablesMoved
  <1>1. CASE UNCHANGED vars
    BY <1>1 DEF vars, tables, TablesMoved
  <1>2. ASSUME NEW p \in Players, Read(p)
        PROVE  UNCHANGED tables
    BY <1>2 DEF Read, ReadPointer, ReadVersion, ReadHidden, EndPlay
  <1>3. ASSUME NEW a \in Admins,
               AskCreate(a) \/ Ask(a) \/ ApproveUpdate(a) \/ ApproveVersion(a) \/ ApprovePublish(a)
        PROVE  UNCHANGED tables
    BY <1>3 DEF AskCreate, Ask, ApproveUpdate, ApproveVersion, ApprovePublish, Begin
  <1>4. ASSUME NEW a \in Admins, CheckOrder(a) \/ Drop(a)
        PROVE  UNCHANGED tables
    BY <1>4 DEF CheckOrder, Drop
  <1>5. ASSUME NEW a \in Admins, Author(a)
        PROVE  TablesMoved
    BY <1>3, <1>4, <1>5 DEF Author, TablesMoved
  <1>6. CASE Seed
    BY <1>6 DEF TablesMoved
  <1>7. CASE \E p \in Players : Read(p)
    BY <1>2, <1>7 DEF TablesMoved
  <1> QED
    BY <1>1, <1>5, <1>6, <1>7 DEF Next

LEMMA ReseededStep ==
  ASSUME TypeOK, [Next]_vars
  PROVE  /\ reseeded \subseteq reseeded' /\ reseeded' \subseteq Seeded
         /\ ~Seed => reseeded' = reseeded
  <1>1. reseeded \subseteq Seeded
    BY DEF TypeOK
  <1>2. ASSUME NEW a \in Admins, Author(a)
        PROVE  reseeded' = reseeded
    BY <1>2 DEF Author, AskCreate, Ask, ApproveUpdate, ApproveVersion, ApprovePublish, Begin,
                CheckOrder, Create, UpdateDraft, InsertVersion, Publish, Unpublish, Activate,
                Deactivate, Drop, Done
  <1>3. ASSUME NEW p \in Players, Read(p)
        PROVE  reseeded' = reseeded
    BY <1>3 DEF Read, ReadPointer, ReadVersion, ReadHidden, EndPlay
  <1>4. CASE Seed
    BY <1>1, <1>4 DEF Seed
  <1>5. CASE UNCHANGED vars
    BY <1>1, <1>5 DEF vars
  <1> QED
    BY <1>1, <1>2, <1>3, <1>4, <1>5 DEF Next

\* The seed script has written over version v of c.
Overwritten(c, v) ==
  Seed /\ c \in Seeded /\ c \in reseeded' /\ v = 1 /\ version'[c][v].content = SeedContent[c]

\* Nothing disappears, and a version that has left the draft state stays out of
\* it and keeps its content, or gets the one of the seed script.
Grown ==
  /\ reseeded \subseteq reseeded'
  /\ \A c \in Challenges : row[c] # None => row'[c] # None
  /\ \A c \in Challenges, v \in Versions :
       version[c][v] # None =>
         /\ version'[c][v] # None
         /\ version[c][v].state # "draft" =>
              /\ version'[c][v].state # "draft"
              /\ version'[c][v].content = version[c][v].content \/ Overwritten(c, v)

LEMMA Grow ==
  ASSUME IInv, [Next]_vars
  PROVE  Grown
  <1>a. TypeOK /\ RequestInv /\ NumberedInv /\ SeededInv
    BY DEF IInv
  <1>b. reseeded \subseteq reseeded'
    BY <1>a, ReseededStep
  <1>0. CASE UNCHANGED tables
    BY <1>0, <1>b DEF Grown, tables
  <1>1. ASSUME NEW a \in Admins, Create(a)
        PROVE  Grown
    <2> DEFINE c == req[a].challenge  v == req[a].version
    <2>1. /\ c \in Challenges /\ v \in Versions /\ row[c] = None
          /\ \A d \in Challenges : d # c => row'[d] = row[d]
          /\ \A d \in Challenges, w \in Versions :
               d # c \/ w # v => version'[d][w] = version[d][w]
      BY <1>1, <1>a, CreateEffect DEF OnlyRow, OnlyVersion
    <2>2. version[c][v] = None
      BY <1>a, <2>1 DEF TypeOK, Existing
    <2> QED
      BY <1>b, <2>1, <2>2 DEF Grown
  <1>2. ASSUME NEW a \in Admins, InsertVersion(a)
        PROVE  Grown
    BY <1>2, <1>a, <1>b, InsertEffect DEF Grown, OnlyVersion
  <1>3. ASSUME NEW a \in Admins, UpdateDraft(a)
        PROVE  Grown
    <2> DEFINE c == req[a].challenge  v == req[a].version
    <2>1. /\ c \in Challenges /\ v \in Versions
          /\ version[c][v].state = "draft" /\ version'[c][v] = Drafted(req[a].content)
          /\ \A d \in Challenges : row[d] # None => row'[d] # None
          /\ \A d \in Challenges, w \in Versions :
               d # c \/ w # v => version'[d][w] = version[d][w]
      BY <1>3, <1>a, UpdateEffect, NoneAssumption DEF OnlyRow, OnlyVersion
    <2>2. version'[c][v] # None
      <3>1. req[a].content \in Contents
        BY <1>3, <1>a, RequestFields DEF UpdateDraft
      <3> QED
        BY <2>1, <3>1, DraftedVersion
    <2> QED
      BY <1>b, <2>1, <2>2 DEF Grown
  <1>4. ASSUME NEW a \in Admins, Publish(a)
        PROVE  Grown
    <2> DEFINE c == req[a].challenge  v == req[a].version
    <2>1. /\ c \in Challenges /\ v \in Versions /\ row[c] # None
          /\ version[c][v] # None /\ version[c][v].state = "draft"
          /\ OnlyRow(c, Repointed(c, v))
          /\ \A d \in Challenges, w \in Versions :
               version'[d][w] = IF d # c THEN version[d][w]
                                ELSE IF w = v THEN Restated(c, v, "published")
                                ELSE IF w \in In(c, "published") THEN Restated(c, w, "retired")
                                ELSE version[d][w]
      BY <1>4, <1>a, PublishEffect
    <2>2. Repointed(c, v) # None
      <3> HIDE DEF c, v
      <3> QED
        BY <1>a, <2>1, RepointedRow
    <2>3. \A w \in Versions, s \in {"published", "retired"} : version[c][w] # None =>
            /\ Restated(c, w, s) # None /\ Restated(c, w, s).state # "draft"
            /\ Restated(c, w, s).content = version[c][w].content
      <3> HIDE DEF c, v
      <3> QED
        BY <1>a, <2>1, RestatedVersion DEF States
    <2>4. \A d \in Challenges : row[d] # None => row'[d] # None
      BY <2>1, <2>2 DEF OnlyRow
    <2> HIDE DEF c, v
    <2> QED
      BY <1>b, <2>1, <2>3, <2>4 DEF Grown
  <1>5. ASSUME NEW a \in Admins, Unpublish(a)
        PROVE  Grown
    <2> DEFINE c == req[a].challenge
               vs == {row[c].current} \cap In(c, "published")
    <2>1. /\ c \in Challenges /\ row[c] # None
          /\ OnlyRow(c, Repointed(c, None))
          /\ \A d \in Challenges, w \in Versions :
               version'[d][w] = IF d = c /\ w \in vs THEN Restated(c, w, "retired")
                                ELSE version[d][w]
      BY <1>5, <1>a, UnpublishEffect
    <2> HIDE DEF c, vs
    <2>2. Repointed(c, None) # None
      BY <1>a, <2>1, RepointedRow
    <2>3. \A w \in Versions : version[c][w] # None =>
            /\ Restated(c, w, "retired") # None /\ Restated(c, w, "retired").state # "draft"
            /\ Restated(c, w, "retired").content = version[c][w].content
      BY <1>a, <2>1, RestatedVersion DEF States
    <2>4. \A d \in Challenges : row[d] # None => row'[d] # None
      BY <2>1, <2>2 DEF OnlyRow
    <2> QED
      BY <1>b, <2>1, <2>3, <2>4 DEF Grown
  <1>6. CASE Seed
    <2>1. \A c \in Challenges : row[c] # None => row'[c] # None
      BY <1>6, <1>a, SeedEffect, NoneAssumption
    <2>2. \A c \in Seeded : SeedVersion(c) # None /\ SeedVersion(c).state # "draft"
                            /\ SeedVersion(c).content = SeedContent[c]
      BY <1>6, <1>a, SeedEffect, NoneAssumption DEF SeedVersion
    <2>3. \A c \in Seeded : version[c][1] # None => c \in reseeded'
      BY <1>6, <1>a, SeedEffect DEF TypeOK, Existing
    <2>4. \A c \in Challenges, w \in Versions :
            version'[c][w] = IF c \in Seeded /\ w = 1 THEN SeedVersion(c) ELSE version[c][w]
      BY <1>6, <1>a, SeedEffect
    <2> QED
      BY <1>6, <1>b, <2>1, <2>2, <2>3, <2>4 DEF Grown, Overwritten
  <1> QED
    BY <1>0, <1>1, <1>2, <1>3, <1>4, <1>5, <1>6, WritersOnly DEF TablesMoved

-----------------------------------------------------------------------------
(* The inductive invariant *)

\* The tables keep their types, and rows and versions come together.
LEMMA TablesStep ==
  ASSUME IInv, [Next]_vars
  PROVE  /\ row' \in [Challenges -> Row \cup {None}]
         /\ version' \in [Challenges -> [Versions -> Version \cup {None}]]
         /\ \A c \in Challenges : row'[c] = None <=> Existing(c)' = {}
  <1>a. TypeOK /\ RequestInv /\ NumberedInv
    BY DEF IInv
  <1>b. /\ row \in [Challenges -> Row \cup {None}]
        /\ version \in [Challenges -> [Versions -> Version \cup {None}]]
        /\ \A c \in Challenges : row[c] = None <=> \A v \in Versions : version[c][v] = None
    BY <1>a DEF TypeOK, Existing
  <1> SUFFICES /\ row' \in [Challenges -> Row \cup {None}]
               /\ version' \in [Challenges -> [Versions -> Version \cup {None}]]
               /\ \A c \in Challenges : row'[c] = None <=> \A v \in Versions : version'[c][v] = None
    BY DEF Existing
  <1>0. CASE UNCHANGED tables
    BY <1>0, <1>b DEF tables
  <1>1. ASSUME NEW a \in Admins, Create(a)
        PROVE  /\ row' \in [Challenges -> Row \cup {None}]
               /\ version' \in [Challenges -> [Versions -> Version \cup {None}]]
               /\ \A c \in Challenges :
                    row'[c] = None <=> \A v \in Versions : version'[c][v] = None
    <2> DEFINE c == req[a].challenge
               v == req[a].version
               new == [id |-> Id(req[a].slot), slot |-> req[a].slot, current |-> None]
    <2>1. /\ c \in Challenges /\ v \in Versions /\ new \in Row
          /\ row' = [row EXCEPT ![c] = new]
          /\ version' = [version EXCEPT ![c] = [version[c] EXCEPT ![v] = Drafted(req[a].content)]]
          /\ OnlyRow(c, new) /\ OnlyVersion(c, v, Drafted(req[a].content))
      BY <1>1, <1>a, CreateEffect
    <2>2. new # None
      BY <2>1, NoneAssumption
    <2>3. Drafted(req[a].content) \in Version /\ Drafted(req[a].content) # None
      <3>1. req[a].content \in Contents
        BY <1>1, <1>a, RequestFields DEF Create
      <3> QED
        BY <3>1, DraftedVersion
    <2> HIDE DEF c, v, new
    <2> QED
      BY <1>b, <2>1, <2>2, <2>3 DEF OnlyRow, OnlyVersion
  <1>2. ASSUME NEW a \in Admins, InsertVersion(a)
        PROVE  /\ row' \in [Challenges -> Row \cup {None}]
               /\ version' \in [Challenges -> [Versions -> Version \cup {None}]]
               /\ \A c \in Challenges :
                    row'[c] = None <=> \A v \in Versions : version'[c][v] = None
    <2> DEFINE c == req[a].challenge
               v == req[a].version
    <2>1. /\ c \in Challenges /\ v \in Versions /\ row[c] # None /\ row' = row
          /\ version' = [version EXCEPT ![c] = [version[c] EXCEPT ![v] = Drafted(req[a].content)]]
          /\ OnlyVersion(c, v, Drafted(req[a].content))
      BY <1>2, <1>a, InsertEffect
    <2>2. Drafted(req[a].content) \in Version /\ Drafted(req[a].content) # None
      <3>1. req[a].content \in Contents
        BY <1>2, <1>a, RequestFields DEF InsertVersion
      <3> QED
        BY <3>1, DraftedVersion
    <2> HIDE DEF c, v
    <2> QED
      BY <1>b, <2>1, <2>2 DEF OnlyVersion
  <1>3. ASSUME NEW a \in Admins, UpdateDraft(a)
        PROVE  /\ row' \in [Challenges -> Row \cup {None}]
               /\ version' \in [Challenges -> [Versions -> Version \cup {None}]]
               /\ \A c \in Challenges :
                    row'[c] = None <=> \A v \in Versions : version'[c][v] = None
    <2> DEFINE c == req[a].challenge
               v == req[a].version
               new == [id |-> row[c].id, slot |-> req[a].slot, current |-> row[c].current]
    <2>1. /\ c \in Challenges /\ v \in Versions /\ row[c] # None /\ new \in Row
          /\ row' = [row EXCEPT ![c] = new]
          /\ version' = [version EXCEPT ![c] = [version[c] EXCEPT ![v] = Drafted(req[a].content)]]
          /\ OnlyRow(c, new) /\ OnlyVersion(c, v, Drafted(req[a].content))
      BY <1>3, <1>a, UpdateEffect
    <2>2. new # None
      BY <2>1, NoneAssumption
    <2>3. Drafted(req[a].content) \in Version /\ Drafted(req[a].content) # None
      <3>1. req[a].content \in Contents
        BY <1>3, <1>a, RequestFields DEF UpdateDraft
      <3> QED
        BY <3>1, DraftedVersion
    <2> HIDE DEF c, v, new
    <2> QED
      BY <1>b, <2>1, <2>2, <2>3 DEF OnlyRow, OnlyVersion
  <1>4. ASSUME NEW a \in Admins, Publish(a)
        PROVE  /\ row' \in [Challenges -> Row \cup {None}]
               /\ version' \in [Challenges -> [Versions -> Version \cup {None}]]
               /\ \A c \in Challenges :
                    row'[c] = None <=> \A v \in Versions : version'[c][v] = None
    <2> DEFINE c == req[a].challenge
               v == req[a].version
               old == Retired(c, In(c, "published"))
    <2>1. /\ c \in Challenges /\ v \in Versions /\ row[c] # None /\ version[c][v] # None
          /\ row' = [row EXCEPT ![c] = Repointed(c, v)]
          /\ version' = [version EXCEPT ![c] = [old EXCEPT ![v] = Restated(c, v, "published")]]
      BY <1>4, <1>a, PublishEffect
    <2> HIDE DEF c, v
    <2>2. Repointed(c, v) \in Row /\ Repointed(c, v) # None
      BY <1>a, <2>1, RepointedRow
    <2>3. Restated(c, v, "published") \in Version /\ Restated(c, v, "published") # None
      BY <1>a, <2>1, RestatedVersion DEF States
    <2>4. old \in [Versions -> Version \cup {None}]
      BY <1>a, <2>1, RetiredVersions
    <2> HIDE DEF old
    <2>5. version'[c][v] # None /\ row'[c] # None
      BY <1>b, <2>1, <2>2, <2>3, <2>4
    <2> QED
      BY <1>b, <2>1, <2>2, <2>3, <2>4, <2>5
  <1>5. ASSUME NEW a \in Admins, Unpublish(a)
        PROVE  /\ row' \in [Challenges -> Row \cup {None}]
               /\ version' \in [Challenges -> [Versions -> Version \cup {None}]]
               /\ \A c \in Challenges :
                    row'[c] = None <=> \A v \in Versions : version'[c][v] = None
    <2> DEFINE c == req[a].challenge
               vs == {row[c].current} \cap In(c, "published")
    <2>1. /\ c \in Challenges /\ row[c] # None
          /\ row' = [row EXCEPT ![c] = Repointed(c, None)]
          /\ version' = [version EXCEPT ![c] = Retired(c, vs)]
      BY <1>5, <1>a, UnpublishEffect
    <2> HIDE DEF c
    <2>2. Repointed(c, None) \in Row /\ Repointed(c, None) # None
      BY <1>a, <2>1, RepointedRow
    <2>3. vs \subseteq In(c, "published")
      OBVIOUS
    <2> HIDE DEF vs
    <2>4. Retired(c, vs) \in [Versions -> Version \cup {None}]
      BY <1>a, <2>1, <2>3, RetiredVersions
    <2>5. PICK w \in Versions : version[c][w] # None
      BY <1>b, <2>1
    <2>6. version'[c][w] # None
      BY <2>1, <2>5, Grow DEF Grown
    <2> QED
      BY <1>b, <2>1, <2>2, <2>4, <2>6
  <1>6. CASE Seed
    <2>1. \A c \in Seeded : /\ c \in Challenges /\ 1 \in Versions
                            /\ row'[c] = SeedRow(c) /\ SeedRow(c) \in Row
                            /\ version'[c][1] = SeedVersion(c) /\ SeedVersion(c) \in Version
      BY <1>6, <1>a, SeedEffect
    <2>2. \A c \in Challenges, w \in Versions :
            version'[c][w] = IF c \in Seeded /\ w = 1 THEN SeedVersion(c) ELSE version[c][w]
      BY <1>6, <1>a, SeedEffect
    <2>3. \A c \in Challenges : row'[c] = IF c \in Seeded THEN SeedRow(c) ELSE row[c]
      BY <1>6, <1>a, SeedEffect
    <2>4. /\ row' = [c \in Challenges |-> row'[c]]
          /\ version' = [c \in Challenges |-> [w \in Versions |-> version'[c][w]]]
      BY <1>6, <1>a, SeedEffect
    <2>5. \A c \in Challenges : row'[c] \in Row \cup {None}
      BY <1>b, <2>1, <2>3
    <2>6. \A c \in Challenges, w \in Versions : version'[c][w] \in Version \cup {None}
      BY <1>b, <2>1, <2>2
    <2>7. \A c \in Challenges : row'[c] = None <=> \A v \in Versions : version'[c][v] = None
      BY <1>b, <2>1, <2>2, <2>3, NoneAssumption
    <2> QED
      BY <2>4, <2>5, <2>6, <2>7
  <1> QED
    BY <1>0, <1>1, <1>2, <1>3, <1>4, <1>5, <1>6, WritersOnly DEF TablesMoved

\* What a request has read stays right while others write.
LEMMA StillOK ==
  ASSUME IInv, Grown, NEW b \in Admins, step[b] # "idle", step'[b] = step[b], req'[b] = req[b]
  PROVE  RequestOK(b)'
  <1>1. RequestOK(b)
    BY DEF IInv, RequestInv
  <1>2. req[b].challenge \in Challenges
    BY <1>1 DEF RequestOK, Request
  <1>3. \A v : Stored(req[b].challenge, v) => Stored(req[b].challenge, v)'
    BY <1>2 DEF Stored, Grown
  <1>4. row[req[b].challenge] # None => row'[req[b].challenge] # None
    BY <1>2 DEF Grown
  <1> QED
    BY <1>1, <1>3, <1>4 DEF RequestOK, Stored

LEMMA Advanced ==
  ASSUME IInv, Grown, NEW a \in Admins, NEW s \in Steps, NEW r \in Request \cup {None},
         step' = [step EXCEPT ![a] = s], req' = [req EXCEPT ![a] = r],
         s = "idle" \/ RequestOK(a)'
  PROVE  /\ step' \in [Admins -> Steps]
         /\ req' \in [Admins -> Request \cup {None}]
         /\ RequestInv'
  <1>1. step \in [Admins -> Steps] /\ req \in [Admins -> Request \cup {None}]
    BY DEF IInv, TypeOK
  <1>2. step'[a] = s
    BY <1>1
  <1>3. ASSUME NEW b \in Admins \ {a}
        PROVE  step'[b] # "idle" => RequestOK(b)'
    BY <1>1, <1>3, StillOK
  <1> QED
    BY <1>1, <1>2, <1>3 DEF RequestInv

LEMMA RequestStep ==
  ASSUME IInv, [Next]_vars
  PROVE  /\ step' \in [Admins -> Steps]
         /\ req' \in [Admins -> Request \cup {None}]
         /\ RequestInv'
  <1>g. Grown
    BY Grow
  <1>a. TypeOK /\ RequestInv
    BY DEF IInv
  <1>b. step \in [Admins -> Steps] /\ req \in [Admins -> Request \cup {None}]
    BY <1>a DEF TypeOK
  <1>0. CASE UNCHANGED <<step, req>>
    BY <1>0, <1>b, <1>g, StillOK DEF RequestInv
  <1>1. ASSUME NEW a \in Admins, AskCreate(a)
        PROVE  /\ step' \in [Admins -> Steps]
               /\ req' \in [Admins -> Request \cup {None}]
               /\ RequestInv'
    <2>1. PICK c \in Challenges, slot \in Slots, content \in Contents, v \in Versions,
               publish \in BOOLEAN :
            Begin(a, Sent("create", c, slot, content, v, None, publish), "approved")
      BY <1>1 DEF AskCreate
    <2> DEFINE r == Sent("create", c, slot, content, v, None, publish)
    <2>2. r \in Request /\ r.op = "create" /\ r.version = v /\ r.current = None
      <3>1. /\ "create" \in Ops /\ v \in Versions \cup {None}
            /\ None \in Versions \cup {None}
        BY DEF Ops
      <3>2. r = Sent("create", c, slot, content, v, None, publish)
        OBVIOUS
      <3> HIDE DEF r
      <3> QED
        BY <3>1, <3>2 DEF Sent, Request
    <2> HIDE DEF r
    <2>3. step' = [step EXCEPT ![a] = "approved"] /\ req' = [req EXCEPT ![a] = r]
      BY <2>1 DEF Begin, Goto, r
    <2>4. step'[a] = "approved" /\ req'[a] = r
      BY <1>b, <2>3
    <2>5. RequestOK(a)'
      BY <2>2, <2>4 DEF RequestOK
    <2> QED
      BY <1>g, <2>2, <2>3, <2>5, Advanced DEF Steps
  <1>2. ASSUME NEW a \in Admins, Ask(a)
        PROVE  /\ step' \in [Admins -> Steps]
               /\ req' \in [Admins -> Request \cup {None}]
               /\ RequestInv'
    <2>1. PICK op \in Ops \ {"create"}, c \in Challenges, slot \in Slots, content \in Contents :
            /\ row[c] # None
            /\ Begin(a, Sent(op, c, slot, content, None, row[c].current, FALSE),
                     IF op = "unpublish" THEN "approved" ELSE "read")
      BY <1>2 DEF Ask
    <2> DEFINE r == Sent(op, c, slot, content, None, row[c].current, FALSE)
               s == IF op = "unpublish" THEN "approved" ELSE "read"
    <2>2. row[c].current \in Versions \cup {None}
      BY <1>a, <2>1 DEF TypeOK, Row
    <2>3. /\ r \in Request /\ r.op = op /\ r.challenge = c /\ r.version = None
          /\ r.current = row[c].current
      <3>1. op \in Ops /\ FALSE \in BOOLEAN /\ None \in Versions \cup {None}
        OBVIOUS
      <3>2. r = Sent(op, c, slot, content, None, row[c].current, FALSE)
        OBVIOUS
      <3> HIDE DEF r
      <3> QED
        BY <2>2, <3>1, <3>2 DEF Sent, Request
    <2> HIDE DEF r
    <2>4. step' = [step EXCEPT ![a] = s] /\ req' = [req EXCEPT ![a] = r]
      BY <2>1 DEF Begin, Goto, r
    <2>5. step'[a] = s /\ req'[a] = r
      BY <1>b, <2>4
    <2>6. row[c].current # None => Stored(c, row[c].current)
      BY <2>1, <2>2 DEF Stored, IInv, PointerInv, In
    <2>7. /\ row' = row /\ version' = version
      BY <2>1 DEF Begin, tables
    <2>8. RequestOK(a)'
      BY <2>1, <2>3, <2>5, <2>6, <2>7 DEF RequestOK, Stored, Ops
    <2> QED
      BY <1>g, <2>3, <2>4, <2>8, Advanced DEF Steps
  <1>3. ASSUME NEW a \in Admins, ApproveUpdate(a) \/ ApprovePublish(a)
        PROVE  /\ step' \in [Admins -> Steps]
               /\ req' \in [Admins -> Request \cup {None}]
               /\ RequestInv'
    <2> DEFINE c == req[a].challenge
               v == Shown(c, req[a].current)
               r == [req[a] EXCEPT !.version = v]
    <2>1. /\ step[a] = "read" /\ req[a].op \in {"update", "publish"}
          /\ Begin(a, r, "approved")
      BY <1>3 DEF ApproveUpdate, ApprovePublish
    <2>2. RequestOK(a) /\ req[a] \in Request /\ c \in Challenges
      BY <1>a, <2>1, RequestFields
    <2>3. Stored(c, v)
      <3>1. row[c] # None /\ (req[a].current # None => Stored(c, req[a].current))
        BY <2>1, <2>2 DEF RequestOK
      <3> HIDE DEF c
      <3> QED
        BY <1>a, <2>2, <3>1, ShownStored
    <2> HIDE DEF v
    <2>4. /\ r \in Request /\ r.op = req[a].op /\ r.challenge = c /\ r.version = v
          /\ r.current = req[a].current
      <3>1. v \in Versions /\ r = [req[a] EXCEPT !.version = v]
        BY <2>3 DEF Stored
      <3> HIDE DEF r
      <3> QED
        BY <2>2, <3>1 DEF Request
    <2> HIDE DEF r
    <2>5. step' = [step EXCEPT ![a] = "approved"] /\ req' = [req EXCEPT ![a] = r]
      BY <2>1 DEF Begin, Goto
    <2>6. step'[a] = "approved" /\ req'[a] = r
      BY <1>b, <2>5
    <2>7. row' = row /\ version' = version
      BY <2>1 DEF Begin, tables
    <2>8. RequestOK(a)'
      BY <2>1, <2>2, <2>3, <2>4, <2>6, <2>7 DEF RequestOK, Stored
    <2> QED
      BY <1>g, <2>4, <2>5, <2>8, Advanced DEF Steps
  <1>4. ASSUME NEW a \in Admins, ApproveVersion(a)
        PROVE  /\ step' \in [Admins -> Steps]
               /\ req' \in [Admins -> Request \cup {None}]
               /\ RequestInv'
    <2> DEFINE c == req[a].challenge
               v == NextNumber(Existing(c))
               content == version[c][Shown(c, req[a].current)].content
               r == [req[a] EXCEPT !.version = v, !.content = content]
    <2>1. /\ step[a] = "read" /\ req[a].op = "version" /\ v \in Numbers
          /\ Begin(a, r, "approved")
      BY <1>4 DEF ApproveVersion
    <2>2. RequestOK(a) /\ req[a] \in Request /\ c \in Challenges
      BY <1>a, <2>1, RequestFields
    <2>3. content \in Contents
      <3>1. row[c] # None /\ (req[a].current # None => Stored(c, req[a].current))
        BY <2>1, <2>2 DEF RequestOK
      <3>2. Stored(c, Shown(c, req[a].current))
        <4> HIDE DEF c
        <4> QED
          BY <1>a, <2>2, <3>1, ShownStored
      <3> HIDE DEF c
      <3> QED
        BY <1>a, <2>2, <3>2, VersionFields DEF Stored
    <2>4. v \in Versions
      BY <2>1 DEF Versions
    <2> HIDE DEF v, content
    <2>5. /\ r \in Request /\ r.op = req[a].op /\ r.challenge = c /\ r.version = v
          /\ r.current = req[a].current
      <3>1. r = [req[a] EXCEPT !.version = v, !.content = content]
        OBVIOUS
      <3> HIDE DEF r
      <3> QED
        BY <2>2, <2>3, <2>4, <3>1 DEF Request
    <2> HIDE DEF r
    <2>6. step' = [step EXCEPT ![a] = "approved"] /\ req' = [req EXCEPT ![a] = r]
      BY <2>1 DEF Begin, Goto
    <2>7. step'[a] = "approved" /\ req'[a] = r
      BY <1>b, <2>6
    <2>8. row' = row /\ version' = version
      BY <2>1 DEF Begin, tables
    <2>9. RequestOK(a)'
      BY <2>1, <2>2, <2>5, <2>7, <2>8 DEF RequestOK, Stored
    <2> QED
      BY <1>g, <2>5, <2>6, <2>9, Advanced DEF Steps
  <1>5. ASSUME NEW a \in Admins, CheckOrder(a)
        PROVE  /\ step' \in [Admins -> Steps]
               /\ req' \in [Admins -> Request \cup {None}]
               /\ RequestInv'
    <2>1. /\ step[a] = "approved" /\ req[a].op \in {"create", "update"}
          /\ step' = [step EXCEPT ![a] = "ordered"]
          /\ row' = row /\ version' = version /\ req' = req
      BY <1>5 DEF CheckOrder, Goto, tables
    <2>2. RequestOK(a)
      BY <1>a, <2>1 DEF RequestInv
    <2>3. step'[a] = "ordered"
      BY <1>b, <2>1
    <2>4. RequestOK(a)'
      BY <2>1, <2>2, <2>3 DEF RequestOK, Stored
    <2>5. req' = [req EXCEPT ![a] = req[a]] /\ req[a] \in Request
      BY <1>b, <2>1, <2>2 DEF RequestOK
    <2> QED
      BY <1>g, <2>1, <2>4, <2>5, Advanced DEF Steps
  <1>6. ASSUME NEW a \in Admins, Create(a), req[a].publish
        PROVE  /\ step' \in [Admins -> Steps]
               /\ req' \in [Admins -> Request \cup {None}]
               /\ RequestInv'
    <2> DEFINE c == req[a].challenge  v == req[a].version
    <2>1. /\ step[a] = "ordered" /\ req[a].op = "create"
          /\ step' = [step EXCEPT ![a] = "created"] /\ req' = req
      BY <1>6 DEF Create, Goto
    <2>2. /\ c \in Challenges /\ v \in Versions
          /\ OnlyVersion(c, v, Drafted(req[a].content))
      BY <1>6, <1>a, CreateEffect
    <2>3. RequestOK(a) /\ req[a] \in Request /\ req[a].content \in Contents
      BY <1>a, <2>1, RequestFields
    <2>4. Stored(c, v)'
      <3>1. version'[c][v] = Drafted(req[a].content)
        BY <2>2 DEF OnlyVersion
      <3> QED
        BY <2>1, <2>2, <2>3, <3>1, DraftedVersion DEF Stored
    <2>5. req[a].current # None => Stored(c, req[a].current)'
      BY <1>g, <2>1, <2>2, <2>3 DEF RequestOK, Stored, Grown
    <2>6. step'[a] = "created"
      BY <1>b, <2>1
    <2>7. RequestOK(a)'
      BY <2>1, <2>2, <2>3, <2>4, <2>5, <2>6 DEF RequestOK, Stored
    <2>8. req' = [req EXCEPT ![a] = req[a]]
      BY <1>b, <2>1
    <2> QED
      BY <1>g, <2>1, <2>3, <2>7, <2>8, Advanced DEF Steps
  <1>7. ASSUME NEW a \in Admins, Done(a)
        PROVE  /\ step' \in [Admins -> Steps]
               /\ req' \in [Admins -> Request \cup {None}]
               /\ RequestInv'
    <2>1. step' = [step EXCEPT ![a] = "idle"] /\ req' = [req EXCEPT ![a] = None]
      BY <1>7 DEF Done, Goto
    <2> QED
      BY <1>g, <2>1, Advanced DEF Steps
  <1>8. ASSUME NEW a \in Admins, Author(a)
        PROVE  \/ AskCreate(a) \/ Ask(a) \/ ApproveUpdate(a) \/ ApprovePublish(a)
               \/ ApproveVersion(a) \/ CheckOrder(a)
               \/ (Create(a) /\ req[a].publish)
               \/ Done(a)
    <2>1. Create(a) => req[a].publish \/ Done(a)
      BY DEF Create
    <2> QED
      BY <1>8, <2>1 DEF Author, UpdateDraft, InsertVersion, Publish, Unpublish, Activate,
                        Deactivate, Drop
  <1>9. CASE Seed \/ UNCHANGED vars \/ \E p \in Players : Read(p)
    BY <1>0, <1>9 DEF Seed, vars, Read, ReadPointer, ReadVersion, ReadHidden, EndPlay
  <1> QED
    BY <1>1, <1>2, <1>3, <1>4, <1>5, <1>6, <1>7, <1>8, <1>9 DEF Next

\* What a player has read stays right while others write.
LEMMA StillRead ==
  ASSUME Grown, NEW p \in Players, PlayOK(p), play'[p] = play[p]
  PROVE  PlayOK(p)'
  BY DEF PlayOK, Stored, Grown, Overwritten, Rewritten

LEMMA PlayStep ==
  ASSUME IInv, [Next]_vars
  PROVE  play' \in [Players -> Playing] /\ PlayInv'
  <1>g. Grown
    BY Grow
  <1>a. TypeOK /\ PlayInv /\ SeededInv
    BY DEF IInv
  <1>b. play \in [Players -> Playing]
    BY <1>a DEF TypeOK
  <1>c. Idle \in Playing /\ Idle.stage = "idle"
    BY DEF Idle, Playing
  <1>0. CASE UNCHANGED play
    BY <1>0, <1>a, <1>b, <1>g, StillRead DEF PlayInv
  <1>1. ASSUME NEW p \in Players, NEW q \in Playing, play' = [play EXCEPT ![p] = q], PlayOK(p)'
        PROVE  play' \in [Players -> Playing] /\ PlayInv'
    <2>1. \A o \in Players \ {p} : PlayOK(o)'
      BY <1>1, <1>a, <1>b, <1>g, StillRead DEF PlayInv
    <2> QED
      BY <1>1, <1>b, <2>1 DEF PlayInv
  <1>2. ASSUME NEW p \in Players, ReadPointer(p)
        PROVE  play' \in [Players -> Playing] /\ PlayInv'
    <2>1. PICK c \in Challenges :
            /\ row[c] # None /\ row[c].current # None
            /\ play' = [play EXCEPT ![p] = [Idle EXCEPT !.stage = "pointer", !.challenge = c,
                                                        !.version = row[c].current]]
      BY <1>2 DEF ReadPointer
    <2> DEFINE q == [Idle EXCEPT !.stage = "pointer", !.challenge = c,
                                 !.version = row[c].current]
    <2>2. row[c].current \in In(c, "published") /\ row[c].current \in Versions
      BY <2>1 DEF IInv, PointerInv, In
    <2>3. q \in Playing /\ q.stage = "pointer" /\ q.challenge = c /\ q.version = row[c].current
      BY <2>2 DEF Idle, Playing
    <2> HIDE DEF q
    <2>4. version' = version /\ play'[p] = q
      BY <1>2, <1>b, <2>1 DEF ReadPointer, tables, q
    <2>5. PlayOK(p)'
      BY <2>2, <2>3, <2>4 DEF PlayOK, Stored, In
    <2> QED
      BY <1>1, <2>1, <2>3, <2>5 DEF q
  <1>3. ASSUME NEW p \in Players, ReadVersion(p)
        PROVE  play' \in [Players -> Playing] /\ PlayInv'
    <2> DEFINE v == version[play[p].challenge][play[p].version]
               q == [play[p] EXCEPT !.stage = "playing", !.read = v.content]
    <2>1. /\ play[p].stage = "pointer"
          /\ play' = [play EXCEPT ![p] = q]
          /\ version' = version
      BY <1>3 DEF ReadVersion, tables
    <2>2. /\ play[p].challenge \in Challenges
          /\ Stored(play[p].challenge, play[p].version)
          /\ v.state # "draft"
      BY <1>a, <2>1 DEF PlayInv, PlayOK
    <2>3. v.content \in Contents
      BY <1>a, <2>2, VersionFields DEF Stored
    <2>4. play[p] \in Playing
      BY <1>b
    <2>5. /\ q \in Playing /\ q.stage = "playing" /\ q.challenge = play[p].challenge
          /\ q.version = play[p].version /\ q.read = v.content
      <3> HIDE DEF v
      <3> QED
        BY <2>3, <2>4 DEF Playing
    <2> HIDE DEF q
    <2>6. play'[p] = q
      BY <1>b, <2>1
    <2>7. PlayOK(p)'
      BY <2>1, <2>2, <2>5, <2>6 DEF PlayOK, Stored
    <2> QED
      BY <1>1, <2>1, <2>5, <2>7
  <1>4. ASSUME NEW p \in Players, ReadHidden(p)
        PROVE  play' \in [Players -> Playing] /\ PlayInv'
    <2> DEFINE v == version[play[p].challenge][play[p].version]
               q == [play[p] EXCEPT !.stage = "judged", !.hidden = v.content]
    <2>1. /\ play[p].stage = "playing"
          /\ play' = [play EXCEPT ![p] = q]
          /\ version' = version
      BY <1>4 DEF ReadHidden, tables
    <2>2. /\ play[p].challenge \in Challenges
          /\ Stored(play[p].challenge, play[p].version)
          /\ v.state # "draft"
          /\ play[p].read = v.content \/ Rewritten(play[p])
      BY <1>a, <2>1 DEF PlayInv, PlayOK
    <2>8. Rewritten(play[p]) => v.content = SeedContent[play[p].challenge]
      BY <1>a DEF Rewritten, SeededInv
    <2>3. v.content \in Contents
      BY <1>a, <2>2, VersionFields DEF Stored
    <2>4. play[p] \in Playing
      BY <1>b
    <2>5. /\ q \in Playing /\ q.stage = "judged" /\ q.challenge = play[p].challenge
          /\ q.version = play[p].version /\ q.read = play[p].read /\ q.hidden = v.content
      <3> HIDE DEF v
      <3> QED
        BY <2>3, <2>4 DEF Playing
    <2> HIDE DEF q
    <2>6. play'[p] = q
      BY <1>b, <2>1
    <2>7. PlayOK(p)'
      BY <1>g, <2>1, <2>2, <2>5, <2>6, <2>8 DEF PlayOK, Stored, Rewritten, Grown
    <2> QED
      BY <1>1, <2>1, <2>5, <2>7
  <1>5. ASSUME NEW p \in Players, EndPlay(p)
        PROVE  play' \in [Players -> Playing] /\ PlayInv'
    <2>1. play' = [play EXCEPT ![p] = Idle]
      BY <1>5 DEF EndPlay
    <2>2. PlayOK(p)'
      BY <1>b, <1>c, <2>1 DEF PlayOK
    <2> QED
      BY <1>1, <1>c, <2>1, <2>2
  <1>6. ASSUME NEW a \in Admins, Author(a)
        PROVE  UNCHANGED play
    BY <1>6 DEF Author, AskCreate, Ask, ApproveUpdate, ApproveVersion, ApprovePublish, Begin,
                CheckOrder, Create, UpdateDraft, InsertVersion, Publish, Unpublish, Activate,
                Deactivate, Drop, Done
  <1> QED
    BY <1>0, <1>2, <1>3, <1>4, <1>5, <1>6 DEF Next, Seed, vars, Read

-----------------------------------------------------------------------------
(* Drafts *)

\* The drafts of c may change only by the request that writes them.
LEMMA OneDraftStep ==
  ASSUME IInv, [Next]_vars
  PROVE  OneDraft'
  <1>a. TypeOK /\ RequestInv /\ NumberedInv
    BY DEF IInv
  <1>b. \A c \in Challenges : \A v, w \in Versions :
          (version[c][v] # None /\ version[c][v].state = "draft"
           /\ version[c][w] # None /\ version[c][w].state = "draft") => v = w
    BY DEF IInv, OneDraft, In
  <1> SUFFICES \A c \in Challenges : \A v, w \in Versions :
                 (version'[c][v] # None /\ version'[c][v].state = "draft"
                  /\ version'[c][w] # None /\ version'[c][w].state = "draft") => v = w
    BY DEF OneDraft, In
  <1>0. CASE UNCHANGED tables
    BY <1>0, <1>b DEF tables
  <1> DEFINE Single == \A c \in Challenges : \A v, w \in Versions :
                 (version'[c][v] # None /\ version'[c][v].state = "draft"
                  /\ version'[c][w] # None /\ version'[c][w].state = "draft") => v = w
  <1>1. ASSUME NEW a \in Admins, Create(a)
        PROVE  Single
    <2> DEFINE c == req[a].challenge  v == req[a].version
    <2>1. c \in Challenges /\ row[c] = None /\ OnlyVersion(c, v, Drafted(req[a].content))
      BY <1>1, <1>a, CreateEffect
    <2>2. \A w \in Versions : version[c][w] = None
      BY <1>a, <2>1 DEF TypeOK, Existing
    <2> HIDE DEF c, v
    <2> QED
      BY <1>b, <2>1, <2>2 DEF OnlyVersion
  <1>2. ASSUME NEW a \in Admins, InsertVersion(a)
        PROVE  Single
    <2> DEFINE c == req[a].challenge  v == req[a].version
    <2>1. /\ c \in Challenges /\ In(c, "draft") = {}
          /\ OnlyVersion(c, v, Drafted(req[a].content))
      BY <1>2, <1>a, InsertEffect
    <2>2. \A w \in Versions : version[c][w] # None => version[c][w].state # "draft"
      BY <2>1 DEF In
    <2> HIDE DEF c, v
    <2> QED
      BY <1>b, <2>1, <2>2 DEF OnlyVersion
  <1>3. ASSUME NEW a \in Admins, UpdateDraft(a)
        PROVE  Single
    <2> DEFINE c == req[a].challenge  v == req[a].version
    <2>1. /\ c \in Challenges /\ v \in Versions
          /\ version[c][v] # None /\ version[c][v].state = "draft"
          /\ OnlyVersion(c, v, Drafted(req[a].content))
      BY <1>3, <1>a, UpdateEffect
    <2> HIDE DEF c, v
    <2> QED
      BY <1>b, <2>1 DEF OnlyVersion
  <1>4. ASSUME NEW a \in Admins, Publish(a)
        PROVE  Single
    <2> DEFINE c == req[a].challenge  v == req[a].version
    <2>1. /\ c \in Challenges /\ v \in Versions
          /\ version[c][v] # None
          /\ \A d \in Challenges, w \in Versions :
               version'[d][w] = IF d # c THEN version[d][w]
                                ELSE IF w = v THEN Restated(c, v, "published")
                                ELSE IF w \in In(c, "published") THEN Restated(c, w, "retired")
                                ELSE version[d][w]
      BY <1>4, <1>a, PublishEffect
    <2> HIDE DEF c, v
    <2>2. \A w \in Versions : \A s : Restated(c, w, s).state = s
      BY DEF Restated
    <2> QED
      BY <1>b, <2>1, <2>2
  <1>5. ASSUME NEW a \in Admins, Unpublish(a)
        PROVE  Single
    <2> DEFINE c == req[a].challenge
               vs == {row[c].current} \cap In(c, "published")
    <2>1. /\ c \in Challenges
          /\ \A d \in Challenges, w \in Versions :
               version'[d][w] = IF d = c /\ w \in vs THEN Restated(c, w, "retired")
                                ELSE version[d][w]
      BY <1>5, <1>a, UnpublishEffect
    <2> HIDE DEF c, vs
    <2>2. \A w \in Versions : \A s : Restated(c, w, s).state = s
      BY DEF Restated
    <2> QED
      BY <1>b, <2>1, <2>2
  <1>6. CASE Seed
    <2>1. \A c \in Challenges, w \in Versions :
            version'[c][w] = IF c \in Seeded /\ w = 1 THEN SeedVersion(c) ELSE version[c][w]
      BY <1>6, <1>a, SeedEffect
    <2>2. \A c \in Seeded : SeedVersion(c).state = "published"
      BY DEF SeedVersion
    <2> QED
      BY <1>b, <2>1, <2>2
  <1> QED
    BY <1>0, <1>1, <1>2, <1>3, <1>4, <1>5, <1>6, WritersOnly DEF TablesMoved

\* If c has no draft, the next number stays the next until somebody takes it.
LEMMA NextStays ==
  ASSUME IInv, [Next]_vars, NEW c \in Challenges, row[c] # None, In(c, "draft") = {},
         version'[c][NextNumber(Existing(c))] = None
  PROVE  NextNumber(Existing(c)') = NextNumber(Existing(c)) /\ In(c, "draft")' = {}
  <1>a. TypeOK /\ RequestInv /\ NumberedInv /\ SeededInv
    BY DEF IInv
  <1>b. \A v \in Versions : version[c][v] # None => version[c][v].state # "draft"
    BY DEF In
  <1> DEFINE Steady == \A v \in Versions :
               /\ version'[c][v] # None <=> version[c][v] # None
               /\ version'[c][v] # None => version'[c][v].state # "draft"
  <1>s. CASE Steady
    <2>1. Existing(c)' = Existing(c) /\ In(c, "draft")' = {}
      BY <1>s DEF Existing, In
    <2> QED
      BY <2>1
  <1>g. Grown
    BY Grow
  <1>0. ASSUME \A v \in Versions : version'[c][v] = version[c][v]
        PROVE  Steady
    BY <1>0, <1>b
  <1>1. ASSUME NEW a \in Admins, Create(a)
        PROVE  Steady
    <2>1. \A v \in Versions : version'[c][v] = version[c][v]
      BY <1>1, <1>a, CreateEffect DEF OnlyVersion
    <2> QED
      BY <1>0, <2>1
  <1>2. ASSUME NEW a \in Admins, InsertVersion(a)
        PROVE  Steady
    <2>1. CASE req[a].challenge = c
      <3>1. /\ req[a].version \in Versions /\ req[a].version = NextNumber(Existing(c))
            /\ OnlyVersion(c, req[a].version, Drafted(req[a].content))
        BY <1>2, <1>a, <2>1, InsertEffect
      <3>2. req[a].content \in Contents
        BY <1>2, <1>a, RequestFields DEF InsertVersion
      <3> QED
        BY <3>1, <3>2, DraftedVersion DEF OnlyVersion
    <2>2. CASE req[a].challenge # c
      <3>1. \A v \in Versions : version'[c][v] = version[c][v]
        BY <1>2, <1>a, <2>2, InsertEffect DEF OnlyVersion
      <3> QED
        BY <1>0, <3>1
    <2> QED
      BY <2>1, <2>2
  <1>3. ASSUME NEW a \in Admins, UpdateDraft(a)
        PROVE  Steady
    <2>1. req[a].challenge # c
      BY <1>3, <1>a, <1>b, UpdateEffect
    <2>2. \A v \in Versions : version'[c][v] = version[c][v]
      BY <1>3, <1>a, <2>1, UpdateEffect DEF OnlyVersion
    <2> QED
      BY <1>0, <2>2
  <1>4. ASSUME NEW a \in Admins, Publish(a)
        PROVE  Steady
    <2> DEFINE d == req[a].challenge  v == req[a].version
    <2>1. /\ v \in Versions /\ version[d][v] # None /\ version[d][v].state = "draft"
          /\ \A e \in Challenges, w \in Versions :
               version'[e][w] = IF e # d THEN version[e][w]
                                ELSE IF w = v THEN Restated(d, v, "published")
                                ELSE IF w \in In(d, "published") THEN Restated(d, w, "retired")
                                ELSE version[e][w]
      BY <1>4, <1>a, PublishEffect
    <2> HIDE DEF d, v
    <2>2. \A w \in Versions : version'[c][w] = version[c][w]
      BY <1>b, <2>1
    <2> QED
      BY <1>0, <2>2
  <1>5. ASSUME NEW a \in Admins, Unpublish(a)
        PROVE  Steady
    <2> DEFINE d == req[a].challenge
               vs == {row[d].current} \cap In(d, "published")
    <2>1. \A w \in Versions :
            version'[c][w] = IF c = d /\ w \in vs THEN Restated(d, w, "retired")
                             ELSE version[c][w]
      BY <1>5, <1>a, UnpublishEffect
    <2>2. \A w \in vs : w \in Versions /\ version[d][w] # None
      BY DEF In
    <2> HIDE DEF d, vs
    <2>3. \A w : Restated(d, w, "retired").state = "retired"
      BY DEF Restated
    <2> QED
      BY <1>b, <1>g, <2>1, <2>2, <2>3 DEF Grown
  <1>6. CASE Seed /\ c \notin Seeded
    <2>1. \A v \in Versions : version'[c][v] = version[c][v]
      BY <1>6, <1>a, SeedEffect
    <2> QED
      BY <1>0, <1>s, <2>1
  <1>7. CASE Seed /\ c \in Seeded
    <2>1. \A w \in Versions : version'[c][w] = IF w = 1 THEN SeedVersion(c) ELSE version[c][w]
      BY <1>7, <1>a, SeedEffect
    <2>2. 1 \in Versions /\ SeedVersion(c) # None /\ SeedVersion(c).state = "published"
      BY <1>7, <1>a, SeedEffect, NoneAssumption DEF SeedVersion
    <2>3. Existing(c)' = Existing(c) \cup {1} /\ In(c, "draft")' = {}
      BY <1>b, <2>1, <2>2 DEF Existing, In
    <2>4. NextNumber(Existing(c)) # 1
      BY <2>1, <2>2
    <2> QED
      BY <2>3, <2>4, NextWithFirst
  <1> QED
    BY <1>0, <1>s, <1>1, <1>2, <1>3, <1>4, <1>5, <1>6, <1>7, WritersOnly DEF TablesMoved, tables

LEMMA NumberedStep ==
  ASSUME IInv, [Next]_vars
  PROVE  NumberedInv'
  <1>a. TypeOK /\ RequestInv /\ NumberedInv
    BY DEF IInv
  <1>b. step \in [Admins -> Steps] /\ req \in [Admins -> Request \cup {None}]
    BY <1>a DEF TypeOK
  <1>g. Grown
    BY Grow
  <1>1. ASSUME NEW b \in Admins, step'[b] = step[b], req'[b] = req[b],
               step[b] = "approved", req[b].op = "version"
        PROVE  Numbered(b)'
    <2> DEFINE c == req[b].challenge  n == req[b].version
    <2>1. Numbered(b) /\ c \in Challenges /\ row[c] # None
      BY <1>1, <1>a, RequestFields DEF NumberedInv, RequestOK
    <2>2. n \in Numbers /\ n \in Versions
      BY <2>1 DEF Numbered, Versions
    <2>3. ASSUME version'[c][n] = None
          PROVE  n = NextNumber(Existing(c)') /\ In(c, "draft")' = {}
      <3>1. version[c][n] = None
        BY <1>g, <2>1, <2>2, <2>3 DEF Grown
      <3>2. n = NextNumber(Existing(c)) /\ In(c, "draft") = {}
        BY <2>1, <3>1 DEF Numbered
      <3>3. c' = c
        BY <1>1
      <3> HIDE DEF c, n
      <3> QED
        BY <2>1, <2>3, <3>2, <3>3, NextStays
    <2> QED
      BY <1>1, <2>2, <2>3 DEF Numbered, NextNumber, Existing, In
  <1>2. ASSUME NEW a \in Admins, ApproveVersion(a)
        PROVE  Numbered(a)'
    <2> DEFINE c == req[a].challenge
               v == NextNumber(Existing(c))
               content == version[c][Shown(c, req[a].current)].content
               r == [req[a] EXCEPT !.version = v, !.content = content]
    <2>1. /\ step[a] = "read" /\ v \in Numbers /\ In(c, "draft") = {}
          /\ req' = [req EXCEPT ![a] = r] /\ version' = version
      BY <1>2 DEF ApproveVersion, Begin, tables
    <2>2. req[a] \in Request
      BY <1>a, <2>1, RequestFields
    <2>3. r.challenge = c /\ r.version = v
      <3> HIDE DEF v, content
      <3> QED
        BY <2>2 DEF Request
    <2> HIDE DEF r
    <2>4. req'[a].challenge = c /\ req'[a].version = v
      BY <1>b, <2>1, <2>3
    <2>5. Existing(c)' = Existing(c) /\ In(c, "draft")' = In(c, "draft")
      BY <2>1, <2>4 DEF Existing, In
    <2> QED
      BY <2>1, <2>4, <2>5 DEF Numbered, Existing, In
  <1>3. ASSUME NEW a \in Admins, Author(a), ~ApproveVersion(a),
               step'[a] = "approved", req'[a].op = "version"
        PROVE  FALSE
    <2>1. ~AskCreate(a)
      BY <1>b, <1>3 DEF AskCreate, Begin, Sent
    <2>2. ~Ask(a)
      <3> SUFFICES ASSUME Ask(a)
                   PROVE  FALSE
        OBVIOUS
      <3>1. PICK op \in Ops, c \in Challenges, slot \in Slots, content \in Contents :
              Begin(a, Sent(op, c, slot, content, None, row[c].current, FALSE),
                    IF op = "unpublish" THEN "approved" ELSE "read")
        BY DEF Ask
      <3>2. req'[a].op = op /\ step'[a] = IF op = "unpublish" THEN "approved" ELSE "read"
        BY <1>b, <3>1 DEF Begin, Sent, Goto
      <3> QED
        BY <1>3, <3>2
    <2>3. ~ApproveUpdate(a) /\ ~ApprovePublish(a)
      <3> SUFFICES ASSUME ApproveUpdate(a) \/ ApprovePublish(a)
                   PROVE  FALSE
        OBVIOUS
      <3> DEFINE v == Shown(req[a].challenge, req[a].current)
      <3>1. /\ step[a] = "read" /\ req[a].op \in {"update", "publish"}
            /\ req' = [req EXCEPT ![a] = [req[a] EXCEPT !.version = v]]
        BY DEF ApproveUpdate, ApprovePublish, Begin
      <3>2. req[a] \in Request
        BY <1>a, <3>1, RequestFields
      <3> HIDE DEF v
      <3>3. req'[a].op = req[a].op
        BY <1>b, <3>1, <3>2 DEF Request
      <3> QED
        BY <1>3, <3>1, <3>3
    <2>4. ~CheckOrder(a)
      BY <1>b, <1>3 DEF CheckOrder, Goto
    <2>5. ~Done(a)
      BY <1>b, <1>3 DEF Done, Goto
    <2>6. ~Create(a)
      BY <1>b, <1>3, <2>5 DEF Create, Goto
    <2> QED
      BY <1>3, <2>1, <2>2, <2>3, <2>4, <2>5, <2>6
      DEF Author, UpdateDraft, InsertVersion, Publish, Unpublish, Activate, Deactivate, Drop
  <1>4. ASSUME NEW a \in Admins, Author(a)
        PROVE  \A b \in Admins \ {a} : step'[b] = step[b] /\ req'[b] = req[b]
    <2>1. \/ UNCHANGED req
          \/ \E r : req' = [req EXCEPT ![a] = r]
      BY <1>4 DEF Author, AskCreate, Ask, ApproveUpdate, ApproveVersion, ApprovePublish, Begin,
                  CheckOrder, Create, UpdateDraft, InsertVersion, Publish, Unpublish, Activate,
                  Deactivate, Drop, Done
    <2>2. \E s : step' = [step EXCEPT ![a] = s]
      BY <1>4 DEF Author, AskCreate, Ask, ApproveUpdate, ApproveVersion, ApprovePublish, Begin,
                  CheckOrder, Create, UpdateDraft, InsertVersion, Publish, Unpublish, Activate,
                  Deactivate, Drop, Done, Goto
    <2> QED
      BY <1>b, <2>1, <2>2
  <1>5. CASE UNCHANGED <<step, req>>
    BY <1>1, <1>5 DEF NumberedInv
  <1>6. ASSUME NEW a \in Admins, Author(a)
        PROVE  NumberedInv'
    <2>1. \A b \in Admins \ {a} :
            step'[b] = "approved" /\ req'[b].op = "version" => Numbered(b)'
      BY <1>1, <1>4, <1>6
    <2>2. step'[a] = "approved" /\ req'[a].op = "version" => Numbered(a)'
      BY <1>2, <1>3, <1>6
    <2> QED
      BY <2>1, <2>2 DEF NumberedInv
  <1>7. CASE Seed \/ UNCHANGED vars \/ \E p \in Players : Read(p)
    BY <1>5, <1>7 DEF Seed, vars, Read, ReadPointer, ReadVersion, ReadHidden, EndPlay
  <1> QED
    BY <1>6, <1>7 DEF Next

-----------------------------------------------------------------------------
(* Published versions *)

LEMMA PointerStep ==
  ASSUME IInv, [Next]_vars
  PROVE  PointerInv'
  <1>a. TypeOK /\ RequestInv /\ NumberedInv
    BY DEF IInv
  <1>b. \A c \in Challenges :
          row[c] # None /\ row[c].current # None =>
            /\ row[c].current \in Versions
            /\ version[c][row[c].current] # None
            /\ version[c][row[c].current].state = "published"
    BY DEF IInv, PointerInv, In
  <1> DEFINE Points == \A c \in Challenges :
          row'[c] # None /\ row'[c].current # None =>
            /\ row'[c].current \in Versions
            /\ version'[c][row'[c].current] # None
            /\ version'[c][row'[c].current].state = "published"
  <1> SUFFICES Points
    BY DEF PointerInv, In
  <1>0. CASE UNCHANGED tables
    BY <1>0, <1>b DEF tables
  <1>1. ASSUME NEW a \in Admins, Create(a)
        PROVE  Points
    <2> DEFINE c == req[a].challenge  v == req[a].version
               new == [id |-> Id(req[a].slot), slot |-> req[a].slot, current |-> None]
    <2>1. /\ c \in Challenges /\ OnlyRow(c, new) /\ OnlyVersion(c, v, Drafted(req[a].content))
          /\ new.current = None
      BY <1>1, <1>a, CreateEffect
    <2> HIDE DEF c, v, new
    <2> QED
      BY <1>b, <2>1 DEF OnlyRow, OnlyVersion
  <1>2. ASSUME NEW a \in Admins, InsertVersion(a)
        PROVE  Points
    <2> DEFINE c == req[a].challenge  v == req[a].version
    <2>1. /\ c \in Challenges /\ row' = row /\ version[c][v] = None
          /\ OnlyVersion(c, v, Drafted(req[a].content))
      BY <1>2, <1>a, InsertEffect
    <2> HIDE DEF c, v
    <2> QED
      BY <1>b, <2>1 DEF OnlyVersion
  <1>3. ASSUME NEW a \in Admins, UpdateDraft(a)
        PROVE  Points
    <2> DEFINE c == req[a].challenge  v == req[a].version
               new == [id |-> row[c].id, slot |-> req[a].slot, current |-> row[c].current]
    <2>1. /\ c \in Challenges /\ row[c] # None
          /\ version[c][v].state = "draft"
          /\ OnlyRow(c, new) /\ new.current = row[c].current
          /\ OnlyVersion(c, v, Drafted(req[a].content))
      BY <1>3, <1>a, UpdateEffect
    <2> HIDE DEF c, v, new
    <2> QED
      BY <1>b, <2>1 DEF OnlyRow, OnlyVersion
  <1>4. ASSUME NEW a \in Admins, Publish(a)
        PROVE  Points
    <2> DEFINE c == req[a].challenge  v == req[a].version
    <2>1. /\ c \in Challenges /\ v \in Versions /\ row[c] # None
          /\ version[c][v] # None
          /\ OnlyRow(c, Repointed(c, v))
          /\ \A d \in Challenges, w \in Versions :
               version'[d][w] = IF d # c THEN version[d][w]
                                ELSE IF w = v THEN Restated(c, v, "published")
                                ELSE IF w \in In(c, "published") THEN Restated(c, w, "retired")
                                ELSE version[d][w]
      BY <1>4, <1>a, PublishEffect
    <2> HIDE DEF c, v
    <2>2. Repointed(c, v).current = v
      BY DEF Repointed
    <2>3. Restated(c, v, "published") # None /\ Restated(c, v, "published").state = "published"
      BY <1>a, <2>1, RestatedVersion DEF States
    <2> QED
      BY <1>b, <2>1, <2>2, <2>3 DEF OnlyRow
  <1>5. ASSUME NEW a \in Admins, Unpublish(a)
        PROVE  Points
    <2> DEFINE c == req[a].challenge
               vs == {row[c].current} \cap In(c, "published")
    <2>1. /\ c \in Challenges
          /\ OnlyRow(c, Repointed(c, None))
          /\ \A d \in Challenges, w \in Versions :
               version'[d][w] = IF d = c /\ w \in vs THEN Restated(c, w, "retired")
                                ELSE version[d][w]
      BY <1>5, <1>a, UnpublishEffect
    <2> HIDE DEF c, vs
    <2>2. Repointed(c, None).current = None
      BY DEF Repointed
    <2> QED
      BY <1>b, <2>1, <2>2 DEF OnlyRow
  <1>6. CASE Seed
    <2>1. /\ 1 \in Versions
          /\ \A c \in Challenges : row'[c] = IF c \in Seeded THEN SeedRow(c) ELSE row[c]
          /\ \A c \in Challenges, w \in Versions :
               version'[c][w] = IF c \in Seeded /\ w = 1 THEN SeedVersion(c) ELSE version[c][w]
          /\ \A c \in Seeded : SeedVersion(c) \in Version
      BY <1>6, <1>a, SeedEffect
    <2>2. \A c \in Seeded : SeedRow(c).current = 1 /\ SeedVersion(c).state = "published"
      BY DEF SeedRow, SeedVersion
    <2> QED
      BY <1>b, <2>1, <2>2, NoneAssumption
  <1> QED
    BY <1>0, <1>1, <1>2, <1>3, <1>4, <1>5, <1>6, WritersOnly DEF TablesMoved

LEMMA CompleteStep ==
  ASSUME IInv, [Next]_vars
  PROVE  PublishedComplete'
  <1>a. TypeOK /\ RequestInv /\ NumberedInv
    BY DEF IInv
  <1>b. \A c \in Challenges, v \in Versions :
          version[c][v] # None /\ version[c][v].state # "draft" =>
            version[c][v].content \in Complete
    BY DEF IInv, PublishedComplete
  <1> DEFINE Judgeable == \A c \in Challenges, v \in Versions :
          version'[c][v] # None /\ version'[c][v].state # "draft" =>
            version'[c][v].content \in Complete
  <1> SUFFICES Judgeable
    BY DEF PublishedComplete
  <1>c. \A content : Drafted(content).state = "draft"
    BY DEF Drafted
  <1>d. \A c, v, s : Restated(c, v, s).content = version[c][v].content
    BY DEF Restated
  <1>0. CASE UNCHANGED tables
    BY <1>0, <1>b DEF tables
  <1>1. ASSUME NEW a \in Admins, NEW c, NEW v, NEW content, OnlyVersion(c, v, Drafted(content))
        PROVE  Judgeable
    BY <1>b, <1>c, <1>1 DEF OnlyVersion
  <1>2. ASSUME NEW a \in Admins, Create(a) \/ InsertVersion(a) \/ UpdateDraft(a)
        PROVE  Judgeable
    <2>1. OnlyVersion(req[a].challenge, req[a].version, Drafted(req[a].content))
      BY <1>2, <1>a, CreateEffect, InsertEffect, UpdateEffect
    <2> QED
      BY <1>1, <2>1
  <1>4. ASSUME NEW a \in Admins, Publish(a)
        PROVE  Judgeable
    <2> DEFINE c == req[a].challenge  v == req[a].version
    <2>1. /\ c \in Challenges /\ v \in Versions
          /\ version[c][v].content \in Complete
          /\ \A d \in Challenges, w \in Versions :
               version'[d][w] = IF d # c THEN version[d][w]
                                ELSE IF w = v THEN Restated(c, v, "published")
                                ELSE IF w \in In(c, "published") THEN Restated(c, w, "retired")
                                ELSE version[d][w]
      BY <1>4, <1>a, PublishEffect
    <2> HIDE DEF c, v
    <2>2. \A w \in In(c, "published") : version[c][w].content \in Complete
      BY <1>b, <2>1 DEF In
    <2> QED
      BY <1>b, <1>d, <2>1, <2>2
  <1>5. ASSUME NEW a \in Admins, Unpublish(a)
        PROVE  Judgeable
    <2> DEFINE c == req[a].challenge
               vs == {row[c].current} \cap In(c, "published")
    <2>1. /\ c \in Challenges
          /\ \A d \in Challenges, w \in Versions :
               version'[d][w] = IF d = c /\ w \in vs THEN Restated(c, w, "retired")
                                ELSE version[d][w]
      BY <1>5, <1>a, UnpublishEffect
    <2>2. \A w \in vs : version[c][w].content \in Complete
      BY <1>b, <2>1 DEF In
    <2> HIDE DEF c, vs
    <2> QED
      BY <1>b, <1>d, <2>1, <2>2
  <1>6. CASE Seed
    <2>1. /\ \A c \in Challenges, w \in Versions :
               version'[c][w] = IF c \in Seeded /\ w = 1 THEN SeedVersion(c) ELSE version[c][w]
          /\ \A c \in Seeded : SeedContent[c] \in Complete
      BY <1>6, <1>a, SeedEffect
    <2>2. \A c \in Seeded : SeedVersion(c).content = SeedContent[c]
      BY DEF SeedVersion
    <2> QED
      BY <1>b, <2>1, <2>2
  <1> QED
    BY <1>0, <1>2, <1>4, <1>5, <1>6, WritersOnly DEF TablesMoved

LEMMA SeededStep ==
  ASSUME IInv, [Next]_vars
  PROVE  SeededInv'
  <1>a. TypeOK /\ SeededInv /\ reseeded' \subseteq Seeded
    BY ReseededStep DEF IInv
  <1>b. \A c \in Seeded : c \in Challenges /\ 1 \in Versions
    BY CatalogAssumption DEF Versions, Numbers
  <1>1. CASE Seed
    <2>1. \A c \in Seeded : /\ version'[c][1] = SeedVersion(c) /\ SeedVersion(c) \in Version
      BY <1>1, <1>a, <1>b, SeedEffect
    <2>2. \A c \in Seeded : SeedVersion(c).state = "published"
                            /\ SeedVersion(c).content = SeedContent[c]
      BY DEF SeedVersion
    <2> QED
      BY <1>a, <1>b, <2>1, <2>2, NoneAssumption DEF SeededInv, Stored
  <1>2. CASE ~Seed
    <2>1. reseeded' = reseeded /\ Grown
      BY <1>2, <1>a, ReseededStep, Grow
    <2> QED
      BY <1>2, <1>a, <1>b, <2>1 DEF SeededInv, Stored, Grown, Overwritten
  <1> QED
    BY <1>1, <1>2

-----------------------------------------------------------------------------

LEMMA Initially ==
  ASSUME Init
  PROVE  IInv
  <1>1. \A c \in Challenges : row[c] = None
    BY DEF Init
  <1>2. \A c \in Challenges, v \in Versions : version[c][v] = None
    BY DEF Init
  <1>3. \A a \in Admins : step[a] = "idle"
    BY DEF Init
  <1>4. \A p \in Players : play[p] = Idle
    BY DEF Init
  <1>5. Idle \in Playing /\ Idle.stage = "idle"
    BY DEF Idle, Playing
  <1>6. TypeOK
    <2>1. row \in [Challenges -> Row \cup {None}]
      BY DEF Init
    <2>2. version \in [Challenges -> [Versions -> Version \cup {None}]]
      BY DEF Init
    <2>3. step \in [Admins -> Steps] /\ req \in [Admins -> Request \cup {None}]
      BY DEF Init, Steps
    <2>4. play \in [Players -> Playing]
      BY <1>5 DEF Init
    <2> QED
      BY <1>1, <1>2, <2>1, <2>2, <2>3, <2>4 DEF Init, TypeOK, Existing
  <1>7. RequestInv /\ NumberedInv
    BY <1>3 DEF RequestInv, NumberedInv
  <1>8. OneDraft /\ PublishedComplete
    BY <1>2 DEF OneDraft, PublishedComplete, In
  <1>9. PointerInv /\ SeededInv
    BY <1>1 DEF Init, PointerInv, SeededInv
  <1>10. PlayInv
    BY <1>4, <1>5 DEF PlayInv, PlayOK
  <1> QED
    BY <1>6, <1>7, <1>8, <1>9, <1>10 DEF IInv

\* The inductive invariant holds of every reachable state.
THEOREM Invariance == Spec => []IInv
  <1>1. Init => IInv
    BY Initially
  <1>2. IInv /\ [Next]_vars => IInv'
    <2> SUFFICES ASSUME IInv, [Next]_vars
                 PROVE  IInv'
      OBVIOUS
    <2>1. TypeOK'
      BY TablesStep, RequestStep, PlayStep, ReseededStep DEF IInv, TypeOK
    <2> QED
      BY <2>1, RequestStep, NumberedStep, OneDraftStep, PointerStep, CompleteStep, SeededStep,
         PlayStep DEF IInv
  <1> QED
    BY <1>1, <1>2, PTL DEF Spec

\* Every value the catalog stores has its type, and rows and versions come together.
THEOREM TypeCorrect == Spec => []TypeOK
  <1>1. IInv => TypeOK
    BY DEF IInv
  <1> QED
    BY <1>1, Invariance, PTL

\* However many editors open a draft of a challenge at once, one is opened.
THEOREM DraftUnique == Spec => []OneDraft
  <1>1. IInv => OneDraft
    BY DEF IInv
  <1> QED
    BY <1>1, Invariance, PTL

\* Every version that is or was published has its test cases.
THEOREM Judgeable == Spec => []PublishedComplete
  <1>1. IInv => PublishedComplete
    BY DEF IInv
  <1> QED
    BY <1>1, Invariance, PTL

\* A published version never changes, unless the seed script ships it.
THEOREM Immutable == Spec => VersionsImmutable
  <1>1. IInv /\ [Next]_vars =>
          [\A c \in Challenges, v \in Versions :
             version[c][v] # None /\ version[c][v].state # "draft" =>
               /\ version'[c][v] # None
               /\ version'[c][v].state # "draft"
               /\ \/ version'[c][v].content = version[c][v].content
                  \/ Seed /\ c \in Seeded /\ v = 1
                     /\ version'[c][v].content = SeedContent[c]]_vars
    BY Grow DEF Grown, Overwritten
  <1> QED
    BY <1>1, Invariance, PTL DEF Spec, VersionsImmutable

\* A Submit is judged by the hidden tests of the version its player has read, or
\* by those the seed script has put in their place.
THEOREM JudgedRight == Spec => []JudgedAsRead
  <1>1. IInv => JudgedAsRead
    BY DEF IInv, PlayInv, PlayOK, JudgedAsRead, Rewritten
  <1> QED
    BY <1>1, Invariance, PTL

-----------------------------------------------------------------------------
(* One active version *)

LEMMA OneActiveStep ==
  ASSUME IInv, OneActiveVersion, [Next]_vars
  PROVE  OneActiveVersion'
  <1>a. TypeOK /\ RequestInv /\ NumberedInv
    BY DEF IInv
  <1>b. \A c \in Challenges \ reseeded, v \in Versions :
          version[c][v] # None /\ version[c][v].state = "published" <=>
            row[c] # None /\ row[c].current = v
    <2>1. \A c \in Challenges : row[c] # None => row[c].current \in Versions \cup {None}
      BY <1>a DEF TypeOK, Row
    <2> QED
      BY <2>1, NoneAssumption DEF OneActiveVersion, Pointed, In
  <1>f. reseeded \subseteq reseeded'
    BY <1>a, ReseededStep
  <1> DEFINE Agree == \A c \in Challenges \ reseeded', v \in Versions :
          version'[c][v] # None /\ version'[c][v].state = "published" <=>
            row'[c] # None /\ row'[c].current = v
  <1> SUFFICES Agree
    <2>1. PointerInv'
      BY PointerStep
    <2> QED
      BY <2>1, NoneAssumption DEF OneActiveVersion, Pointed, PointerInv, In
  <1>c. \A content : Drafted(content).state = "draft"
    BY DEF Drafted
  <1>d. \A c, v, s : Restated(c, v, s).state = s
    BY DEF Restated
  <1>e. \A c, v : Repointed(c, v).current = v
    BY DEF Repointed
  <1>0. CASE UNCHANGED tables
    BY <1>0, <1>b, <1>f DEF tables
  <1>1. ASSUME NEW a \in Admins, Create(a)
        PROVE  Agree
    <2> DEFINE c == req[a].challenge  v == req[a].version
               new == [id |-> Id(req[a].slot), slot |-> req[a].slot, current |-> None]
    <2>1. /\ c \in Challenges /\ row[c] = None
          /\ OnlyRow(c, new) /\ OnlyVersion(c, v, Drafted(req[a].content))
          /\ new.current = None
      BY <1>1, <1>a, CreateEffect
    <2>2. \A w \in Versions : version[c][w] = None
      BY <1>a, <2>1 DEF TypeOK, Existing
    <2>3. None \notin Versions
      BY NoneAssumption
    <2> HIDE DEF c, v, new
    <2> QED
      BY <1>b, <1>f, <1>c, <2>1, <2>2, <2>3 DEF OnlyRow, OnlyVersion
  <1>2. ASSUME NEW a \in Admins, InsertVersion(a)
        PROVE  Agree
    <2> DEFINE c == req[a].challenge  v == req[a].version
    <2>1. /\ c \in Challenges /\ v \in Versions /\ row' = row /\ version[c][v] = None
          /\ OnlyVersion(c, v, Drafted(req[a].content))
      BY <1>2, <1>a, InsertEffect
    <2> HIDE DEF c, v
    <2> QED
      BY <1>b, <1>f, <1>c, <2>1 DEF OnlyVersion
  <1>3. ASSUME NEW a \in Admins, UpdateDraft(a)
        PROVE  Agree
    <2> DEFINE c == req[a].challenge  v == req[a].version
               new == [id |-> row[c].id, slot |-> req[a].slot, current |-> row[c].current]
    <2>1. /\ c \in Challenges /\ v \in Versions /\ row[c] # None
          /\ version[c][v].state = "draft"
          /\ new \in Row
          /\ OnlyRow(c, new) /\ new.current = row[c].current
          /\ OnlyVersion(c, v, Drafted(req[a].content))
      BY <1>3, <1>a, UpdateEffect
    <2>2. new # None
      BY <2>1, NoneAssumption
    <2> HIDE DEF c, v, new
    <2> QED
      BY <1>b, <1>f, <1>c, <2>1, <2>2 DEF OnlyRow, OnlyVersion
  <1>4. ASSUME NEW a \in Admins, Publish(a)
        PROVE  Agree
    <2> DEFINE c == req[a].challenge  v == req[a].version
    <2>1. /\ c \in Challenges /\ v \in Versions /\ row[c] # None
          /\ version[c][v] # None
          /\ OnlyRow(c, Repointed(c, v))
          /\ \A d \in Challenges, w \in Versions :
               version'[d][w] = IF d # c THEN version[d][w]
                                ELSE IF w = v THEN Restated(c, v, "published")
                                ELSE IF w \in In(c, "published") THEN Restated(c, w, "retired")
                                ELSE version[d][w]
      BY <1>4, <1>a, PublishEffect
    <2> HIDE DEF c, v
    <2>2. Restated(c, v, "published") # None /\ Repointed(c, v) # None
      BY <1>a, <2>1, RestatedVersion, RepointedRow DEF States
    <2>3. ASSUME NEW w \in Versions
          PROVE  version'[c][w] # None /\ version'[c][w].state = "published" <=> w = v
      BY <1>d, <2>1, <2>2 DEF In
    <2> QED
      BY <1>b, <1>f, <1>e, <2>1, <2>2, <2>3 DEF OnlyRow
  <1>5. ASSUME NEW a \in Admins, Unpublish(a)
        PROVE  Agree
    <2> DEFINE c == req[a].challenge
               vs == {row[c].current} \cap In(c, "published")
    <2>1. /\ c \in Challenges /\ row[c] # None
          /\ OnlyRow(c, Repointed(c, None))
          /\ \A d \in Challenges, w \in Versions :
               version'[d][w] = IF d = c /\ w \in vs THEN Restated(c, w, "retired")
                                ELSE version[d][w]
      BY <1>5, <1>a, UnpublishEffect
    <2>2. c \notin reseeded =>
            \A w \in Versions : version[c][w] # None /\ version[c][w].state = "published" => w \in vs
      BY <1>b, <2>1 DEF In
    <2>3. None \notin Versions
      BY NoneAssumption
    <2> HIDE DEF c, vs
    <2> QED
      BY <1>b, <1>f, <1>d, <1>e, <2>1, <2>2, <2>3 DEF OnlyRow
  <1>6. CASE Seed
    <2>1. /\ \A c \in Challenges : row'[c] = IF c \in Seeded THEN SeedRow(c) ELSE row[c]
          /\ \A c \in Challenges, w \in Versions :
               version'[c][w] = IF c \in Seeded /\ w = 1 THEN SeedVersion(c) ELSE version[c][w]
          /\ \A c \in Seeded : c \in Challenges /\ SeedVersion(c) # None /\ SeedRow(c) # None
          /\ \A c \in Seeded : row[c] # None => c \in reseeded'
      BY <1>6, <1>a, SeedEffect, NoneAssumption
    <2>2. \A c \in Seeded : SeedRow(c).current = 1 /\ SeedVersion(c).state = "published"
      BY DEF SeedRow, SeedVersion
    <2>3. \A c \in Seeded \ reseeded', v \in Versions : version[c][v] = None
      BY <1>a, <2>1 DEF TypeOK, Existing
    <2> QED
      BY <1>b, <1>f, <2>1, <2>2, <2>3
  <1> QED
    BY <1>0, <1>1, <1>2, <1>3, <1>4, <1>5, <1>6, WritersOnly DEF TablesMoved

\* Whatever requests and runs of the seed script overlap, the pointer names a
\* published version, and the only one where the seed script was not run over
\* the challenge, in every state another session can read.
THEOREM ActiveUnique == Spec => []OneActiveVersion
  <1>1. Init => OneActiveVersion
    BY DEF Init, OneActiveVersion, Pointed, In
  <1>2. IInv /\ OneActiveVersion /\ [Next]_vars => OneActiveVersion'
    BY OneActiveStep
  <1> QED
    BY <1>1, <1>2, Invariance, PTL DEF Spec

-----------------------------------------------------------------------------
(* The catalog implements EditorsPromise *)

\* With one draft, Draft is its content; without, None.
LEMMA DraftShown ==
  ASSUME IInv, NEW c \in Challenges
  PROVE  /\ \A v \in Versions : version[c][v] # None /\ version[c][v].state = "draft" =>
              Draft(c) = version[c][v].content /\ Draft(c) # None
         /\ (\A v \in Versions : version[c][v] # None => version[c][v].state # "draft") =>
              Draft(c) = None
  <1>1. ASSUME NEW v \in Versions, version[c][v] # None, version[c][v].state = "draft"
        PROVE  Draft(c) = version[c][v].content /\ Draft(c) # None
    <2>1. In(c, "draft") = {v}
      BY <1>1 DEF IInv, OneDraft, In
    <2>2. version[c][v].content \in Contents
      BY <1>1, VersionFields DEF IInv
    <2> QED
      BY <2>1, <2>2, NoneAssumption DEF Draft
  <1>2. ASSUME \A v \in Versions : version[c][v] # None => version[c][v].state # "draft"
        PROVE  Draft(c) = None
    BY <1>2 DEF Draft, In
  <1> QED
    BY <1>1, <1>2

LEMMA DraftShownNext ==
  ASSUME IInv', NEW c \in Challenges
  PROVE  /\ \A v \in Versions : version'[c][v] # None /\ version'[c][v].state = "draft" =>
              Draft(c)' = version'[c][v].content
         /\ (\A v \in Versions : version'[c][v] # None => version'[c][v].state # "draft") =>
              Draft(c)' = None
  <1>1. ASSUME NEW v \in Versions, version'[c][v] # None, version'[c][v].state = "draft"
        PROVE  Draft(c)' = version'[c][v].content
    <2>1. In(c, "draft")' = {v}
      BY <1>1 DEF IInv, OneDraft, In
    <2> QED
      BY <2>1 DEF Draft
  <1>2. ASSUME \A v \in Versions : version'[c][v] # None => version'[c][v].state # "draft"
        PROVE  Draft(c)' = None
    BY <1>2 DEF Draft, In
  <1> QED
    BY <1>1, <1>2

LEMMA SameDraft ==
  ASSUME IInv, IInv', NEW c \in Challenges,
         \A v \in Versions : version'[c][v] = version[c][v]
           \/ /\ version[c][v] # None => version[c][v].state # "draft"
              /\ version'[c][v] # None => version'[c][v].state # "draft"
  PROVE  Draft(c)' = Draft(c)
  <1>1. CASE \E v \in Versions : version[c][v] # None /\ version[c][v].state = "draft"
    BY <1>1, DraftShown, DraftShownNext
  <1>2. CASE \A v \in Versions : version[c][v] # None => version[c][v].state # "draft"
    BY <1>2, DraftShown, DraftShownNext
  <1> QED
    BY <1>1, <1>2

LEMMA SameActive ==
  ASSUME IInv, Grown, NEW c \in Challenges, ~Seed \/ c \notin Seeded,
         row'[c] # None => row[c] # None,
         row[c] # None => row'[c].current = row[c].current
  PROVE  Active(c)' = Active(c)
  BY DEF IInv, PointerInv, In, Grown, Overwritten, Active

LEMMA PromiseStep ==
  ASSUME IInv, IInv', [Next]_vars
  PROVE  [Promise!Next]_(Promise!vars)
  <1>a. TypeOK /\ RequestInv /\ NumberedInv
    BY DEF IInv
  <1>g. Grown
    BY Grow
  <1> DEFINE dr == [c \in Challenges |-> Draft(c)]
             ac == [c \in Challenges |-> Active(c)]
  <1>c. \A content : Drafted(content).state = "draft" /\ Drafted(content).content = content
    BY DEF Drafted
  <1>0. CASE UNCHANGED tables
    <2>1. \A c \in Challenges : Draft(c)' = Draft(c) /\ Active(c)' = Active(c)
      BY <1>0 DEF tables, Draft, Active, In
    <2> QED
      BY <2>1 DEF Promise!vars
  <1>1. ASSUME NEW a \in Admins, Create(a), ~Seed
        PROVE  Promise!Next
    <2>0. PICK c \in Challenges, v \in Versions, content \in Contents : \E new :
            /\ row[c] = None /\ OnlyRow(c, new) /\ new.current = None
            /\ OnlyVersion(c, v, Drafted(content))
      <3> DEFINE new == [id |-> Id(req[a].slot), slot |-> req[a].slot, current |-> None]
      <3>1. /\ req[a].challenge \in Challenges /\ req[a].version \in Versions
            /\ row[req[a].challenge] = None
            /\ OnlyRow(req[a].challenge, new)
            /\ OnlyVersion(req[a].challenge, req[a].version, Drafted(req[a].content))
        BY <1>1, <1>a, CreateEffect
      <3>2. req[a].content \in Contents
        BY <1>1, <1>a, RequestFields DEF Create
      <3>3. new.current = None
        OBVIOUS
      <3> HIDE DEF new
      <3> QED
        BY <3>1, <3>2, <3>3
    <2>1. PICK new :
            /\ row[c] = None /\ OnlyRow(c, new) /\ new.current = None
            /\ OnlyVersion(c, v, Drafted(content))
      BY <2>0
    <2>2. \A w \in Versions : version[c][w] = None
      BY <1>a, <2>1 DEF TypeOK, Existing
    <2>3. Draft(c) = None
      BY <2>1, <2>2, DraftShown
    <2>4. Draft(c)' = content
      BY <1>c, <2>1, DraftShownNext, DraftedVersion DEF OnlyVersion
    <2>5. Active(c) = None /\ Active(c)' = None
      BY <2>1 DEF Active, OnlyRow
    <2>6. \A d \in Challenges \ {c} : Draft(d)' = Draft(d) /\ Active(d)' = Active(d)
      BY <1>g, <1>1, <2>1, SameDraft, SameActive DEF OnlyRow, OnlyVersion
    <2>7. /\ dr[c] = None
          /\ dr' = [dr EXCEPT ![c] = content]
          /\ ac' = ac
      BY <2>1, <2>3, <2>4, <2>5, <2>6
    <2> HIDE DEF dr, ac
    <2> QED
      BY <2>1, <2>7 DEF Promise!Next, Promise!Open, dr, ac

  <1>2. ASSUME NEW a \in Admins, InsertVersion(a), ~Seed
        PROVE  Promise!Next
    <2>1. PICK c \in Challenges, v \in Versions, content \in Contents :
            /\ row' = row /\ In(c, "draft") = {}
            /\ OnlyVersion(c, v, Drafted(content))
      <3>1. req[a].content \in Contents
        BY <1>2, <1>a, RequestFields DEF InsertVersion
      <3> QED
        BY <1>2, <1>a, <3>1, InsertEffect
    <2>2. Draft(c) = None
      BY <2>1 DEF Draft
    <2>3. Draft(c)' = content
      BY <1>c, <2>1, DraftShownNext, DraftedVersion DEF OnlyVersion
    <2>4. \A d \in Challenges : Active(d)' = Active(d)
      BY <1>g, <1>2, <2>1, SameActive
    <2>5. \A d \in Challenges \ {c} : Draft(d)' = Draft(d)
      BY <2>1, SameDraft DEF OnlyVersion
    <2>6. /\ dr[c] = None
          /\ dr' = [dr EXCEPT ![c] = content]
          /\ ac' = ac
      BY <2>1, <2>2, <2>3, <2>4, <2>5
    <2> HIDE DEF dr, ac
    <2> QED
      BY <2>1, <2>6 DEF Promise!Next, Promise!Open, dr, ac
  <1>3. ASSUME NEW a \in Admins, UpdateDraft(a), ~Seed
        PROVE  Promise!Next
    <2>0. PICK c \in Challenges, v \in Versions, content \in Contents : \E new :
            /\ row[c] # None /\ OnlyRow(c, new) /\ new.current = row[c].current
            /\ version[c][v] # None /\ version[c][v].state = "draft"
            /\ OnlyVersion(c, v, Drafted(content))
      <3> DEFINE d == req[a].challenge
                 new == [id |-> row[d].id, slot |-> req[a].slot, current |-> row[d].current]
      <3>1. /\ d \in Challenges /\ req[a].version \in Versions
            /\ row[d] # None /\ OnlyRow(d, new)
            /\ version[d][req[a].version] # None /\ version[d][req[a].version].state = "draft"
            /\ OnlyVersion(d, req[a].version, Drafted(req[a].content))
        BY <1>3, <1>a, UpdateEffect
      <3>2. req[a].content \in Contents
        BY <1>3, <1>a, RequestFields DEF UpdateDraft
      <3>3. new.current = row[d].current
        OBVIOUS
      <3> HIDE DEF new
      <3> QED
        BY <3>1, <3>2, <3>3
    <2>1. PICK new :
            /\ row[c] # None /\ OnlyRow(c, new) /\ new.current = row[c].current
            /\ version[c][v] # None /\ version[c][v].state = "draft"
            /\ OnlyVersion(c, v, Drafted(content))
      BY <2>0
    <2>2. Draft(c) # None
      BY <2>1, DraftShown
    <2>3. Draft(c)' = content
      BY <1>c, <2>1, DraftShownNext, DraftedVersion DEF OnlyVersion
    <2>4. \A d \in Challenges : Active(d)' = Active(d)
      BY <1>g, <1>3, <2>1, SameActive DEF OnlyRow
    <2>5. \A d \in Challenges \ {c} : Draft(d)' = Draft(d)
      BY <2>1, SameDraft DEF OnlyVersion
    <2>6. /\ dr[c] # None
          /\ dr' = [dr EXCEPT ![c] = content]
          /\ ac' = ac
      BY <2>1, <2>2, <2>3, <2>4, <2>5
    <2> HIDE DEF dr, ac
    <2> QED
      BY <2>1, <2>6 DEF Promise!Next, Promise!Edit, dr, ac
  <1>4. ASSUME NEW a \in Admins, Publish(a), ~Seed
        PROVE  Promise!Next
    <2>1. PICK c \in Challenges, v \in Versions :
            /\ row[c] # None
            /\ version[c][v] # None /\ version[c][v].state = "draft"
            /\ version[c][v].content \in Complete
            /\ OnlyRow(c, Repointed(c, v))
            /\ \A d \in Challenges, w \in Versions :
               version'[d][w] = IF d # c THEN version[d][w]
                                ELSE IF w = v THEN Restated(c, v, "published")
                                ELSE IF w \in In(c, "published") THEN Restated(c, w, "retired")
                                ELSE version[d][w]
      <3> DEFINE d == req[a].challenge  u == req[a].version
      <3>1. /\ d \in Challenges /\ u \in Versions /\ row[d] # None
            /\ version[d][u] # None /\ version[d][u].state = "draft"
            /\ version[d][u].content \in Complete
            /\ OnlyRow(d, Repointed(d, u))
            /\ \A e \in Challenges, w \in Versions :
                 version'[e][w] = IF e # d THEN version[e][w]
                                  ELSE IF w = u THEN Restated(d, u, "published")
                                  ELSE IF w \in In(d, "published") THEN Restated(d, w, "retired")
                                  ELSE version[e][w]
        BY <1>4, <1>a, PublishEffect
      <3> HIDE DEF d, u
      <3> QED
        BY <3>1
    <2>2. Draft(c) = version[c][v].content
      BY <2>1, DraftShown
    <2>3. \A w \in Versions : version'[c][w] # None => version'[c][w].state # "draft"
      <3>1. \A w \in Versions : \A s : Restated(c, w, s).state = s
        BY DEF Restated
      <3>2. \A w \in Versions : version[c][w] # None /\ version[c][w].state = "draft" => w = v
        BY <2>1 DEF IInv, OneDraft, In
      <3> QED
        BY <2>1, <3>1, <3>2
    <2>4. Draft(c)' = None
      BY <2>1, <2>3, DraftShownNext
    <2>5. Active(c)' = version[c][v].content
      <3>1. /\ Repointed(c, v).current = v /\ Repointed(c, v) # None
            /\ Restated(c, v, "published").content = version[c][v].content
        BY <1>a, <2>1, RepointedRow DEF Restated
      <3>2. row'[c] = Repointed(c, v) /\ version'[c][v] = Restated(c, v, "published") /\ v # None
        BY <2>1, NoneAssumption DEF OnlyRow
      <3> QED
        BY <3>1, <3>2 DEF Active
    <2>6. \A d \in Challenges \ {c} : Draft(d)' = Draft(d)
      BY <2>1, SameDraft
    <2>7. \A d \in Challenges \ {c} : Active(d)' = Active(d)
      BY <1>g, <1>4, <2>1, SameActive DEF OnlyRow
    <2>8. /\ dr[c] \in Complete
          /\ dr' = [dr EXCEPT ![c] = None]
          /\ ac' = [ac EXCEPT ![c] = dr[c]]
      BY <2>1, <2>2, <2>4, <2>5, <2>6, <2>7
    <2> HIDE DEF dr, ac
    <2> QED
      BY <2>1, <2>8 DEF Promise!Next, Promise!Release, dr, ac
  <1>5. ASSUME NEW a \in Admins, Unpublish(a), ~Seed
        PROVE  Promise!Next
    <2>0. PICK c \in Challenges : \E vs :
            /\ vs \subseteq In(c, "published")
            /\ row[c] # None /\ row[c].current \in Versions
            /\ OnlyRow(c, Repointed(c, None))
            /\ \A d \in Challenges, w \in Versions :
               version'[d][w] = IF d = c /\ w \in vs THEN Restated(c, w, "retired")
                                ELSE version[d][w]
      <3> DEFINE d == req[a].challenge
                 us == {row[d].current} \cap In(d, "published")
      <3>1. /\ d \in Challenges /\ row[d] # None /\ row[d].current \in Versions
            /\ OnlyRow(d, Repointed(d, None))
            /\ \A e \in Challenges, w \in Versions :
                 version'[e][w] = IF e = d /\ w \in us THEN Restated(d, w, "retired")
                                  ELSE version[e][w]
        BY <1>5, <1>a, UnpublishEffect
      <3>2. us \subseteq In(d, "published")
        OBVIOUS
      <3> HIDE DEF d, us
      <3> QED
        BY <3>1, <3>2
    <2>1. PICK vs :
            /\ vs \subseteq In(c, "published")
            /\ row[c] # None /\ row[c].current \in Versions
            /\ OnlyRow(c, Repointed(c, None))
            /\ \A d \in Challenges, w \in Versions :
               version'[d][w] = IF d = c /\ w \in vs THEN Restated(c, w, "retired")
                                ELSE version[d][w]
      BY <2>0
    <2>2. \A w \in vs : version[c][w] # None /\ version[c][w].state # "draft"
      BY <2>1 DEF In
    <2>3. \A w \in Versions : Restated(c, w, "retired").state = "retired"
      BY DEF Restated
    <2>4. \A d \in Challenges : Draft(d)' = Draft(d)
      BY <2>1, <2>2, <2>3, SameDraft
    <2>5. Active(c) # None
      <3>1. row[c].current # None
        BY <2>1, NoneAssumption
      <3>2. version[c][row[c].current] # None /\ version[c][row[c].current].state = "published"
        BY <2>1, <3>1 DEF IInv, PointerInv, In
      <3>3. Active(c) = version[c][row[c].current].content
        <4>1. row[c] # None
          BY <2>1
        <4> QED
          BY <3>1, <4>1 DEF Active
      <3>4. version[c][row[c].current].content \in Contents
        BY <1>a, <2>1, <3>2, VersionFields
      <3> QED
        BY <3>3, <3>4, NoneAssumption
    <2>6. Active(c)' = None
      <3>1. row'[c] = Repointed(c, None) /\ Repointed(c, None).current = None
        BY <2>1 DEF OnlyRow, Repointed
      <3> QED
        BY <3>1 DEF Active
    <2>7. \A d \in Challenges \ {c} : Active(d)' = Active(d)
      BY <1>g, <1>5, <2>1, SameActive DEF OnlyRow
    <2>8. /\ ac[c] # None
          /\ ac' = [ac EXCEPT ![c] = None]
          /\ dr' = dr
      <3>1. dr' = dr
        BY <2>4
      <3>2. ac[c] # None
        BY <2>5
      <3>3. ac' = [ac EXCEPT ![c] = None]
        BY <2>6, <2>7
      <3> QED
        BY <3>1, <3>2, <3>3
    <2> HIDE DEF dr, ac
    <2> QED
      BY <2>1, <2>8 DEF Promise!Next, Promise!Withdraw, dr, ac
  <1>6. CASE Seed
    <2> DEFINE lost == {c \in Seeded : version[c][1] # None /\ version[c][1].state = "draft"}
    <2>1. /\ \A c \in Challenges : row'[c] = IF c \in Seeded THEN SeedRow(c) ELSE row[c]
          /\ \A c \in Challenges, w \in Versions :
               version'[c][w] = IF c \in Seeded /\ w = 1 THEN SeedVersion(c) ELSE version[c][w]
          /\ \A c \in Seeded : /\ c \in Challenges /\ 1 \in Versions
                               /\ SeedRow(c) # None /\ SeedVersion(c) # None
      BY <1>6, <1>a, SeedEffect, NoneAssumption
    <2>2. \A c \in Seeded : /\ SeedRow(c).current = 1 /\ SeedVersion(c).state = "published"
                            /\ SeedVersion(c).content = SeedContent[c]
      BY DEF SeedRow, SeedVersion
    <2>3. ASSUME NEW c \in lost
          PROVE  Draft(c)' = None
      <3>1. c \in Seeded /\ c \in Challenges /\ 1 \in Versions
        BY <2>1
      <3>2. \A w \in Versions : version[c][w] # None /\ version[c][w].state = "draft" => w = 1
        BY <3>1 DEF IInv, OneDraft, In
      <3>3. \A w \in Versions : version'[c][w] # None => version'[c][w].state # "draft"
        BY <2>1, <2>2, <3>1, <3>2
      <3> QED
        BY <3>1, <3>3, DraftShownNext
    <2>4. \A c \in Challenges \ lost : Draft(c)' = Draft(c)
      BY <2>1, <2>2, SameDraft
    <2>5. \A c \in Seeded : Active(c)' = SeedContent[c]
      BY <2>1, <2>2, NoneAssumption DEF Active
    <2>6. \A c \in Challenges \ Seeded : Active(c)' = Active(c)
      BY <1>g, <2>1, SameActive
    <2>7. /\ dr' = [c \in Challenges |-> IF c \in lost THEN None ELSE dr[c]]
          /\ ac' = [c \in Challenges |-> IF c \in Seeded THEN SeedContent[c] ELSE ac[c]]
      BY <2>1, <2>3, <2>4, <2>5, <2>6
    <2>8. lost \in SUBSET Seeded
      OBVIOUS
    <2> HIDE DEF dr, ac, lost
    <2> QED
      BY <2>7, <2>8 DEF Promise!Next, Promise!Install, dr, ac
  <1> QED
    BY <1>0, <1>1, <1>2, <1>3, <1>4, <1>5, <1>6, WritersOnly DEF TablesMoved

\* Requests, reads and the two tables together behave as one draft and one
\* active content per challenge.
THEOREM Promised == Spec => KeepsPromise
  <1>1. Init => Promise!Init
    BY NoneAssumption DEF Init, Promise!Init, Draft, Active, In
  <1>2. IInv /\ IInv' /\ [Next]_vars => [Promise!Next]_(Promise!vars)
    BY PromiseStep
  <1> QED
    BY <1>1, <1>2, Invariance, PTL DEF Spec, KeepsPromise, Promise!Spec
=============================================================================
