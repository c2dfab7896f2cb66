--------------------------- MODULE EditorsPromise ---------------------------
(***************************************************************************)
(* The draft/publish lifecycle as ARCHITECTURE.md tells it: a challenge    *)
(* shows its players one active content, a newer draft can coexist with    *)
(* it, publishing puts the draft in its place in one step, unpublishing    *)
(* leaves nothing in its place, and all editors work on the same draft.    *)
(* The seed script stands outside of it: it puts its own contents in place *)
(* at once, and where the draft is the version it writes, the draft is     *)
(* lost.                                                                   *)
(***************************************************************************)
CONSTANTS Challenges, Contents, Complete, Seeded, SeedContent, None

VARIABLES draft,    \* draft[c]: the content being authored, or None
          active    \* active[c]: the content players get, or None

vars == <<draft, active>>

Init ==
  /\ draft = [c \in Challenges |-> None]
  /\ active = [c \in Challenges |-> None]

Open(c, content) ==
  /\ draft[c] = None
  /\ draft' = [draft EXCEPT ![c] = content]
  /\ UNCHANGED active

Edit(c, content) ==
  /\ draft[c] # None
  /\ draft' = [draft EXCEPT ![c] = content]
  /\ UNCHANGED active

Release(c) ==
  /\ draft[c] \in Complete
  /\ active' = [active EXCEPT ![c] = draft[c]]
  /\ draft' = [draft EXCEPT ![c] = None]

Withdraw(c) ==
  /\ active[c] # None
  /\ active' = [active EXCEPT ![c] = None]
  /\ UNCHANGED draft

Install(lost) ==
  /\ active' = [c \in Challenges |-> IF c \in Seeded THEN SeedContent[c] ELSE active[c]]
  /\ draft' = [c \in Challenges |-> IF c \in lost THEN None ELSE draft[c]]

Next ==
  \/ \E lost \in SUBSET Seeded : Install(lost)
  \/ \E c \in Challenges :
       \/ Release(c) \/ Withdraw(c)
       \/ \E content \in Contents : Open(c, content) \/ Edit(c, content)

Spec == Init /\ [][Next]_vars
=============================================================================
