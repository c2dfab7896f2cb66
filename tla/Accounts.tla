------------------------------ MODULE Accounts ------------------------------
(***************************************************************************)
(* Who is asking: a request's access token is verified against the         *)
(* provider's public keys, which one process keeps for a while, and the    *)
(* identity it names becomes, or updates, a row of users.                  *)
(*                                                                         *)
(* A step is the code between two awaits: of the cache's lock, of the      *)
(* provider's document, of a database statement.                           *)
(***************************************************************************)
EXTENDS Integers, FiniteSets

CONSTANTS
  Requests,
  Players, Emails,
  Keys,         \* key ids
  Tokens,       \* the tokens that are presented
  Ttl,          \* how long a key document is used
  Horizon,      \* bound of the clock
  None

ASSUME TtlAssumption == Ttl \in Nat \ {0} /\ Horizon \in Nat
ASSUME TokensAssumption ==
  Tokens \subseteq [player : Players, email : Emails \cup {None}, key : Keys, valid : BOOLEAN]
ASSUME NoneAssumption == None \notin Nat /\ None \notin Requests

VARIABLES
  clock,
  listed,      \* the provider's document: the keys it lists
  withdrawn,   \* withdrawn[k]: when the provider withdrew key k, or None
  cache,       \* the document this process keeps: [keys, at], or None
  expires,     \* when it stops using it
  lock,        \* the request that holds the cache's lock, or None
  pc,          \* pc[r]: where request r is
  token,       \* token[r]: what it presents
  arrived,     \* arrived[r]: when it came, and the provider's document then
  forced,      \* forced[r]: it has not found its key in the cache
  now,         \* now[r]: when it got the lock
  document,    \* document[r]: what the provider has answered to it
  row,         \* row[r]: the row of users its transaction read or wrote
  users,       \* the committed rows of users
  answer       \* answer[r]: the user, or why there is none

keyring == <<cache, expires, lock, forced, now, document>>
provider == <<clock, listed, withdrawn>>
accounts == <<row, users>>
vars == <<provider, keyring, accounts, pc, token, arrived, answer>>

Time == 0..Horizon
Statuses == {"ok", "unknown key", "rejected", "keys unavailable", "not saved", "not synchronized"}
Player(r) == token[r].player
Said(r) == IF answer[r] = None THEN "nothing" ELSE answer[r].status

\* The exception that ends a request.
Refuse(r, why) ==
  /\ pc' = [pc EXCEPT ![r] = "answered"]
  /\ answer' = [answer EXCEPT ![r] = [status |-> why, user |-> None]]

-----------------------------------------------------------------------------
(* SupabaseAccessTokenVerifier *)

Fresh == cache # None /\ clock < expires

\* _find_signing_key and the rest of verify, with token t and these keys in hand.
Use(r, t, keys) ==
  \/ /\ t.key \in keys /\ t.valid
     /\ pc' = [pc EXCEPT ![r] = "select"]
     /\ UNCHANGED <<forced, answer>>
  \/ /\ t.key \in keys /\ ~t.valid
     /\ Refuse(r, "rejected")
     /\ UNCHANGED forced
  \/ /\ t.key \notin keys /\ ~forced[r]
     /\ pc' = [pc EXCEPT ![r] = "lock"]
     /\ forced' = [forced EXCEPT ![r] = TRUE]
     /\ UNCHANGED answer
  \/ /\ t.key \notin keys /\ forced[r]
     /\ Refuse(r, "unknown key")
     /\ UNCHANGED forced

\* A token is presented; keys that are fresh are used without the lock.
Arrive(r) ==
  /\ pc[r] = "idle"
  /\ arrived' = [arrived EXCEPT ![r] = [at |-> clock, listed |-> listed]]
  /\ \E t \in Tokens :
       /\ token' = [token EXCEPT ![r] = t]
       /\ \/ Fresh /\ Use(r, t, cache.keys)
          \/ ~Fresh /\ pc' = [pc EXCEPT ![r] = "lock"] /\ UNCHANGED <<forced, answer>>
  /\ UNCHANGED <<cache, expires, lock, now, document, accounts, provider>>

Fetch(r) ==
  /\ pc' = [pc EXCEPT ![r] = "fetching"]
  /\ lock' = r
  /\ now' = [now EXCEPT ![r] = clock]
  /\ UNCHANGED <<forced, answer>>

\* Mutant: nobody waits for the lock.
TakeNoLock(r) ==
  /\ pc[r] = "lock"
  /\ \/ Fresh /\ ~forced[r] /\ Use(r, token[r], cache.keys) /\ UNCHANGED <<lock, now>>
     \/ ~(Fresh /\ ~forced[r]) /\ Fetch(r)
  /\ UNCHANGED <<cache, expires, document, token, arrived, accounts, provider>>

\* Mutant: a fresh cache is good enough for a request that did not find its key.
TakeLockUnforced(r) ==
  /\ pc[r] = "lock" /\ lock = None
  /\ \/ Fresh /\ Use(r, token[r], cache.keys) /\ UNCHANGED <<lock, now>>
     \/ ~Fresh /\ Fetch(r)
  /\ UNCHANGED <<cache, expires, document, token, arrived, accounts, provider>>

\* The lock is got: the cache is looked at again, unless the refresh is forced.
TakeLock(r) ==
  /\ pc[r] = "lock" /\ lock = None
  /\ \/ Fresh /\ ~forced[r] /\ Use(r, token[r], cache.keys) /\ UNCHANGED <<lock, now>>
     \/ ~(Fresh /\ ~forced[r]) /\ Fetch(r)
  /\ UNCHANGED <<cache, expires, document, token, arrived, accounts, provider>>

\* The provider answers with what it lists.
Serve(r) ==
  /\ pc[r] = "fetching" /\ document[r] = None
  /\ document' = [document EXCEPT ![r] = [keys |-> listed, at |-> clock]]
  /\ UNCHANGED <<provider, cache, expires, lock, forced, now, accounts, pc, token, arrived, answer>>

\* Mutant: the time to live counts from the document's arrival.
KeepFromNow(r) ==
  /\ pc[r] = "fetching" /\ document[r] # None
  /\ cache' = document[r]
  /\ expires' = clock + Ttl
  /\ lock' = None
  /\ document' = [document EXCEPT ![r] = None]
  /\ Use(r, token[r], document[r].keys)
  /\ UNCHANGED <<now, token, arrived, accounts, provider>>

\* The document has arrived.  Its time to live counts from before it was asked for.
Keep(r) ==
  /\ pc[r] = "fetching" /\ document[r] # None
  /\ cache' = document[r]
  /\ expires' = now[r] + Ttl
  /\ lock' = None
  /\ document' = [document EXCEPT ![r] = None]
  /\ Use(r, token[r], document[r].keys)
  /\ UNCHANGED <<now, token, arrived, accounts, provider>>

\* Mutant: a fetch that fails keeps the lock.
FetchFailsLocked(r) ==
  /\ pc[r] = "fetching"
  /\ Refuse(r, "keys unavailable")
  /\ document' = [document EXCEPT ![r] = None]
  /\ UNCHANGED <<cache, expires, lock, forced, now, token, arrived, accounts, provider>>

\* No answer in time, or none that is a document of keys: the cache stays.
FetchFails(r) ==
  /\ pc[r] = "fetching"
  /\ Refuse(r, "keys unavailable")
  /\ lock' = None
  /\ document' = [document EXCEPT ![r] = None]
  /\ UNCHANGED <<cache, expires, forced, now, token, arrived, accounts, provider>>

-----------------------------------------------------------------------------
(* PostgresUserRepository.synchronize *)

RowOf(player) == {u \in users : u.player = player}
Current(r) == CHOOSE u \in RowOf(Player(r)) : TRUE
NewRow(r) == [id |-> r, player |-> Player(r), email |-> token[r].email]
Renewed(r, u) == [u EXCEPT !.email = IF token[r].email = None THEN @ ELSE token[r].email]

\* The transaction of a request that has written row u holds it until it ends.
Writes(r, u) == pc[r] \in {"inserted", "updated"} /\ row[r].id = u.id
Inserting(player) == {r \in Requests : pc[r] = "inserted" /\ Player(r) = player}

\* The identity's row, if there is one that is committed.
Select(r) ==
  /\ pc[r] = "select"
  /\ \/ /\ RowOf(Player(r)) = {}
        /\ pc' = [pc EXCEPT ![r] = "insert"]
        /\ row' = [row EXCEPT ![r] = NewRow(r)]
     \/ /\ RowOf(Player(r)) # {}
        /\ pc' = [pc EXCEPT ![r] = IF Renewed(r, Current(r)) = Current(r) THEN "read" ELSE "update"]
        /\ row' = [row EXCEPT ![r] = Renewed(r, Current(r))]
  /\ UNCHANGED <<provider, keyring, users, token, arrived, answer>>

\* Mutant: a conflict is ignored, and the row that was not inserted answered.
InsertIgnoring(r) ==
  /\ pc[r] = "insert" /\ Inserting(Player(r)) = {}
  /\ pc' = [pc EXCEPT ![r] = IF RowOf(Player(r)) = {} THEN "inserted" ELSE "read"]
  /\ UNCHANGED <<provider, keyring, accounts, token, arrived, answer>>

\* The unique constraint makes an insert wait for another of the same identity
\* that is still open, and fails it once that one has committed.
Insert(r) ==
  /\ pc[r] = "insert" /\ Inserting(Player(r)) = {}
  /\ pc' = [pc EXCEPT ![r] = IF RowOf(Player(r)) = {} THEN "inserted" ELSE "conflict"]
  /\ UNCHANGED <<provider, keyring, accounts, token, arrived, answer>>

\* _load_after_concurrent_insert: what the other has committed, brought up to date.
Reload(r) ==
  /\ pc[r] = "conflict"
  /\ \/ /\ RowOf(Player(r)) = {}
        /\ Refuse(r, "not synchronized")
        /\ UNCHANGED row
     \/ /\ RowOf(Player(r)) # {}
        /\ pc' = [pc EXCEPT ![r] = IF Renewed(r, Current(r)) = Current(r) THEN "read" ELSE "update"]
        /\ row' = [row EXCEPT ![r] = Renewed(r, Current(r))]
        /\ UNCHANGED answer
  /\ UNCHANGED <<provider, keyring, users, token, arrived>>

\* A row that another transaction has written is waited for.
Update(r) ==
  /\ pc[r] = "update" /\ ~\E q \in Requests : Writes(q, row[r])
  /\ pc' = [pc EXCEPT ![r] = "updated"]
  /\ UNCHANGED <<provider, keyring, accounts, token, arrived, answer>>

\* An insert adds the row; an update replaces the one of that id.
Commit(r) ==
  /\ pc[r] \in {"inserted", "updated", "read"}
  /\ users' = IF pc[r] = "read" THEN users ELSE {u \in users : u.id # row[r].id} \cup {row[r]}
  /\ pc' = [pc EXCEPT ![r] = "answered"]
  /\ answer' = [answer EXCEPT ![r] = [status |-> "ok", user |-> row[r]]]
  /\ UNCHANGED <<provider, keyring, row, token, arrived>>

\* Any statement, or the commit, fails and the transaction is rolled back.
DatabaseFails(r) ==
  /\ pc[r] \in {"select", "insert", "inserted", "conflict", "update", "updated", "read"}
  /\ Refuse(r, "not saved")
  /\ UNCHANGED <<provider, keyring, accounts, token, arrived>>

-----------------------------------------------------------------------------
(* The provider's keys and the clock *)

\* A key that was never listed before is added.
AddKey(k) ==
  /\ k \notin listed /\ withdrawn[k] = None
  /\ listed' = listed \cup {k}
  /\ UNCHANGED <<clock, withdrawn, keyring, accounts, pc, token, arrived, answer>>

WithdrawKey(k) ==
  /\ k \in listed /\ listed # {k}
  /\ listed' = listed \ {k}
  /\ withdrawn' = [withdrawn EXCEPT ![k] = clock]
  /\ UNCHANGED <<clock, keyring, accounts, pc, token, arrived, answer>>

Tick ==
  /\ clock < Horizon
  /\ clock' = clock + 1
  /\ UNCHANGED <<listed, withdrawn, keyring, accounts, pc, token, arrived, answer>>

-----------------------------------------------------------------------------

Init ==
  /\ clock = 0
  /\ listed \in {{k} : k \in Keys}
  /\ withdrawn = [k \in Keys |-> None]
  /\ cache = None /\ expires = 0 /\ lock = None
  /\ pc = [r \in Requests |-> "idle"]
  /\ token = [r \in Requests |-> None]
  /\ arrived = [r \in Requests |-> None]
  /\ forced = [r \in Requests |-> FALSE]
  /\ now = [r \in Requests |-> 0]
  /\ document = [r \in Requests |-> None]
  /\ row = [r \in Requests |-> None]
  /\ users = {}
  /\ answer = [r \in Requests |-> None]

Verify(r) == Arrive(r) \/ TakeLock(r) \/ Serve(r) \/ Keep(r) \/ FetchFails(r)
Synchronize(r) ==
  Select(r) \/ Insert(r) \/ Reload(r) \/ Update(r) \/ Commit(r) \/ DatabaseFails(r)

Next ==
  \/ \E r \in Requests : Verify(r) \/ Synchronize(r)
  \/ \E k \in Keys : AddKey(k) \/ WithdrawKey(k)
  \/ Tick

Spec == Init /\ [][Next]_vars

\* The lock is handed on, the fetch has a timeout, the database answers or fails.
FairSpec ==
  Spec /\ \A r \in Requests : WF_vars(TakeLock(r) \/ FetchFails(r) \/ Synchronize(r))

-----------------------------------------------------------------------------
(* Properties *)

Stages == {"idle", "lock", "fetching", "select", "insert", "inserted", "conflict", "update",
           "updated", "read", "answered"}
Documents == [keys : SUBSET Keys, at : Time]
Rows == [id : Requests, player : Players, email : Emails \cup {None}]

TypeOK ==
  /\ clock \in Time /\ listed \subseteq Keys
  /\ withdrawn \in [Keys -> Time \cup {None}]
  /\ cache \in Documents \cup {None} /\ expires \in Nat
  /\ lock \in Requests \cup {None}
  /\ pc \in [Requests -> Stages]
  /\ token \in [Requests -> Tokens \cup {None}]
  /\ arrived \in [Requests -> [at : Time, listed : SUBSET Keys] \cup {None}]
  /\ now \in [Requests -> Time]
  /\ forced \in [Requests -> BOOLEAN]
  /\ document \in [Requests -> Documents \cup {None}]
  /\ row \in [Requests -> Rows \cup {None}]
  /\ users \subseteq Rows
  /\ answer \in [Requests -> [status : Statuses, user : Rows \cup {None}] \cup {None}]

\* A key that the provider has withdrawn is not accepted for longer than the
\* time to live, however long a document was on its way: the key was listed
\* less than that ago, or after the request came.
WithdrawnKeyBounded ==
  [][\A r \in Requests : pc[r] # "select" /\ pc'[r] = "select" =>
       LET gone == withdrawn[token'[r].key]
       IN \/ token'[r].key \in listed
          \/ gone # None /\ (gone > clock - Ttl \/ gone >= arrived'[r].at)]_vars

\* A request is only told that its key is unknown if the provider did not list
\* that key all the while since it came: a rotation refuses nobody.
ListedKeyIsKnown ==
  [][\A r \in Requests : answer[r] = None /\ Said(r)' = "unknown key" =>
       ~(token'[r].key \in listed /\ token'[r].key \in arrived'[r].listed)]_vars

\* What is kept is never replaced by an older document, although any number of
\* requests may ask for one: they ask one after the other.
CacheNeverGoesBack == [][cache # None /\ cache' # cache => cache'.at >= cache.at]_vars

\* One identity is one user: whoever signs in for the first time in two requests
\* at once gets the same user in both, and neither is refused for it.
OneAccount ==
  /\ \A u, w \in users : u.player = w.player => u = w
  /\ \A r \in Requests :
       /\ Said(r) # "not synchronized"
       /\ Said(r) = "ok" => \E u \in RowOf(Player(r)) : u.id = answer[r].user.id

\* Every request is answered: the cache's lock is never left behind.
EveryRequestEnds == \A r \in Requests : pc[r] # "idle" ~> pc[r] = "answered"
=============================================================================
