--------------------------- MODULE Accounts_proofs ---------------------------
(* For any number of requests, players and keys, and any time to live: what a *)
(* process keeps of the provider's keys is bounded in age and never goes      *)
(* back, and one identity becomes one user.                                   *)
EXTENDS Accounts, TLAPS

Arrivals == [at : Time, listed : SUBSET Keys]

\* A request that has come has a token, and what was listed then is listed
\* still or has been withdrawn since.
Started(r) ==
  /\ pc[r] = "idle" => answer[r] = None /\ ~forced[r]
  /\ pc[r] # "idle" =>
       /\ token[r] \in Tokens /\ arrived[r] \in Arrivals
       /\ arrived[r].at <= clock
       /\ \A k \in arrived[r].listed : k \in listed \/ withdrawn[k] # None

\* A document of keys, dated when the provider gave it.
Dated(d) ==
  /\ d.at <= clock
  /\ \A k \in d.keys : k \in listed \/ (withdrawn[k] # None /\ withdrawn[k] >= d.at)

KeysInv ==
  /\ \A k \in listed : withdrawn[k] = None
  /\ cache # None => Dated(cache) /\ expires <= cache.at + Ttl

\* One request fetches at a time, and what it gets is newer than the cache.
Fetching(r) ==
  /\ pc[r] = "fetching" <=> lock = r
  /\ document[r] # None => pc[r] = "fetching"
  /\ pc[r] = "fetching" =>
       /\ arrived[r].at <= now[r] /\ now[r] <= clock
       /\ cache # None => cache.at <= now[r]
       /\ document[r] # None =>
            /\ Dated(document[r]) /\ now[r] <= document[r].at
            /\ \A k \in arrived[r].listed : k \in document[r].keys \/ withdrawn[k] # None

\* A row that stands for one in the table.
Stored(x) == \E u \in users : u.id = x.id /\ u.player = x.player

Synchronizing(r) ==
  /\ pc[r] \in {"insert", "inserted"} => row[r] = NewRow(r)
  /\ pc[r] = "inserted" => RowOf(Player(r)) = {}
  /\ pc[r] = "conflict" => RowOf(Player(r)) # {}
  /\ pc[r] \in {"update", "updated", "read"} =>
       row[r] \in Rows /\ row[r].player = Player(r) /\ Stored(row[r])
  /\ Said(r) # "not synchronized"
  /\ Said(r) = "ok" => \E u \in RowOf(Player(r)) : u.id = answer[r].user.id

\* The table, and the inserts that are not committed yet.
UsersInv ==
  /\ \A u \in users : pc[u.id] = "answered"
  /\ \A u, w \in users : u.player = w.player \/ u.id = w.id => u = w
  /\ \A r, q \in Requests :
       pc[r] = "inserted" /\ pc[q] = "inserted" /\ Player(r) = Player(q) => r = q

VerifierInv == KeysInv /\ \A r \in Requests : Fetching(r)
AccountsInv == UsersInv /\ \A r \in Requests : Synchronizing(r)
IInv == TypeOK /\ (\A r \in Requests : Started(r)) /\ VerifierInv /\ AccountsInv

-----------------------------------------------------------------------------
(* Types *)

LEMMA RefuseType ==
  ASSUME TypeOK, NEW r \in Requests, NEW why \in Statuses, Refuse(r, why)
  PROVE  /\ pc' \in [Requests -> Stages]
         /\ answer' \in [Requests -> [status : Statuses, user : Rows \cup {None}] \cup {None}]
<1> DEFINE A == [status : Statuses, user : Rows \cup {None}]
<1>1. [status |-> why, user |-> None] \in A OBVIOUS
<1>2. answer \in [Requests -> A \cup {None}] BY DEF TypeOK
<1> HIDE DEF A
<1>3. answer' \in [Requests -> A \cup {None}] BY <1>1, <1>2 DEF Refuse
<1>4. pc' \in [Requests -> Stages] BY DEF Refuse, TypeOK, Stages
<1> QED BY <1>3, <1>4 DEF A

LEMMA UseType ==
  ASSUME TypeOK, NEW r \in Requests, NEW t \in Tokens, NEW keys, Use(r, t, keys)
  PROVE  /\ pc' \in [Requests -> Stages]
         /\ forced' \in [Requests -> BOOLEAN]
         /\ answer' \in [Requests -> [status : Statuses, user : Rows \cup {None}] \cup {None}]
<1>1. ASSUME NEW why \in Statuses, Refuse(r, why)
      PROVE  /\ pc' \in [Requests -> Stages]
             /\ answer' \in [Requests -> [status : Statuses, user : Rows \cup {None}] \cup {None}]
  BY <1>1, RefuseType
<1>2. {"rejected", "unknown key"} \subseteq Statuses BY DEF Statuses
<1> QED BY <1>1, <1>2 DEF Use, TypeOK, Stages

LEMMA VerifyType ==
  ASSUME TypeOK, \A r \in Requests : Started(r), NEW r \in Requests, Verify(r)
  PROVE  TypeOK'
<1>1. ASSUME Arrive(r) PROVE TypeOK'
  <2>1. PICK t \in Tokens :
          /\ token' = [token EXCEPT ![r] = t]
          /\ \/ Fresh /\ Use(r, t, cache.keys)
             \/ ~Fresh /\ pc' = [pc EXCEPT ![r] = "lock"] /\ UNCHANGED <<forced, answer>>
    BY <1>1 DEF Arrive
  <2>2. /\ pc' \in [Requests -> Stages]
        /\ forced' \in [Requests -> BOOLEAN]
        /\ answer' \in [Requests -> [status : Statuses, user : Rows \cup {None}] \cup {None}]
    BY <2>1, UseType DEF TypeOK, Stages
  <2> QED BY <1>1, <2>1, <2>2 DEF Arrive, TypeOK, accounts, provider
<1>2. ASSUME TakeLock(r) PROVE TypeOK'
  <2>1. token[r] \in Tokens BY <1>2 DEF TakeLock, Started
  <2>2. CASE Fresh /\ ~forced[r] /\ Use(r, token[r], cache.keys) /\ UNCHANGED <<lock, now>>
    BY <1>2, <2>1, <2>2, UseType DEF TakeLock, TypeOK, accounts, provider
  <2>3. CASE Fetch(r)
    BY <1>2, <2>3 DEF TakeLock, Fetch, TypeOK, accounts, provider, Stages
  <2> QED BY <1>2, <2>2, <2>3 DEF TakeLock
<1>3. ASSUME Serve(r) PROVE TypeOK'
  BY <1>3 DEF Serve, TypeOK, accounts, provider, Documents
<1>4. ASSUME Keep(r) PROVE TypeOK'
  <2>1. token[r] \in Tokens BY <1>4 DEF Keep, Started
  <2>2. expires' \in Nat BY <1>4, TtlAssumption DEF Keep, TypeOK, Time
  <2> QED BY <1>4, <2>1, <2>2, UseType DEF Keep, TypeOK, accounts, provider
<1>5. ASSUME FetchFails(r) PROVE TypeOK'
  BY <1>5 DEF FetchFails, Refuse, TypeOK, accounts, provider, Stages, Statuses
<1> QED BY <1>1, <1>2, <1>3, <1>4, <1>5 DEF Verify

LEMMA TokenFields ==
  ASSUME NEW t \in Tokens
  PROVE  t.player \in Players /\ t.email \in Emails \cup {None} /\ t.key \in Keys
BY TokensAssumption

\* What Select and Reload make of the row they find.
LEMMA Found ==
  ASSUME TypeOK, NEW r \in Requests, token[r] \in Tokens, RowOf(Player(r)) # {}
  PROVE  /\ Current(r) \in users /\ Current(r).player = Player(r)
         /\ Renewed(r, Current(r)) \in Rows
         /\ Renewed(r, Current(r)).id = Current(r).id
         /\ Renewed(r, Current(r)).player = Player(r)
<1>1. Current(r) \in RowOf(Player(r)) BY DEF Current
<1>2. Current(r) \in Rows /\ Current(r) \in users /\ Current(r).player = Player(r)
  BY <1>1 DEF RowOf, TypeOK
<1> QED BY <1>2, TokenFields DEF Renewed, Rows

LEMMA SynchronizeType ==
  ASSUME TypeOK, \A r \in Requests : Started(r), \A r \in Requests : Synchronizing(r),
         NEW r \in Requests, Synchronize(r)
  PROVE  TypeOK'
<1> pc[r] # "idle"
  BY DEF Synchronize, Select, Insert, Reload, Update, Commit, DatabaseFails
<1> token[r] \in Tokens BY DEF Started
<1>1. NewRow(r) \in Rows BY TokenFields DEF NewRow, Player, Rows
<1>2. ASSUME Select(r) PROVE TypeOK'
  BY <1>1, <1>2, Found DEF Select, TypeOK, provider, keyring, Stages
<1>3. ASSUME Insert(r) PROVE TypeOK'
  BY <1>3 DEF Insert, TypeOK, provider, keyring, accounts, Stages
<1>4. ASSUME Reload(r) PROVE TypeOK'
  <2>1. "not synchronized" \in Statuses BY DEF Statuses
  <2>2. CASE Refuse(r, "not synchronized") /\ UNCHANGED row
    BY <1>4, <2>1, <2>2, RefuseType DEF Reload, TypeOK, provider, keyring
  <2>3. CASE RowOf(Player(r)) # {}
    BY <1>4, <2>3, Found DEF Reload, TypeOK, provider, keyring, Stages
  <2> QED BY <1>4, <2>2, <2>3 DEF Reload
<1>5. ASSUME Update(r) PROVE TypeOK'
  BY <1>5 DEF Update, TypeOK, provider, keyring, accounts, Stages
<1>6. ASSUME Commit(r) PROVE TypeOK'
  <2>1. row[r] \in Rows BY <1>1, <1>6 DEF Commit, Synchronizing
  <2> QED BY <1>6, <2>1 DEF Commit, TypeOK, provider, keyring, Stages, Statuses
<1>7. ASSUME DatabaseFails(r) PROVE TypeOK'
  BY <1>7 DEF DatabaseFails, Refuse, TypeOK, provider, keyring, accounts, Stages, Statuses
<1> QED BY <1>2, <1>3, <1>4, <1>5, <1>6, <1>7 DEF Synchronize

LEMMA WorldType ==
  ASSUME TypeOK, (\E k \in Keys : AddKey(k) \/ WithdrawKey(k)) \/ Tick
  PROVE  TypeOK'
<1>1. ASSUME NEW k \in Keys, AddKey(k) PROVE TypeOK'
  BY <1>1 DEF AddKey, TypeOK, keyring, accounts
<1>2. ASSUME NEW k \in Keys, WithdrawKey(k) PROVE TypeOK'
  BY <1>2 DEF WithdrawKey, TypeOK, keyring, accounts
<1>3. ASSUME Tick PROVE TypeOK'
  BY <1>3, TtlAssumption DEF Tick, TypeOK, keyring, accounts, Time
<1> QED BY <1>1, <1>2, <1>3

-----------------------------------------------------------------------------
(* The verifier *)

LEMMA NoneIsNoRequest == None \notin Requests /\ \A n \in Nat : n # None
BY NoneAssumption

\* Using keys changes only the request's own place.
LEMMA UseFrame ==
  ASSUME TypeOK, NEW r \in Requests, NEW t, NEW keys, Use(r, t, keys)
  PROVE  /\ \A q \in Requests \ {r} : pc'[q] = pc[q] /\ forced'[q] = forced[q] /\ answer'[q] = answer[q]
         /\ pc'[r] \in {"select", "lock", "answered"}
         /\ pc'[r] = "select" => t.key \in keys
         /\ forced[r] => pc'[r] # "lock" /\ forced'[r]
         /\ Said(r)' = "unknown key" => answer' = answer \/ (forced[r] /\ t.key \notin keys)
         /\ \/ answer'[r] = answer[r]
            \/ answer'[r] \in {[status |-> "rejected", user |-> None],
                               [status |-> "unknown key", user |-> None]}
<1>1. CASE t.key \in keys /\ pc' = [pc EXCEPT ![r] = "select"] /\ UNCHANGED <<forced, answer>>
  BY <1>1 DEF TypeOK
<1>2. CASE Refuse(r, "rejected") /\ UNCHANGED forced
  <2>1. answer'[r] = [status |-> "rejected", user |-> None] BY <1>2 DEF Refuse, TypeOK
  <2>2. Said(r)' # "unknown key" BY <2>1 DEF Said
  <2> QED BY <1>2, <2>1, <2>2 DEF Refuse, TypeOK
<1>3. CASE ~forced[r] /\ pc' = [pc EXCEPT ![r] = "lock"] /\ forced' = [forced EXCEPT ![r] = TRUE]
           /\ UNCHANGED answer
  BY <1>3 DEF TypeOK
<1>4. CASE t.key \notin keys /\ forced[r] /\ Refuse(r, "unknown key") /\ UNCHANGED forced
  BY <1>4 DEF Refuse, TypeOK
<1> QED BY <1>1, <1>2, <1>3, <1>4 DEF Use

LEMMA StartedStep ==
  ASSUME IInv, [Next]_vars
  PROVE  (\A r \in Requests : Started(r))'
<1> USE DEF IInv
<1>1. ASSUME NEW q \in Requests, Verify(q), NEW r \in Requests PROVE Started(r)'
  <2>1. UNCHANGED provider
    BY <1>1 DEF Verify, Arrive, TakeLock, Serve, Keep, FetchFails, provider
  <2>2. CASE Arrive(q)
    <3>1. PICK t \in Tokens :
            /\ token' = [token EXCEPT ![q] = t]
            /\ \/ Fresh /\ Use(q, t, cache.keys)
               \/ ~Fresh /\ pc' = [pc EXCEPT ![q] = "lock"] /\ UNCHANGED <<forced, answer>>
      BY <2>2 DEF Arrive
    <3>2. pc'[q] # "idle" /\ \A p \in Requests \ {q} :
            pc'[p] = pc[p] /\ forced'[p] = forced[p] /\ answer'[p] = answer[p]
      BY <3>1, UseFrame DEF TypeOK
    <3>3. arrived' = [arrived EXCEPT ![q] = [at |-> clock, listed |-> listed]] BY <2>2 DEF Arrive
    <3>4. token'[q] \in Tokens /\ \A p \in Requests \ {q} : token'[p] = token[p]
      BY <3>1 DEF TypeOK
    <3>5. CASE r = q
      <4>1. arrived'[q] = [at |-> clock, listed |-> listed] BY <3>3 DEF TypeOK
      <4> QED BY <2>1, <3>2, <3>4, <3>5, <4>1 DEF Started, TypeOK, Arrivals, provider, Time
    <3>6. CASE r # q
      BY <2>1, <3>2, <3>3, <3>4, <3>6 DEF Started, TypeOK, provider
    <3> QED BY <3>5, <3>6
  <2>3. ASSUME UNCHANGED <<token, arrived>>,
               pc[q] # "idle", pc'[q] # "idle",
               \A p \in Requests \ {q} : pc'[p] = pc[p] /\ forced'[p] = forced[p] /\ answer'[p] = answer[p]
        PROVE  Started(r)'
    BY <2>1, <2>3 DEF Started, provider
  <2>4. CASE TakeLock(q) BY <2>3, <2>4, UseFrame DEF TakeLock, Fetch, TypeOK
  <2>5. CASE Serve(q) BY <2>3, <2>5 DEF Serve
  <2>6. CASE Keep(q) BY <2>3, <2>6, UseFrame DEF Keep
  <2>7. CASE FetchFails(q) BY <2>3, <2>7 DEF FetchFails, Refuse, TypeOK
  <2> QED BY <1>1, <2>2, <2>4, <2>5, <2>6, <2>7 DEF Verify
<1>2. ASSUME NEW q \in Requests, Synchronize(q), NEW r \in Requests PROVE Started(r)'
  <2>1. UNCHANGED <<provider, token, arrived, forced>>
    BY <1>2 DEF Synchronize, Select, Insert, Reload, Update, Commit, DatabaseFails, keyring
  <2>2. pc[q] # "idle" /\ pc'[q] # "idle" /\
        \A p \in Requests \ {q} : pc'[p] = pc[p] /\ answer'[p] = answer[p]
    BY <1>2 DEF Synchronize, Select, Insert, Reload, Update, Commit, DatabaseFails, Refuse, TypeOK
  <2> QED BY <2>1, <2>2 DEF Started, provider
<1>3. ASSUME NEW k \in Keys, AddKey(k) \/ WithdrawKey(k), NEW r \in Requests PROVE Started(r)'
  <2>1. UNCHANGED <<pc, token, arrived, answer, forced>> BY <1>3 DEF AddKey, WithdrawKey, keyring
  <2>2. clock' = clock /\ \A x \in Keys : x \in listed \/ withdrawn[x] # None
                          => x \in listed' \/ withdrawn'[x] # None
    BY <1>3, NoneIsNoRequest DEF AddKey, WithdrawKey, TypeOK, Time
  <2>3. CASE pc[r] = "idle" BY <2>1, <2>3 DEF Started
  <2>4. CASE pc[r] # "idle"
    <3>1. arrived[r] \in Arrivals /\ arrived[r].at <= clock BY <2>4 DEF Started
    <3>2. arrived[r].listed \subseteq Keys /\ arrived[r].at \in Time BY <3>1 DEF Arrivals
    <3>3. clock \in Nat /\ clock' \in Nat /\ arrived[r].at \in Nat
      BY <1>3, <3>2, TtlAssumption DEF TypeOK, Time, AddKey, WithdrawKey
    <3> QED BY <2>1, <2>2, <2>4, <3>1, <3>2, <3>3 DEF Started
  <2> QED BY <2>3, <2>4
<1>4. ASSUME Tick, NEW r \in Requests PROVE Started(r)'
  <2>1. UNCHANGED <<pc, token, arrived, answer, forced, listed, withdrawn>> BY <1>4 DEF Tick, keyring
  <2>2. clock' = clock + 1 /\ clock \in Nat BY <1>4 DEF Tick, TypeOK, Time
  <2>3. pc[r] # "idle" => arrived[r].at \in Nat BY DEF Started, Arrivals, Time
  <2> QED BY <2>1, <2>2, <2>3 DEF Started
<1>5. CASE UNCHANGED vars BY <1>5 DEF Started, vars, provider, keyring
<1> QED BY <1>1, <1>2, <1>3, <1>4, <1>5 DEF Next

\* What is left alone outside the verifier.
LEMMA KeyringKept ==
  ASSUME IInv, NEW q \in Requests, Synchronize(q)
  PROVE  /\ UNCHANGED <<provider, keyring, arrived>>
         /\ \A p \in Requests : pc[p] = "fetching" <=> pc'[p] = "fetching"
BY DEF Synchronize, Select, Insert, Reload, Update, Commit, DatabaseFails, Refuse, keyring,
       IInv, TypeOK

\* Documents stay dated when keys come and go and time passes.
LEMMA DatedStep ==
  ASSUME TypeOK, NEW d, d \in Documents, Dated(d),
         (\E k \in Keys : AddKey(k) \/ WithdrawKey(k)) \/ Tick
  PROVE  Dated(d)'
<1> USE DEF Dated, Documents, TypeOK, Time
<1>1. d.at \in Nat /\ clock \in Nat BY TtlAssumption
<1>2. ASSUME NEW k \in Keys, AddKey(k) PROVE Dated(d)' BY <1>2 DEF AddKey
<1>3. ASSUME NEW k \in Keys, WithdrawKey(k) PROVE Dated(d)'
  BY <1>1, <1>3, NoneIsNoRequest DEF WithdrawKey
<1>4. CASE Tick BY <1>1, <1>4 DEF Tick
<1> QED BY <1>2, <1>3, <1>4

LEMMA VerifierStep ==
  ASSUME IInv, TypeOK', [Next]_vars
  PROVE  VerifierInv'
<1> TypeOK /\ VerifierInv /\ \A r \in Requests : Started(r) BY DEF IInv
<1> KeysInv /\ \A r \in Requests : Fetching(r) BY DEF VerifierInv
<1> SUFFICES KeysInv' /\ \A r \in Requests : Fetching(r)'
  BY DEF VerifierInv
<1>a. clock \in Nat /\ clock' \in Nat /\ expires \in Nat /\ Ttl \in Nat
      /\ (\A r \in Requests : now[r] \in Nat) /\ (cache # None => cache \in Documents)
      /\ \A r \in Requests : document[r] # None => document[r] \in Documents
  BY TtlAssumption DEF TypeOK, Time
<1>b. \A d \in Documents : d.at \in Nat /\ d.keys \subseteq Keys BY TtlAssumption DEF Documents, Time
<1>c. \A r \in Requests : pc[r] = "fetching" => arrived[r].at \in Nat /\ arrived[r].listed \subseteq Keys
  BY DEF Started, Arrivals, Time
<1>1. ASSUME NEW q \in Requests, Synchronize(q) PROVE KeysInv' /\ \A r \in Requests : Fetching(r)'
  BY <1>1, KeyringKept DEF KeysInv, Fetching, Dated, provider, keyring
<1>2. ASSUME NEW q \in Requests, Arrive(q) PROVE KeysInv' /\ \A r \in Requests : Fetching(r)'
  <2>1. UNCHANGED <<cache, expires, lock, now, document, provider>> BY <1>2 DEF Arrive
  <2>2. pc[q] = "idle" /\ pc'[q] # "fetching" /\ \A p \in Requests \ {q} : pc'[p] = pc[p]
    BY <1>2, UseFrame DEF Arrive, TypeOK
  <2>3. \A p \in Requests \ {q} : arrived'[p] = arrived[p] BY <1>2 DEF Arrive, TypeOK
  <2> QED BY <2>1, <2>2, <2>3 DEF KeysInv, Fetching, Dated, provider
<1>3. ASSUME NEW q \in Requests, TakeLock(q) PROVE KeysInv' /\ \A r \in Requests : Fetching(r)'
  <2>1. UNCHANGED <<cache, expires, document, arrived, provider>> /\ pc[q] = "lock" /\ lock = None
    BY <1>3 DEF TakeLock
  <2>2. CASE Use(q, token[q], cache.keys) /\ UNCHANGED <<lock, now>>
    <3>1. pc'[q] # "fetching" /\ \A p \in Requests \ {q} : pc'[p] = pc[p]
      BY <2>2, UseFrame
    <3>2. \A p \in Requests : pc[p] # "fetching" /\ lock # p
      BY <2>1, NoneIsNoRequest DEF Fetching
    <3>3. KeysInv' BY <2>1 DEF KeysInv, Dated, provider
    <3> QED BY <2>1, <2>2, <3>1, <3>2, <3>3 DEF Fetching
  <2>3. CASE Fetch(q)
    <3>1. now'[q] = clock /\ lock' = q /\ pc'[q] = "fetching"
          /\ \A p \in Requests \ {q} : pc'[p] = pc[p] /\ now'[p] = now[p]
      BY <2>3 DEF Fetch, TypeOK
    <3>2. document[q] = None /\ \A p \in Requests : pc[p] # "fetching"
      BY <2>1, NoneIsNoRequest DEF Fetching
    <3>3. arrived[q].at <= clock BY <2>1 DEF Started
    <3> QED BY <2>1, <3>1, <3>2, <3>3, <1>a DEF KeysInv, Fetching, Dated, provider
  <2> QED BY <1>3, <2>2, <2>3 DEF TakeLock
<1>4. ASSUME NEW q \in Requests, Serve(q) PROVE KeysInv' /\ \A r \in Requests : Fetching(r)'
  <2>1. UNCHANGED <<cache, expires, lock, now, arrived, pc, provider>> BY <1>4 DEF Serve
  <2>2. document'[q] = [keys |-> listed, at |-> clock] /\ pc[q] = "fetching"
        /\ \A p \in Requests \ {q} : document'[p] = document[p]
    BY <1>4 DEF Serve, TypeOK
  <2>3. \A k \in arrived[q].listed : k \in listed \/ withdrawn[k] # None BY <2>2 DEF Started
  <2>4. now[q] <= clock BY <2>2 DEF Fetching
  <2> QED BY <2>1, <2>2, <2>3, <2>4, <1>a DEF KeysInv, Fetching, Dated, provider
<1>5. ASSUME NEW q \in Requests, Keep(q) PROVE KeysInv' /\ \A r \in Requests : Fetching(r)'
  <2>1. UNCHANGED <<now, arrived, provider>> /\ pc[q] = "fetching" /\ document[q] # None
        /\ lock' = None /\ cache' = document[q] /\ expires' = now[q] + Ttl
    BY <1>5 DEF Keep
  <2>2. document'[q] = None /\ \A p \in Requests \ {q} : document'[p] = document[p]
    BY <1>5 DEF Keep, TypeOK
  <2>3. pc'[q] # "fetching" /\ \A p \in Requests \ {q} : pc'[p] = pc[p]
    BY <1>5, UseFrame DEF Keep
  <2>4. \A p \in Requests \ {q} : pc[p] # "fetching" BY <2>1 DEF Fetching
  <2>5. Dated(document[q]) /\ now[q] <= document[q].at BY <2>1 DEF Fetching
  <2>6. KeysInv' BY <2>1, <2>5, <1>a, <1>b DEF KeysInv, Dated, provider
  <2> QED BY <2>1, <2>2, <2>3, <2>4, <2>6, NoneIsNoRequest DEF Fetching
<1>6. ASSUME NEW q \in Requests, FetchFails(q) PROVE KeysInv' /\ \A r \in Requests : Fetching(r)'
  <2>1. UNCHANGED <<cache, expires, now, arrived, provider>> /\ pc[q] = "fetching" /\ lock' = None
    BY <1>6 DEF FetchFails
  <2>2. document'[q] = None /\ pc'[q] # "fetching"
        /\ \A p \in Requests \ {q} : document'[p] = document[p] /\ pc'[p] = pc[p]
    BY <1>6 DEF FetchFails, Refuse, TypeOK
  <2>3. \A p \in Requests \ {q} : pc[p] # "fetching" BY <2>1 DEF Fetching
  <2>4. KeysInv' BY <2>1 DEF KeysInv, Dated, provider
  <2> QED BY <2>1, <2>2, <2>3, <2>4, NoneIsNoRequest DEF Fetching
<1>7. ASSUME (\E k \in Keys : AddKey(k) \/ WithdrawKey(k)) \/ Tick
      PROVE  KeysInv' /\ \A r \in Requests : Fetching(r)'
  <2>1. UNCHANGED <<cache, expires, lock, now, document, arrived, pc>>
    BY <1>7 DEF AddKey, WithdrawKey, Tick, keyring
  <2>2. clock <= clock' /\ \A k \in Keys : withdrawn[k] # None => withdrawn'[k] # None
    BY <1>7, <1>a, NoneIsNoRequest DEF AddKey, WithdrawKey, Tick, TypeOK
  <2>3. \A k \in listed' : withdrawn'[k] = None
    BY <1>7 DEF AddKey, WithdrawKey, Tick, KeysInv, TypeOK
  <2>4. \A d \in Documents : Dated(d) => Dated(d)' BY <1>7, DatedStep
  <2>5. KeysInv' BY <2>1, <2>3, <2>4, <1>a DEF KeysInv
  <2>6. ASSUME NEW r \in Requests PROVE Fetching(r)'
    BY <2>1, <2>2, <2>4, <1>a, <1>b, <1>c DEF Fetching
  <2> QED BY <2>5, <2>6
<1>8. CASE UNCHANGED vars
  BY <1>8 DEF KeysInv, Fetching, Dated, vars, provider, keyring
<1> QED BY <1>1, <1>2, <1>3, <1>4, <1>5, <1>6, <1>7, <1>8 DEF Next, Verify

-----------------------------------------------------------------------------
(* The table of users *)

\* What verification leaves alone, and where it brings a request.
LEMMA AccountsKept ==
  ASSUME IInv, NEW q \in Requests, Verify(q)
  PROVE  /\ UNCHANGED <<row, users>>
         /\ \A p \in Requests \ {q} : pc'[p] = pc[p] /\ token'[p] = token[p] /\ answer'[p] = answer[p]
         /\ pc[q] \in {"idle", "lock", "fetching"}
         /\ pc'[q] \in {"lock", "fetching", "select", "answered"}
         /\ answer'[q] = answer[q] \/ Said(q)' \in {"nothing", "rejected", "unknown key", "keys unavailable"}
         /\ pc[q] # "idle" => token' = token
         /\ pc[q] = "idle" => Said(q) = "nothing"
<1> TypeOK /\ Started(q) BY DEF IInv
<1>1. UNCHANGED <<row, users>>
  BY DEF Verify, Arrive, TakeLock, Serve, Keep, FetchFails, accounts
<1>2. pc[q] \in {"idle", "lock", "fetching"} /\ (pc[q] # "idle" => token' = token)
  BY DEF Verify, Arrive, TakeLock, Serve, Keep, FetchFails
<1>3. pc[q] = "idle" => Said(q) = "nothing" BY DEF Started, Said
<1>4. \A p \in Requests \ {q} : token'[p] = token[p]
  BY DEF Verify, Arrive, TakeLock, Serve, Keep, FetchFails, TypeOK
<1> DEFINE Goal ==
      /\ \A p \in Requests \ {q} : pc'[p] = pc[p] /\ answer'[p] = answer[p]
      /\ pc'[q] \in {"lock", "fetching", "select", "answered"}
      /\ answer'[q] = answer[q] \/ Said(q)' \in {"nothing", "rejected", "unknown key", "keys unavailable"}
<1>a. \A why : answer'[q] = [status |-> why, user |-> None] => Said(q)' \in {"nothing", why}
  BY DEF Said
<1>5. ASSUME NEW t, NEW keys, Use(q, t, keys) PROVE Goal
  BY <1>5, <1>a, UseFrame
<1>6. ASSUME UNCHANGED answer, pc' \in {[pc EXCEPT ![q] = "lock"], [pc EXCEPT ![q] = "fetching"]}
      PROVE  Goal
  BY <1>6 DEF Said, TypeOK
<1>7. Serve(q) => Goal BY DEF Serve, Said
<1>8. ASSUME FetchFails(q) PROVE Goal
  <2>1. answer'[q] = [status |-> "keys unavailable", user |-> None]
    BY <1>8 DEF FetchFails, Refuse, TypeOK
  <2>2. Said(q)' \in {"nothing", "keys unavailable"} BY <1>a, <2>1
  <2> QED BY <1>8, <2>2 DEF FetchFails, Refuse, TypeOK
<1> HIDE DEF Goal
<1>9. Goal BY <1>5, <1>6, <1>7, <1>8 DEF Verify, Arrive, TakeLock, Fetch, Keep
<1> QED BY <1>1, <1>2, <1>3, <1>4, <1>9 DEF Goal

\* A request that takes no step keeps its invariant while rows are only added
\* or renewed, and nobody else inserts its player's.
LEMMA SynchronizingKept ==
  ASSUME NEW r \in Requests, Synchronizing(r),
         pc'[r] = pc[r], row'[r] = row[r], answer'[r] = answer[r], token'[r] = token[r],
         \A u \in users : \E w \in users' : w.id = u.id /\ w.player = u.player,
         pc[r] = "inserted" => RowOf(Player(r))' = {}
  PROVE  Synchronizing(r)'
<1>1. Said(r)' = Said(r) /\ NewRow(r)' = NewRow(r) /\ Player(r)' = Player(r) BY DEF Said, NewRow, Player
<1>2. Stored(row[r]) => Stored(row[r])' BY DEF Stored
<1>3. RowOf(Player(r)) # {} => RowOf(Player(r))' # {} BY <1>1 DEF RowOf
<1>4. ASSUME NEW u \in RowOf(Player(r)), u.id = answer[r].user.id
      PROVE  \E w \in RowOf(Player(r))' : w.id = answer'[r].user.id
  <2>1. PICK w \in users' : w.id = u.id /\ w.player = u.player BY DEF RowOf
  <2>2. w \in RowOf(Player(r))' BY <1>1, <2>1 DEF RowOf
  <2> QED BY <1>4, <2>1, <2>2
<1> QED BY <1>1, <1>2, <1>3, <1>4 DEF Synchronizing

LEMMA AccountsStep ==
  ASSUME IInv, TypeOK', [Next]_vars
  PROVE  AccountsInv'
<1> TypeOK /\ AccountsInv /\ \A r \in Requests : Started(r) BY DEF IInv
<1> UsersInv /\ \A r \in Requests : Synchronizing(r) BY DEF AccountsInv
<1> SUFFICES UsersInv' /\ \A r \in Requests : Synchronizing(r)'
  BY DEF AccountsInv
<1>1. ASSUME NEW q \in Requests, Verify(q) PROVE UsersInv' /\ \A r \in Requests : Synchronizing(r)'
  <2>1. /\ UNCHANGED <<row, users>>
        /\ \A p \in Requests \ {q} : pc'[p] = pc[p] /\ token'[p] = token[p] /\ answer'[p] = answer[p]
        /\ pc[q] \in {"idle", "lock", "fetching"}
        /\ pc'[q] \in {"lock", "fetching", "select", "answered"}
        /\ answer'[q] = answer[q] \/ Said(q)' \in {"nothing", "rejected", "unknown key", "keys unavailable"}
        /\ pc[q] # "idle" => token' = token
        /\ pc[q] = "idle" => Said(q) = "nothing"
    BY <1>1, AccountsKept
  <2>2. \A u \in users' : pc'[u.id] = "answered" BY <2>1 DEF UsersInv, TypeOK, Rows
  <2>3. ASSUME NEW r \in Requests, NEW p \in Requests,
               pc'[r] = "inserted", pc'[p] = "inserted", Player(r)' = Player(p)'
        PROVE  r = p
    <3>1. r # q /\ p # q /\ pc[r] = "inserted" /\ pc[p] = "inserted" BY <2>1, <2>3
    <3>2. Player(r)' = Player(r) /\ Player(p)' = Player(p) BY <2>1, <3>1 DEF Player
    <3> QED BY <2>3, <3>1, <3>2 DEF UsersInv
  <2>4. UsersInv' BY <2>1, <2>2, <2>3 DEF UsersInv
  <2>5. ASSUME NEW r \in Requests \ {q} PROVE Synchronizing(r)'
    <3>1. Synchronizing(r) /\ (pc[r] = "inserted" => RowOf(Player(r)) = {}) BY DEF Synchronizing
    <3>2. RowOf(Player(r))' = RowOf(Player(r)) BY <2>1 DEF RowOf, Player
    <3> QED BY <2>1, <3>1, <3>2, SynchronizingKept
  <2>6. Synchronizing(q)'
    <3>1. Said(q)' = "ok" => answer'[q] = answer[q] BY <2>1
    <3>2. Said(q)' = "ok" => Said(q) = "ok" /\ pc[q] # "idle" BY <2>1, <3>1 DEF Said
    <3>3. pc[q] # "idle" => RowOf(Player(q))' = RowOf(Player(q)) BY <2>1 DEF RowOf, Player
    <3>4. Said(q)' # "not synchronized" BY <2>1 DEF Synchronizing, Said
    <3>5. Said(q)' = "ok" => \E u \in RowOf(Player(q))' : u.id = answer'[q].user.id
      BY <3>1, <3>2, <3>3 DEF Synchronizing
    <3> QED BY <2>1, <3>4, <3>5 DEF Synchronizing
  <2> QED BY <2>4, <2>5, <2>6
<1>2. ASSUME NEW q \in Requests, Synchronize(q) PROVE UsersInv' /\ \A r \in Requests : Synchronizing(r)'
  <2>1. token' = token /\ pc[q] \notin {"idle", "answered"}
        /\ \A p \in Requests \ {q} : pc'[p] = pc[p] /\ row'[p] = row[p] /\ answer'[p] = answer[p]
    BY <1>2 DEF Synchronize, Select, Insert, Reload, Update, Commit, DatabaseFails, Refuse,
                accounts, TypeOK
  <2>2. token[q] \in Tokens BY <2>1 DEF Started
  <2>3. \A p : Player(p)' = Player(p) BY <2>1 DEF Player
  <2>4. \A u \in users : u.id # q BY <2>1 DEF UsersInv
  <2>5. ASSUME users' = users, Synchronizing(q)',
               pc'[q] = "inserted" => Inserting(Player(q)) = {}
        PROVE  UsersInv' /\ \A r \in Requests : Synchronizing(r)'
    <3>2. ASSUME NEW r \in Requests \ {q} PROVE Synchronizing(r)'
      <4>1. Synchronizing(r) /\ (pc[r] = "inserted" => RowOf(Player(r)) = {}) BY DEF Synchronizing
      <4>2. RowOf(Player(r))' = RowOf(Player(r)) BY <2>3, <2>5 DEF RowOf
      <4> QED BY <2>1, <2>5, <4>1, <4>2, SynchronizingKept
    <3>3. \A u \in users' : pc'[u.id] = "answered"
      BY <2>1, <2>4, <2>5 DEF UsersInv, TypeOK, Rows
    <3>4. ASSUME NEW r \in Requests, NEW p \in Requests,
                 pc'[r] = "inserted", pc'[p] = "inserted", Player(r)' = Player(p)'
          PROVE  r = p
      <4>1. CASE r # q /\ p # q BY <2>1, <2>3, <3>4, <4>1 DEF UsersInv
      <4>2. CASE r = q /\ p # q
        <5>1. p \in Inserting(Player(q)) BY <2>1, <2>3, <3>4, <4>2 DEF Inserting
        <5> QED BY <2>5, <3>4, <4>2, <5>1
      <4>3. CASE r # q /\ p = q
        <5>1. r \in Inserting(Player(q)) BY <2>1, <2>3, <3>4, <4>3 DEF Inserting
        <5> QED BY <2>5, <3>4, <4>3, <5>1
      <4> QED BY <4>1, <4>2, <4>3
    <3> QED BY <2>5, <3>2, <3>3, <3>4 DEF UsersInv
  <2>6. ASSUME NEW why \in {"not saved", "not synchronized"}, Refuse(q, why)
        PROVE  pc'[q] = "answered" /\ Said(q)' \in {"nothing", why}
    BY <2>6 DEF Refuse, Said, TypeOK
  <2>7. ASSUME Select(q) \/ Reload(q) PROVE UsersInv' /\ \A r \in Requests : Synchronizing(r)'
    <3>1. RowOf(Player(q)) = {} => Select(q) /\ pc'[q] = "insert" /\ row'[q] = NewRow(q)
      BY <2>7 DEF Select, Reload, Synchronizing, TypeOK
    <3>2. ASSUME RowOf(Player(q)) # {}
          PROVE  pc'[q] \in {"read", "update"} /\ row'[q] = Renewed(q, Current(q))
      BY <2>7, <3>2 DEF Select, Reload, TypeOK
    <3>3. users' = users /\ Said(q)' = Said(q)
      BY <2>7, <3>1 DEF Select, Reload, Refuse, Said
    <3>4. NewRow(q)' = NewRow(q) BY <2>1, <2>3 DEF NewRow
    <3>5. Synchronizing(q)'
      <4>1. CASE RowOf(Player(q)) = {}
        BY <3>1, <3>3, <3>4, <4>1, <2>3, <2>7 DEF Synchronizing, RowOf, Select, keyring
      <4>2. CASE RowOf(Player(q)) # {}
        <5>1. /\ Current(q) \in users /\ Current(q).player = Player(q)
              /\ row'[q] \in Rows /\ row'[q].id = Current(q).id /\ row'[q].player = Player(q)
          BY <2>2, <3>2, <4>2, Found
        <5>2. Stored(row[q])' BY <3>3, <5>1 DEF Stored
        <5>3. answer' = answer BY <2>7, <4>2 DEF Select, Reload
        <5> QED BY <2>3, <3>2, <3>3, <4>2, <5>1, <5>2, <5>3 DEF Synchronizing, RowOf
      <4> QED BY <4>1, <4>2
    <3> QED BY <2>5, <3>1, <3>2, <3>3, <3>5
  <2>8. ASSUME Insert(q) PROVE UsersInv' /\ \A r \in Requests : Synchronizing(r)'
    <3>1. users' = users /\ UNCHANGED <<row, answer>> /\ Inserting(Player(q)) = {}
          /\ pc[q] = "insert" /\ pc'[q] \in {"inserted", "conflict"}
          /\ (pc'[q] = "inserted" <=> RowOf(Player(q)) = {})
      BY <2>8 DEF Insert, accounts, TypeOK
    <3>2. NewRow(q)' = NewRow(q) /\ Said(q)' = Said(q) BY <2>1, <2>3, <3>1 DEF NewRow, Said
    <3>3. Synchronizing(q)' BY <2>3, <3>1, <3>2 DEF Synchronizing, RowOf
    <3> QED BY <2>5, <3>1, <3>3
  <2>9. ASSUME Update(q) PROVE UsersInv' /\ \A r \in Requests : Synchronizing(r)'
    <3>1. users' = users /\ UNCHANGED <<row, answer>> /\ pc[q] = "update" /\ pc'[q] = "updated"
      BY <2>9 DEF Update, accounts, TypeOK
    <3>2. Synchronizing(q)' BY <2>3, <3>1 DEF Synchronizing, RowOf, Stored, Said
    <3> QED BY <2>5, <3>1, <3>2
  <2>10. ASSUME DatabaseFails(q) PROVE UsersInv' /\ \A r \in Requests : Synchronizing(r)'
    <3>1. users' = users BY <2>10 DEF DatabaseFails, accounts
    <3>2. pc'[q] = "answered" /\ Said(q)' \in {"nothing", "not saved"} BY <2>6, <2>10 DEF DatabaseFails
    <3>3. Synchronizing(q)' BY <3>2 DEF Synchronizing
    <3> QED BY <2>5, <3>1, <3>2, <3>3
  <2>11. ASSUME Commit(q) PROVE UsersInv' /\ \A r \in Requests : Synchronizing(r)'
    <3>1. pc'[q] = "answered" /\ UNCHANGED row /\ answer'[q] = [status |-> "ok", user |-> row[q]]
      BY <2>11 DEF Commit, TypeOK
    <3>2. row[q].player = Player(q) /\ (pc[q] = "inserted" => row[q].id = q)
          /\ (pc[q] # "inserted" => Stored(row[q]))
      <4>1. pc[q] \in {"inserted", "updated", "read"} BY <2>11 DEF Commit
      <4>2. NewRow(q).id = q /\ NewRow(q).player = Player(q) BY DEF NewRow
      <4> QED BY <4>1, <4>2 DEF Synchronizing
    <3>a. Said(q)' \in {"nothing", "ok"} /\ answer'[q].user = row[q] BY <3>1 DEF Said
    <3>3. CASE pc[q] = "inserted"
      <4>1. users' = users \cup {row[q]} BY <2>4, <2>11, <3>2, <3>3 DEF Commit
      <4>2. \A u \in users : u.player # Player(q) BY <3>3 DEF Synchronizing, RowOf
      <4>3. \A r \in Requests \ {q} : pc[r] = "inserted" => Player(r) # Player(q)
        BY <3>3 DEF UsersInv
      <4>4. UsersInv'
        <5>1. \A u \in users' : pc'[u.id] = "answered"
          BY <2>1, <2>4, <3>1, <3>2, <3>3, <4>1 DEF UsersInv, TypeOK, Rows
        <5>2. \A u, w \in users' : u.player = w.player \/ u.id = w.id => u = w
          BY <2>4, <3>2, <3>3, <4>1, <4>2 DEF UsersInv
        <5>3. \A r, p \in Requests :
                pc'[r] = "inserted" /\ pc'[p] = "inserted" /\ Player(r)' = Player(p)' => r = p
          BY <2>1, <2>3, <3>1 DEF UsersInv
        <5> QED BY <5>1, <5>2, <5>3 DEF UsersInv
      <4>5. Synchronizing(q)'
        <5>1. row[q] \in RowOf(Player(q))' BY <2>3, <3>2, <4>1 DEF RowOf
        <5> QED BY <3>1, <3>a, <5>1, <2>3 DEF Synchronizing
      <4>6. ASSUME NEW r \in Requests \ {q} PROVE Synchronizing(r)'
        <5>1. Synchronizing(r) /\ (pc[r] = "inserted" => RowOf(Player(r)) = {}) BY DEF Synchronizing
        <5>2. pc[r] = "inserted" => RowOf(Player(r))' = {}
          BY <2>3, <3>2, <4>1, <4>3, <5>1 DEF RowOf
        <5>3. \A u \in users : u \in users' BY <4>1
        <5> QED BY <2>1, <3>1, <5>1, <5>2, <5>3, SynchronizingKept
      <4> QED BY <4>4, <4>5, <4>6
    <3>4. CASE pc[q] # "inserted"
      <4>1. PICK u \in users : u.id = row[q].id /\ u.player = row[q].player BY <3>2, <3>4 DEF Stored
      <4>2. users' = users \/ users' = (users \ {u}) \cup {row[q]}
        BY <2>11, <4>1 DEF Commit, UsersInv
      <4>3. UsersInv'
        <5>1. \A w \in users' : pc'[w.id] = "answered"
          BY <2>1, <2>4, <4>1, <4>2 DEF UsersInv, TypeOK, Rows
        <5>2. \A w, v \in users' : w.player = v.player \/ w.id = v.id => w = v
          BY <4>1, <4>2 DEF UsersInv
        <5>3. \A r, p \in Requests :
                pc'[r] = "inserted" /\ pc'[p] = "inserted" /\ Player(r)' = Player(p)' => r = p
          BY <2>1, <2>3, <3>1 DEF UsersInv
        <5> QED BY <5>1, <5>2, <5>3 DEF UsersInv
      <4>4. Synchronizing(q)'
        <5>1. PICK w \in users' : w.id = row[q].id /\ w.player = Player(q) BY <3>2, <4>1, <4>2
        <5>2. w \in RowOf(Player(q))' BY <2>3, <5>1 DEF RowOf
        <5> QED BY <3>1, <3>a, <5>1, <5>2 DEF Synchronizing
      <4>5. ASSUME NEW r \in Requests \ {q} PROVE Synchronizing(r)'
        <5>1. Synchronizing(r) /\ (pc[r] = "inserted" => RowOf(Player(r)) = {}) BY DEF Synchronizing
        <5>2. /\ \A w \in users : \E v \in users' : v.id = w.id /\ v.player = w.player
              /\ \A v \in users' : \E w \in users : v.id = w.id /\ v.player = w.player
          BY <4>1, <4>2
        <5>3. pc[r] = "inserted" => RowOf(Player(r))' = {} BY <2>3, <5>1, <5>2 DEF RowOf
        <5> QED BY <2>1, <3>1, <5>1, <5>2, <5>3, SynchronizingKept
      <4> QED BY <4>3, <4>4, <4>5
    <3> QED BY <3>3, <3>4
  <2> QED BY <1>2, <2>7, <2>8, <2>9, <2>10, <2>11 DEF Synchronize
<1>3. ASSUME (\E k \in Keys : AddKey(k) \/ WithdrawKey(k)) \/ Tick \/ UNCHANGED vars
      PROVE  UsersInv' /\ \A r \in Requests : Synchronizing(r)'
  <2>1. UNCHANGED <<users, pc, row, token, answer>>
    BY <1>3 DEF AddKey, WithdrawKey, Tick, vars, accounts
  <2>2. UsersInv' BY <2>1 DEF UsersInv, Player
  <2>3. ASSUME NEW r \in Requests PROVE Synchronizing(r)'
    <3>1. Synchronizing(r) /\ (pc[r] = "inserted" => RowOf(Player(r)) = {}) BY DEF Synchronizing
    <3>2. RowOf(Player(r))' = RowOf(Player(r)) BY <2>1 DEF RowOf, Player
    <3> QED BY <2>1, <3>1, <3>2, SynchronizingKept
  <2> QED BY <2>2, <2>3
<1> QED BY <1>1, <1>2, <1>3 DEF Next

-----------------------------------------------------------------------------
(* The invariant and what follows from it *)

LEMMA InitInv == Init => IInv
<1> SUFFICES ASSUME Init PROVE IInv
  OBVIOUS
<1>1. TypeOK BY TtlAssumption, NoneIsNoRequest DEF Init, TypeOK, Stages, Time
<1>2. \A r \in Requests : Started(r) BY DEF Init, Started
<1>3. VerifierInv
  BY NoneIsNoRequest DEF Init, VerifierInv, KeysInv, Fetching
<1>4. AccountsInv BY DEF Init, AccountsInv, UsersInv, Synchronizing, Said
<1> QED BY <1>1, <1>2, <1>3, <1>4 DEF IInv

LEMMA NextInv == IInv /\ [Next]_vars => IInv'
<1> SUFFICES ASSUME IInv, [Next]_vars PROVE IInv'
  OBVIOUS
<1>1. TypeOK'
  <2>1. CASE UNCHANGED vars BY <2>1 DEF IInv, TypeOK, vars, provider, keyring, accounts
  <2>2. CASE Next
    BY <2>2, VerifyType, SynchronizeType, WorldType DEF Next, IInv, AccountsInv
  <2> QED BY <2>1, <2>2
<1> QED BY <1>1, StartedStep, VerifierStep, AccountsStep DEF IInv

\* The invariant that the other results follow from.
THEOREM Invariant == Spec => []IInv
BY InitInv, NextInv, PTL DEF Spec

\* Every variable keeps its type.
THEOREM TypeCorrect == Spec => []TypeOK
<1>1. IInv => TypeOK BY DEF IInv
<1> QED BY Invariant, <1>1, PTL

\* One identity is one user, though first requests overlap and the constraint
\* that keeps them apart ends a transaction (user_repository.py: synchronize).
THEOREM AccountsUnique == Spec => []OneAccount
<1>1. IInv => OneAccount BY DEF IInv, AccountsInv, UsersInv, Synchronizing, OneAccount
<1> QED BY Invariant, <1>1, PTL

\* The document that is kept is never replaced by an older one
\* (supabase_jwt.py: _get_keys).
THEOREM CacheForward == Spec => CacheNeverGoesBack
<1>1. IInv /\ [Next]_vars => [cache # None /\ cache' # cache => cache'.at >= cache.at]_vars
  <2> SUFFICES ASSUME IInv, Next, cache # None, cache' # cache PROVE cache'.at >= cache.at
    BY DEF vars, keyring
  <2>1. PICK r \in Requests : Keep(r)
    BY DEF Next, Verify, Synchronize, Arrive, TakeLock, Serve, FetchFails, Select, Insert, Reload,
           Update, Commit, DatabaseFails, AddKey, WithdrawKey, Tick, keyring
  <2>2. /\ cache' = document[r] /\ pc[r] = "fetching" /\ document[r] # None
        /\ cache.at <= now[r] /\ now[r] <= document[r].at
    BY <2>1 DEF Keep, IInv, VerifierInv, Fetching
  <2>3. cache \in Documents /\ document[r] \in Documents /\ now[r] \in Time
    BY <2>2 DEF IInv, TypeOK
  <2>4. cache.at \in Nat /\ document[r].at \in Nat /\ now[r] \in Nat
    BY <2>3, TtlAssumption DEF Documents, Time
  <2> QED BY <2>2, <2>4
<1> QED BY Invariant, <1>1, PTL DEF Spec, CacheNeverGoesBack

\* Where a key that a step uses comes from.
LEMMA KeysUsed ==
  ASSUME IInv, NEW r \in Requests, Next,
         \/ pc[r] # "select" /\ pc'[r] = "select"
         \/ answer[r] = None /\ Said(r)' = "unknown key"
  PROVE  /\ UNCHANGED provider
         /\ \/ /\ Fresh /\ ~forced[r] /\ pc'[r] = "select"
               /\ token'[r].key \in cache.keys /\ token'[r] \in Tokens
               /\ answer[r] = None => Said(r)' # "unknown key"
            \/ /\ Keep(r) /\ token' = token /\ arrived' = arrived /\ token[r] \in Tokens
               /\ pc'[r] = "select" => token[r].key \in document[r].keys
               /\ Said(r)' = "unknown key" /\ answer[r] = None => token[r].key \notin document[r].keys
<1> TypeOK /\ (\A q \in Requests : Started(q)) BY DEF IInv
<1>a. answer'[r] = answer[r] => Said(r)' = Said(r) BY DEF Said
<1>b. answer[r] = None => Said(r) # "unknown key" BY DEF Said
<1>c. \A why, user : answer'[r] = [status |-> why, user |-> user] => Said(r)' \in {"nothing", why}
  <2> SUFFICES ASSUME NEW why, NEW user, answer'[r] = [status |-> why, user |-> user]
               PROVE  Said(r)' \in {"nothing", why}
    OBVIOUS
  <2>1. [status |-> why, user |-> user].status = why OBVIOUS
  <2>2. answer'[r].status = why BY <2>1, Zenon
  <2> QED BY <2>2, Zenon DEF Said
<1>e. "unknown key" \notin {"nothing", "ok", "not saved", "not synchronized", "keys unavailable"}
  OBVIOUS
<1>d. ~(pc'[r] = pc[r] /\ answer'[r] = answer[r]) BY <1>a, <1>b
<1>1. ~\E k \in Keys : AddKey(k) \/ WithdrawKey(k) BY <1>d DEF AddKey, WithdrawKey
<1>2. ~Tick BY <1>d DEF Tick
<1>3. ASSUME NEW q \in Requests, Synchronize(q) PROVE FALSE
  <2>1. \A p \in Requests \ {q} : pc'[p] = pc[p] /\ answer'[p] = answer[p]
    BY <1>3 DEF Synchronize, Select, Insert, Reload, Update, Commit, DatabaseFails, Refuse, TypeOK
  <2>2. q = r BY <1>d, <2>1
  <2>3. pc'[r] # "select"
    BY <1>3, <2>2 DEF Synchronize, Select, Insert, Reload, Update, Commit, DatabaseFails, Refuse, TypeOK
  <2>4. \/ answer'[r] = answer[r]
        \/ answer'[r] = [status |-> "ok", user |-> row[r]]
        \/ answer'[r] = [status |-> "not saved", user |-> None]
        \/ answer'[r] = [status |-> "not synchronized", user |-> None]
    BY <1>3, <2>2 DEF Synchronize, Select, Insert, Reload, Update, Commit, DatabaseFails, Refuse, TypeOK
  <2>5. Said(r)' # "unknown key" \/ answer[r] # None
    BY <2>4, <1>a, <1>b, <1>c, <1>e
  <2> QED BY <2>3, <2>5
<1>4. PICK q \in Requests : Verify(q) BY <1>1, <1>2, <1>3 DEF Next
<1>5. q = r BY <1>4, <1>d, AccountsKept
<1>6. UNCHANGED provider BY <1>4 DEF Verify, Arrive, TakeLock, Serve, Keep, FetchFails
<1>7. CASE Arrive(r)
  <2>1. ~forced[r] BY <1>7 DEF Arrive, Started
  <2>2. PICK t \in Tokens :
          /\ token' = [token EXCEPT ![r] = t]
          /\ \/ Fresh /\ Use(r, t, cache.keys)
             \/ ~Fresh /\ pc' = [pc EXCEPT ![r] = "lock"] /\ UNCHANGED <<forced, answer>>
    BY <1>7 DEF Arrive
  <2>3. token'[r] = t BY <2>2 DEF TypeOK
  <2>4. Fresh /\ Use(r, t, cache.keys) BY <2>2, <1>a, <1>b DEF TypeOK
  <2>5. Said(r)' = "unknown key" => answer' = answer BY <2>1, <2>4, UseFrame
  <2>6. pc'[r] = "select" BY <2>5, <1>a, <1>b
  <2>7. t.key \in cache.keys BY <2>4, <2>6, UseFrame
  <2>8. answer[r] = None => Said(r)' # "unknown key" BY <2>5, <1>a, <1>b
  <2> QED BY <1>6, <2>1, <2>3, <2>4, <2>6, <2>7, <2>8
<1>8. CASE TakeLock(r)
  <2>1. Fresh /\ ~forced[r] /\ Use(r, token[r], cache.keys) /\ token' = token
    BY <1>8, <1>a, <1>b DEF TakeLock, Fetch, TypeOK
  <2>2. Said(r)' = "unknown key" => answer' = answer BY <2>1, UseFrame
  <2>3. pc'[r] = "select" BY <2>2, <1>a, <1>b
  <2>4. token[r].key \in cache.keys BY <2>1, <2>3, UseFrame
  <2>5. token[r] \in Tokens BY <1>8 DEF TakeLock, Started
  <2>6. answer[r] = None => Said(r)' # "unknown key" BY <2>2, <1>a, <1>b
  <2> QED BY <1>6, <2>1, <2>3, <2>4, <2>5, <2>6
<1>9. CASE Keep(r)
  <2>1. Use(r, token[r], document[r].keys) /\ token' = token /\ arrived' = arrived BY <1>9 DEF Keep
  <2>2. pc'[r] = "select" => token[r].key \in document[r].keys BY <2>1, UseFrame
  <2>3. Said(r)' = "unknown key" /\ answer[r] = None => token[r].key \notin document[r].keys
    BY <2>1, <1>a, <1>b, UseFrame
  <2>4. token[r] \in Tokens BY <1>9 DEF Keep, Started
  <2> QED BY <1>6, <1>9, <2>1, <2>2, <2>3, <2>4
<1>10. ~Serve(r) BY <1>d DEF Serve
<1>11. ~FetchFails(r)
  <2> SUFFICES ASSUME FetchFails(r) PROVE FALSE
    OBVIOUS
  <2>1. pc'[r] # "select" /\ answer'[r] = [status |-> "keys unavailable", user |-> None]
    BY DEF FetchFails, Refuse, TypeOK
  <2>2. Said(r)' # "unknown key" BY <2>1, <1>c, <1>e
  <2> QED BY <2>1, <2>2
<1> QED BY <1>4, <1>5, <1>7, <1>8, <1>9, <1>10, <1>11 DEF Verify

\* A key that is used was listed less than the time to live ago, or after the
\* request came (supabase_jwt.py: _get_keys, _find_signing_key).
THEOREM WithdrawnBounded == Spec => WithdrawnKeyBounded
<1> DEFINE Bounded(r) ==
      LET gone == withdrawn[token'[r].key]
      IN \/ token'[r].key \in listed
         \/ gone # None /\ (gone > clock - Ttl \/ gone >= arrived'[r].at)
<1>1. ASSUME IInv, Next, NEW r \in Requests, pc[r] # "select", pc'[r] = "select"
      PROVE  Bounded(r)
  <2> DEFINE k == token'[r].key
  <2>1. CASE Fresh /\ k \in cache.keys /\ token'[r] \in Tokens
    <3>1. Dated(cache) /\ expires <= cache.at + Ttl /\ clock < expires /\ cache \in Documents
      BY <1>1, <2>1 DEF Fresh, IInv, VerifierInv, KeysInv, TypeOK
    <3>2. k \in Keys /\ cache.at \in Nat /\ clock \in Nat /\ expires \in Nat /\ Ttl \in Nat
      BY <1>1, <2>1, <3>1, TokensAssumption, TtlAssumption DEF IInv, TypeOK, Documents, Time
    <3>3. withdrawn[k] \in Nat \cup {None} BY <1>1, <3>2, TtlAssumption DEF IInv, TypeOK, Time
    <3>4. k \in listed \/ (withdrawn[k] # None /\ withdrawn[k] >= cache.at)
      BY <2>1, <3>1 DEF Dated
    <3> HIDE DEF k
    <3>5. k \in listed \/ (withdrawn[k] # None /\ withdrawn[k] > clock - Ttl)
      BY <3>1, <3>2, <3>3, <3>4
    <3> QED BY <3>5 DEF k
  <2>2. CASE /\ Keep(r) /\ token' = token /\ arrived' = arrived /\ token[r] \in Tokens
             /\ k \in document[r].keys
    <3>1. /\ Dated(document[r]) /\ now[r] <= document[r].at /\ arrived[r].at <= now[r]
          /\ document[r] \in Documents /\ arrived[r] \in Arrivals
      BY <1>1, <2>2 DEF Keep, IInv, VerifierInv, Fetching, TypeOK, Started
    <3>2. /\ k \in Keys /\ document[r].at \in Nat /\ now[r] \in Nat /\ arrived[r].at \in Nat
      BY <1>1, <2>2, <3>1, TokensAssumption, TtlAssumption
      DEF IInv, TypeOK, Documents, Arrivals, Time
    <3>3. withdrawn[k] \in Nat \cup {None} BY <1>1, <3>2, TtlAssumption DEF IInv, TypeOK, Time
    <3>4. k \in listed \/ (withdrawn[k] # None /\ withdrawn[k] >= document[r].at)
      BY <2>2, <3>1 DEF Dated
    <3> HIDE DEF k
    <3>5. k \in listed \/ (withdrawn[k] # None /\ withdrawn[k] >= arrived[r].at)
      BY <3>1, <3>2, <3>3, <3>4
    <3>6. arrived'[r] = arrived[r] BY <2>2
    <3> QED BY <3>5, <3>6 DEF k
  <2> QED BY <1>1, <2>1, <2>2, KeysUsed
<1>2. ASSUME IInv, [Next]_vars, NEW r \in Requests, pc[r] # "select", pc'[r] = "select"
      PROVE  Bounded(r)
  BY <1>1, <1>2 DEF vars
<1>3. IInv /\ [Next]_vars =>
        [\A r \in Requests : pc[r] # "select" /\ pc'[r] = "select" => Bounded(r)]_vars
  BY <1>2
<1> QED BY Invariant, <1>3, PTL DEF Spec, WithdrawnKeyBounded

\* Nobody is told that a key is unknown which the provider lists and listed when
\* the request came (supabase_jwt.py: _find_signing_key).
THEOREM ListedKnown == Spec => ListedKeyIsKnown
<1>1. ASSUME IInv, Next, NEW r \in Requests, answer[r] = None, Said(r)' = "unknown key"
      PROVE  ~(token'[r].key \in listed /\ token'[r].key \in arrived'[r].listed)
  <2>1. /\ Keep(r) /\ token' = token /\ arrived' = arrived
        /\ token[r].key \notin document[r].keys
    BY <1>1, KeysUsed
  <2>2. \A k \in arrived[r].listed : k \in document[r].keys \/ withdrawn[k] # None
    BY <1>1, <2>1 DEF Keep, IInv, VerifierInv, Fetching
  <2>3. \A k \in listed : withdrawn[k] = None BY <1>1 DEF IInv, VerifierInv, KeysInv
  <2> QED BY <2>1, <2>2, <2>3
<1>2. ASSUME IInv, [Next]_vars, NEW r \in Requests, answer[r] = None, Said(r)' = "unknown key"
      PROVE  ~(token'[r].key \in listed /\ token'[r].key \in arrived'[r].listed)
  <2>1. CASE UNCHANGED vars
    <3>1. Said(r)' = "nothing" BY <1>2, <2>1 DEF vars, Said
    <3> QED BY <1>2, <3>1
  <2> QED BY <1>1, <1>2, <2>1
<1>3. IInv /\ [Next]_vars =>
        [\A r \in Requests : answer[r] = None /\ Said(r)' = "unknown key" =>
           ~(token'[r].key \in listed /\ token'[r].key \in arrived'[r].listed)]_vars
  BY <1>2
<1> QED BY Invariant, <1>3, PTL DEF Spec, ListedKeyIsKnown
=============================================================================
