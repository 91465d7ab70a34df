-------------------------------- MODULE Client --------------------------------
(***************************************************************************)
(* A customer's backend at the client api: callers that share an API key   *)
(* (deps.py, get_principal over the KeyCache of security.py) and page      *)
(* through the list of sessions (routers/client.py, list_sessions;         *)
(* pagination.py) while the key may be revoked and sessions are created    *)
(* (start_session).  The key is revoked in the database, by nobody in this *)
(* repository; the rows of other keys only matter when they fill the cache *)
(* up.  A row of `sessions` bears the time at which its transaction began  *)
(* and is seen once it is committed.                                       *)
(***************************************************************************)
EXTENDS Naturals, FiniteSets, SequencesExt

CONSTANTS
    Callers,
    Ids,        \* sessions; their ids are numbers, for the order of rows; 0 is none
    Limit,      \* limit of list_sessions
    Ttl,        \* api_key_cache_ttl_s
    Window,     \* assumed: time from the lookup of a key to its entry in the cache
    MaxTime     \* bound: time

ASSUME ClientAssumption ==
    /\ Ids \subseteq Nat \ {0}
    /\ Limit \in Nat \ {0}
    /\ Ttl \in Nat
    /\ Window \in Nat
    /\ MaxTime \in Nat \ {0}

VARIABLES
    now,
    revoked,    \* when the key was revoked, 0 before
    cached,     \* until when the key's entry in the cache holds, 0 for none
    created,    \* created_at of each session, 0 before its transaction
    committed,  \* the sessions that queries see
    pc,         \* where a caller's request is, or how its walk came to an end
    looked,     \* when the request under way looked the key up
    cursor,     \* next_cursor, the id of the row it names; none at first
    got,        \* the sessions of the pages so far
    expected    \* the sessions there were at the caller's first page

keyVars == <<revoked, cached>>
rowVars == <<created, committed>>
walkVars == <<cursor, got, expected>>
vars == <<now, keyVars, rowVars, pc, looked, walkVars>>

Times == 0..MaxTime

TypeOK ==
    /\ now \in Times \ {0}
    /\ revoked \in Times
    /\ cached \in 0..(MaxTime + Ttl)
    /\ created \in [Ids -> Times]
    /\ committed \in SUBSET Ids
    /\ pc \in [Callers -> {"idle", "looking", "verified", "listing", "listed",
                           "refused"}]
    /\ looked \in [Callers -> Times]
    /\ cursor \in [Callers -> Ids \cup {0}]
    /\ got \in [Callers -> Seq(Ids)]
    /\ expected \in [Callers -> SUBSET Ids]

Init ==
    /\ now = 1
    /\ revoked = 0
    /\ cached = 0
    /\ created = [i \in Ids |-> 0]
    /\ committed = {}
    /\ pc = [c \in Callers |-> "idle"]
    /\ looked = [c \in Callers |-> 0]
    /\ cursor = [c \in Callers |-> 0]
    /\ got = [c \in Callers |-> <<>>]
    /\ expected = [c \in Callers |-> {}]

-----------------------------------------------------------------------------
(* Elsewhere. *)

\* An assumption: the database does not take longer than Window for the rest of a
\* lookup.  No timeout of deps.py or db.py sees to it.
TimePasses ==
    /\ now < MaxTime
    /\ \A c \in Callers : pc[c] = "verified" => now < looked[c] + Window
    /\ now' = now + 1
    /\ UNCHANGED <<keyVars, rowVars, pc, looked, walkVars>>

Revokes ==
    /\ revoked = 0
    /\ revoked' = now
    /\ UNCHANGED <<now, cached, rowVars, pc, looked, walkVars>>

\* put() of another key finds more than 10,000 entries.
CacheClears ==
    /\ cached # 0
    /\ cached' = 0
    /\ UNCHANGED <<now, revoked, rowVars, pc, looked, walkVars>>

\* start_session: the row's now() is that of its transaction's begin.
Creates(i) ==
    /\ created[i] = 0
    /\ created' = [created EXCEPT ![i] = now]
    /\ UNCHANGED <<now, keyVars, committed, pc, looked, walkVars>>

CreateCommits(i) ==
    /\ created[i] # 0
    /\ i \notin committed
    /\ committed' = committed \cup {i}
    /\ UNCHANGED <<now, keyVars, created, pc, looked, walkVars>>

-----------------------------------------------------------------------------
(* get_principal. *)

Goes(c, to) == pc' = [pc EXCEPT ![c] = to]

\* Mutant: an entry that is used is kept for longer.
AsksMutant(c) ==
    /\ pc[c] = "idle"
    /\ IF cached >= now
       THEN Goes(c, "listing") /\ cached' = now + Ttl
       ELSE Goes(c, "looking") /\ UNCHANGED cached
    /\ UNCHANGED <<now, revoked, rowVars, looked, walkVars>>

\* The next page is asked for: cache.get lets the key through or not.
Asks(c) ==
    /\ pc[c] = "idle"
    /\ Goes(c, IF cached >= now THEN "listing" ELSE "looking")
    /\ UNCHANGED <<now, keyVars, rowVars, looked, walkVars>>

\* auth_api_key knows no revoked key.
LooksUp(c) ==
    /\ pc[c] = "looking"
    /\ IF revoked = 0
       THEN Goes(c, "verified") /\ looked' = [looked EXCEPT ![c] = now]
       ELSE Goes(c, "refused") /\ UNCHANGED looked
    /\ UNCHANGED <<now, keyVars, rowVars, walkVars>>

\* Mutant: the expiry of the entry is not its own.
PutsMutant(c) ==
    /\ pc[c] = "verified"
    /\ cached' = cached + now + Ttl
    /\ Goes(c, "listing")
    /\ looked' = [looked EXCEPT ![c] = 0]
    /\ UNCHANGED <<now, revoked, rowVars, walkVars>>

\* last_used_at is written; cache.put.
Puts(c) ==
    /\ pc[c] = "verified"
    /\ cached' = now + Ttl
    /\ Goes(c, "listing")
    /\ looked' = [looked EXCEPT ![c] = 0]
    /\ UNCHANGED <<now, revoked, rowVars, walkVars>>

\* A query of get_principal fails: the caller may try again.
Fails(c) ==
    /\ pc[c] \in {"looking", "verified"}
    /\ Goes(c, "idle")
    /\ looked' = [looked EXCEPT ![c] = 0]
    /\ UNCHANGED <<now, keyVars, rowVars, walkVars>>

-----------------------------------------------------------------------------
(* list_sessions. *)

\* ORDER BY created_at DESC, id DESC.
Newer(i, j) ==
    created[i] > created[j] \/ (created[i] = created[j] /\ i > j)

\* Mutant: the cursor is the time alone.
AfterMutant(c) ==
    {i \in committed : cursor[c] # 0 => created[cursor[c]] > created[i]}

\* What the query finds for the cursor, before its LIMIT.
After(c) == {i \in committed : cursor[c] # 0 => Newer(cursor[c], i)}

\* The rows in the order of the query.
Ordered(rows) ==
    CHOOSE s \in [1..Cardinality(rows) -> rows] :
        \A m, n \in DOMAIN s : m < n => Newer(s[m], s[n])

\* The query fails: the caller may ask for the page again.
ListFails(c) ==
    /\ pc[c] = "listing"
    /\ Goes(c, "idle")
    /\ UNCHANGED <<now, keyVars, rowVars, looked, walkVars>>

\* One page: Limit rows of Limit + 1, and a cursor if there was one more.
Lists(c) ==
    /\ pc[c] = "listing"
    /\ LET rows == Ordered(After(c))
           more == Len(rows) > Limit
           page == IF more THEN SubSeq(rows, 1, Limit) ELSE rows
       IN  /\ got' = [got EXCEPT ![c] = @ \o page]
           /\ cursor' = IF more THEN [cursor EXCEPT ![c] = Last(page)] ELSE cursor
           /\ Goes(c, IF more THEN "idle" ELSE "listed")
    /\ expected' = IF cursor[c] = 0 THEN [expected EXCEPT ![c] = committed]
                   ELSE expected
    /\ UNCHANGED <<now, keyVars, rowVars, looked>>

-----------------------------------------------------------------------------

Next ==
    \/ TimePasses \/ Revokes \/ CacheClears
    \/ \E i \in Ids : Creates(i) \/ CreateCommits(i)
    \/ \E c \in Callers :
          \/ Asks(c) \/ LooksUp(c) \/ Puts(c) \/ Fails(c)
          \/ Lists(c) \/ ListFails(c)

Spec == Init /\ [][Next]_vars

-----------------------------------------------------------------------------
(* Properties. *)

\* "Revocation therefore takes effect within `api_key_cache_ttl_s`", counted from the
\* last entry that a lookup before the revocation puts into the cache, which may be
\* after the revocation: no request is let in later, however many are.
RevocationHolds ==
    [][\A c \in Callers :
          pc[c] # "listing" /\ pc'[c] = "listing" /\ revoked # 0
              => now <= revoked + Window + Ttl]_vars

\* Whoever follows the cursors to the end has seen each session that was there at
\* the first page, none twice, newest first, though rows are committed meanwhile, in
\* another order than they were begun and with equal times.
WalkComplete ==
    \A c \in Callers :
        /\ \A m, n \in DOMAIN got[c] : m < n => Newer(got[c][m], got[c][n])
        /\ pc[c] = "listed" => \A i \in expected[c] : Contains(got[c], i)
=============================================================================
