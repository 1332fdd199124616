---------------------------- MODULE ProductCache ----------------------------
(***************************************************************************)
(* The product service: PostgreSQL rows, and the cache-aside entries of    *)
(* Redis for one product ("detail") and for the list of all of them.       *)
(*                                                                         *)
(* A request is a sequence of awaits: each is a step, and the steps of any *)
(* number of requests interleave.  Reads come again and again; each write  *)
(* is one POST or PATCH request.                                           *)
(***************************************************************************)
EXTENDS Integers

CONSTANTS
  Products,       \* product ids
  Reads,          \* readers, each of which repeats one GET request
  KeyOf,          \* KeyOf[r]: the cache key of r's request
  Writes,         \* POST and PATCH requests
  Kind,           \* Kind[w]: "create" or "update"
  Target,         \* Target[w]: the product it creates or updates
  Change,         \* Change[w]: columns in the request's body, with their values
  Initial,        \* Initial: rows of the products there are at first
  MaxRedisErrors  \* bound: Redis commands that fail in one behaviour

List == "products:list"
Keys == Products \cup {List}
Columns == {"name", "priceCents"}

\* A product's row, as far as requests and the first rows can fill it.
Row == [Columns -> UNION {{Change[w][c] : c \in DOMAIN Change[w]} : w \in Writes}
                     \cup UNION {{Initial[p][c] : c \in Columns} : p \in DOMAIN Initial}]

ASSUME ListAssumption == List \notin Products
ASSUME RequestsAssumption == Reads \cap Writes = {}
ASSUME KeyAssumption == KeyOf \in [Reads -> Keys]
ASSUME KindAssumption == Kind \in [Writes -> {"create", "update"}]
ASSUME TargetAssumption ==
  /\ Target \in [Writes -> Products]
  /\ \A v, w \in Writes :
       (Kind[v] = "create" /\ Kind[w] = "create" /\ Target[v] = Target[w]) => v = w
\* CreateProductDto asks for every column, UpdateProductDto for some.
ASSUME ChangeAssumption ==
  /\ DOMAIN Change = Writes
  /\ \A w \in Writes :
       /\ DOMAIN Change[w] \subseteq Columns
       /\ Kind[w] = "create" => Change[w] \in Row
ASSUME InitialAssumption ==
  /\ DOMAIN Initial \subseteq Products
  /\ \A p \in DOMAIN Initial : Initial[p] \in Row
  /\ \A w \in Writes : Kind[w] = "create" => Target[w] \notin DOMAIN Initial
ASSUME ErrorsAssumption == MaxRedisErrors \in Nat

VARIABLES
  db,           \* db[p]: the row of p, for the products that have one
  cache,        \* cache[k]: what Redis holds under k, for the keys it has
  announced,    \* products product.created was published for
  pc,           \* pc[a]: the await request a is at
  found,        \* found[r]: what r's query returned, while r fills the cache
  entity,       \* entity[w]: the row that w is to save, in memory
  dirty,        \* dirty[w]: columns the SELECT of save found to differ
  redisErrors,  \* Redis commands that failed
  outdated,     \* history: reads whose query was followed by a save
  raced,        \* history: entries that were set by such a read
  kept          \* history: entries whose deletion failed

vars == <<db, cache, announced, pc, found, entity, dirty, redisErrors,
          outdated, raced, kept>>

Init ==
  /\ db = Initial
  /\ cache = <<>>
  /\ announced = {}
  /\ pc = [a \in Reads \cup Writes |-> "idle"]
  /\ found = <<>>
  /\ entity = <<>>
  /\ dirty = [w \in Writes |-> {}]
  /\ redisErrors = 0
  /\ outdated = {}
  /\ raced = {}
  /\ kept = {}

Goto(a, label) == pc' = [pc EXCEPT ![a] = label]

With(f, k, v) == [x \in DOMAIN f \cup {k} |-> IF x = k THEN v ELSE f[x]]

Without(f, k) == [x \in DOMAIN f \ {k} |-> f[x]]

\* What a query for the entry's content returns: all rows, or one.
Content(k) == IF k = List THEN db ELSE db[k]

Exists(k) == k = List \/ k \in DOMAIN db

-----------------------------------------------------------------------------
(* findAll and findOne.                                                    *)

\* Mutant: what was hit is set again, for another TTL.
GetWritingBack(r) ==
  /\ pc[r] = "idle"
  /\ IF KeyOf[r] \in DOMAIN cache
     THEN found' = With(found, r, cache[KeyOf[r]]) /\ Goto(r, "set")
     ELSE Goto(r, "query") /\ UNCHANGED found
  /\ UNCHANGED <<db, cache, announced, entity, dirty, redisErrors, outdated,
                 raced, kept>>

\* redis.get.  A hit is the answer, and the request is over.
Get(r) ==
  /\ pc[r] = "idle"
  /\ KeyOf[r] \notin DOMAIN cache
  /\ Goto(r, "query")
  /\ UNCHANGED <<db, cache, announced, found, entity, dirty, redisErrors,
                 outdated, raced, kept>>

\* find or findOne; nothing is cached for a product that does not exist.
Query(r) ==
  /\ pc[r] = "query"
  /\ IF Exists(KeyOf[r])
     THEN found' = With(found, r, Content(KeyOf[r])) /\ Goto(r, "set")
     ELSE Goto(r, "idle") /\ UNCHANGED found
  /\ UNCHANGED <<db, cache, announced, entity, dirty, redisErrors, outdated,
                 raced, kept>>

\* redis.set with a TTL.
Fill(r) ==
  /\ pc[r] = "set"
  /\ LET k == KeyOf[r] IN
       /\ cache' = With(cache, k, found[r])
       /\ raced' = IF r \in outdated THEN raced \cup {k} ELSE raced \ {k}
       /\ kept' = kept \ {k}
  /\ found' = Without(found, r)
  /\ outdated' = outdated \ {r}
  /\ Goto(r, "idle")
  /\ UNCHANGED <<db, announced, entity, dirty, redisErrors>>

-----------------------------------------------------------------------------
(* create, update and invalidateProductCaches.                             *)

\* Reads that have queried what a save of p changes.
Overtaken(p) == {r \in Reads : pc[r] = "set" /\ KeyOf[r] \in {List, p}}

SaveNew(w) ==
  /\ pc[w] = "idle"
  /\ Kind[w] = "create"
  /\ db' = With(db, Target[w], Change[w])
  /\ outdated' = outdated \cup Overtaken(Target[w])
  /\ Goto(w, "delList")
  /\ UNCHANGED <<cache, announced, found, entity, dirty, redisErrors, raced,
                 kept>>

\* preload: the row as it is, with the columns of the request's body.
Preload(w) ==
  /\ pc[w] = "idle"
  /\ Kind[w] = "update"
  /\ IF Target[w] \in DOMAIN db
     THEN /\ entity' = With(entity, w, [c \in Columns |->
            IF c \in DOMAIN Change[w] THEN Change[w][c] ELSE db[Target[w]][c]])
          /\ Goto(w, "select")
     ELSE Goto(w, "failed") /\ UNCHANGED entity
  /\ UNCHANGED <<db, cache, announced, found, dirty, redisErrors, outdated,
                 raced, kept>>

\* The two statements of save.
SelectForSave(w) ==
  /\ pc[w] = "select"
  /\ dirty' = [dirty EXCEPT ![w] =
       {c \in Columns : entity[w][c] # db[Target[w]][c]}]
  /\ Goto(w, "update")
  /\ UNCHANGED <<db, cache, announced, found, entity, redisErrors, outdated,
                 raced, kept>>

UpdateRow(w) ==
  /\ pc[w] = "update"
  /\ db' = [db EXCEPT ![Target[w]] =
       [c \in Columns |-> IF c \in dirty[w] THEN entity[w][c] ELSE @[c]]]
  /\ outdated' = outdated \cup Overtaken(Target[w])
  /\ entity' = Without(entity, w)
  /\ dirty' = [dirty EXCEPT ![w] = {}]
  /\ Goto(w, "delList")
  /\ UNCHANGED <<cache, announced, found, redisErrors, raced, kept>>

Delete(k) ==
  /\ cache' = Without(cache, k)
  /\ raced' = raced \ {k}
  /\ kept' = kept \ {k}

\* Mutant: only the product's own entry is removed.
DeleteNoList(w) ==
  /\ pc[w] = "delList"
  /\ Goto(w, "delDetail")
  /\ UNCHANGED <<db, cache, announced, found, entity, dirty, redisErrors,
                 outdated, raced, kept>>

DeleteList(w) ==
  /\ pc[w] = "delList"
  /\ Delete(List)
  /\ Goto(w, "delDetail")
  /\ UNCHANGED <<db, announced, found, entity, dirty, redisErrors, outdated>>

DeleteDetail(w) ==
  /\ pc[w] = "delDetail"
  /\ Delete(Target[w])
  /\ Goto(w, IF Kind[w] = "create" THEN "publish" ELSE "done")
  /\ UNCHANGED <<db, announced, found, entity, dirty, redisErrors, outdated>>

\* Mutant: the event is published before the row is saved.
AnnounceFirst(w) ==
  /\ pc[w] = "idle"
  /\ Kind[w] = "create"
  /\ announced' = announced \cup {Target[w]}
  /\ UNCHANGED <<db, cache, pc, found, entity, dirty, redisErrors, outdated,
                 raced, kept>>

PublishProductCreated(w) ==
  /\ pc[w] = "publish"
  /\ announced' = announced \cup {Target[w]}
  /\ Goto(w, "done")
  /\ UNCHANGED <<db, cache, found, entity, dirty, redisErrors, outdated, raced,
                 kept>>

-----------------------------------------------------------------------------
(* Redis.                                                                  *)

\* Entries that w, which has saved, is still to delete.
Undeleted(w) ==
  CASE pc[w] = "delList" -> {List, Target[w]}
    [] pc[w] = "delDetail" -> {Target[w]}
    [] OTHER -> {}

\* A command rejects: the request fails there, and takes nothing back.
RedisFailsRead(r) ==
  /\ pc[r] = "set"
  /\ redisErrors < MaxRedisErrors
  /\ redisErrors' = redisErrors + 1
  /\ found' = Without(found, r)
  /\ outdated' = outdated \ {r}
  /\ Goto(r, "idle")
  /\ UNCHANGED <<db, cache, announced, entity, dirty, raced, kept>>

RedisFailsWrite(w) ==
  /\ pc[w] \in {"delList", "delDetail"}
  /\ redisErrors < MaxRedisErrors
  /\ redisErrors' = redisErrors + 1
  /\ kept' = kept \cup Undeleted(w)
  /\ Goto(w, "failed")
  /\ UNCHANGED <<db, cache, announced, found, entity, dirty, outdated, raced>>

\* The TTL of an entry is over.
Expire(k) ==
  /\ k \in DOMAIN cache
  /\ Delete(k)
  /\ UNCHANGED <<db, announced, pc, found, entity, dirty, redisErrors, outdated>>

Read(r) == Get(r) \/ Query(r) \/ Fill(r)

Write(w) ==
  \/ SaveNew(w)
  \/ Preload(w) \/ SelectForSave(w) \/ UpdateRow(w)
  \/ DeleteList(w) \/ DeleteDetail(w)
  \/ PublishProductCreated(w)

Next ==
  \/ \E r \in Reads : Read(r) \/ RedisFailsRead(r)
  \/ \E w \in Writes : Write(w) \/ RedisFailsWrite(w)
  \/ \E k \in Keys : Expire(k)

Spec == Init /\ [][Next]_vars

\* A request that is under way goes on, and TTLs run out.  Nobody has to send a
\* request, so a read that has not missed yet is owed nothing.
FairSpec ==
  /\ Spec
  /\ \A r \in Reads : WF_vars(Query(r) \/ Fill(r))
  /\ \A w \in Writes : WF_vars(pc[w] # "idle" /\ Write(w))
  /\ \A k \in Keys : WF_vars(Expire(k))

-----------------------------------------------------------------------------
(* Properties.                                                             *)

Awaits == {"idle", "query", "set", "select", "update", "delList", "delDetail",
           "publish", "done", "failed"}

Rows(f) == DOMAIN f \subseteq Products /\ \A p \in DOMAIN f : f[p] \in Row

TypeOK ==
  /\ Rows(db)
  /\ DOMAIN cache \subseteq Keys
  /\ \A k \in DOMAIN cache : IF k = List THEN Rows(cache[k]) ELSE cache[k] \in Row
  /\ announced \subseteq DOMAIN db
  /\ pc \in [Reads \cup Writes -> Awaits]
  /\ DOMAIN found = {r \in Reads : pc[r] = "set"}
  /\ DOMAIN entity = {w \in Writes : pc[w] \in {"select", "update"}}
  /\ \A w \in DOMAIN entity : entity[w] \in Row
  /\ dirty \in [Writes -> SUBSET Columns]
  /\ redisErrors \in 0..MaxRedisErrors
  /\ outdated \subseteq DOMAIN found
  /\ raced \subseteq DOMAIN cache

Stale(k) == k \in DOMAIN cache /\ cache[k] # Content(k)

\* All there is to know about why a cached answer may be wrong: a write has
\* saved and not yet deleted the entry, its deletion failed, or the read that
\* set the entry had queried before the save and set it after the deletion.
StaleHasCause ==
  \A k \in Keys : Stale(k) =>
    k \in raced \cup kept \cup UNION {Undeleted(w) : w \in Writes}

\* A wrong answer is not for ever, though reads never end: a hit does not make
\* an entry live longer, so the TTL removes it, and with the last write the
\* last wrong value is gone.
StalenessEnds == <>[](\A k \in Keys : ~Stale(k))
=============================================================================
