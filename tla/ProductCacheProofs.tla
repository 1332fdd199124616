------------------------- MODULE ProductCacheProofs -------------------------
(***************************************************************************)
(* A cached answer that is wrong has one of three causes, for any          *)
(* products, any readers and any requests that write: the proof behind     *)
(* StaleHasCause, and the types of the rows, entries and requests.         *)
(***************************************************************************)
EXTENDS ProductCache, TLAPS

-----------------------------------------------------------------------------
(* The inductive invariant.                                                *)

\* Where reads and writes can be, and that rows are never removed from under
\* them.
Labels ==
  /\ \A r \in Reads : pc[r] \in {"idle", "query", "set"}
  /\ \A w \in Writes :
       /\ pc[w] \notin {"query", "set"}
       /\ pc[w] \in {"select", "update", "delList", "delDetail", "publish"} =>
            Target[w] \in DOMAIN db

\* What a read is about to set: the content of its entry, unless there was a
\* save since its query.
FoundIsFresh ==
  \A r \in DOMAIN found :
    /\ Exists(KeyOf[r])
    /\ r \notin outdated => found[r] = Content(KeyOf[r])
    /\ IF KeyOf[r] = List THEN Rows(found[r]) ELSE found[r] \in Row

CachedExists == \A k \in DOMAIN cache : Exists(k)

IInv == TypeOK /\ Labels /\ FoundIsFresh /\ CachedExists /\ StaleHasCause

\* A deletion that is owed, or a cause that has been recorded.
Excused(k) ==
  \/ k \in raced
  \/ k \in kept
  \/ \E w \in Writes : k \in Undeleted(w)

LEMMA CauseMeans == StaleHasCause <=> \A k \in Keys : Stale(k) => Excused(k)
BY DEF StaleHasCause, Excused

-----------------------------------------------------------------------------
(* Operators of the model.                                                 *)

LEMMA RowFacts ==
  /\ \A w \in Writes : Kind[w] = "create" => Change[w] \in Row
  /\ \A w \in Writes, old \in Row :
       [c \in Columns |-> IF c \in DOMAIN Change[w] THEN Change[w][c] ELSE old[c]]
         \in Row
  /\ \A new \in Row, old \in Row : \A S :
       [c \in Columns |-> IF c \in S THEN new[c] ELSE old[c]] \in Row
<1>1. \A w \in Writes, old \in Row :
        [c \in Columns |-> IF c \in DOMAIN Change[w] THEN Change[w][c] ELSE old[c]]
          \in Row
  <2> DEFINE Values ==
        UNION {{Change[w][c] : c \in DOMAIN Change[w]} : w \in Writes}
          \cup UNION {{Initial[p][c] : c \in Columns} : p \in DOMAIN Initial}
  <2>1. Row = [Columns -> Values]
    BY DEF Row
  <2>2. ASSUME NEW w \in Writes, NEW c \in DOMAIN Change[w]
        PROVE  Change[w][c] \in Values
    <3>1. Change[w][c] \in {Change[w][d] : d \in DOMAIN Change[w]}
      OBVIOUS
    <3> QED BY <3>1
  <2> HIDE DEF Values
  <2> QED BY <2>1, <2>2
<1>2. \A new \in Row, old \in Row : \A S :
        [c \in Columns |-> IF c \in S THEN new[c] ELSE old[c]] \in Row
  BY DEF Row
<1> QED BY <1>1, <1>2, ChangeAssumption

LEMMA GotoFacts ==
  ASSUME TypeOK, NEW a \in Reads \cup Writes, NEW label, Goto(a, label),
         label \in Awaits
  PROVE  /\ pc' \in [Reads \cup Writes -> Awaits]
         /\ pc'[a] = label
         /\ \A b \in Reads \cup Writes : b # a => pc'[b] = pc[b]
BY DEF TypeOK, Goto, Awaits

\* Only a write has deletions to do, and what they are depends on its label.
LEMMA UndeletedFacts ==
  ASSUME NEW w \in Writes
  PROVE  /\ pc'[w] = pc[w] => Undeleted(w)' = Undeleted(w)
         /\ pc[w] \notin {"delList", "delDetail"} => Undeleted(w) = {}
         /\ pc'[w] = "delList" => Undeleted(w)' = {List, Target[w]}
         /\ pc'[w] = "delDetail" => Undeleted(w)' = {Target[w]}
         /\ pc[w] = "delList" => Undeleted(w) = {List, Target[w]}
         /\ pc[w] = "delDetail" => Undeleted(w) = {Target[w]}
BY DEF Undeleted

LEMMA InitIInv == Init => IInv
<1> SUFFICES ASSUME Init PROVE IInv
  OBVIOUS
<1>1. /\ DOMAIN cache = {} /\ DOMAIN found = {} /\ DOMAIN entity = {}
      /\ \A a \in Reads \cup Writes : pc[a] = "idle"
  BY DEF Init
<1>2. TypeOK
  <2>1. Rows(db)
    BY InitialAssumption DEF Init, Rows
  <2>2. redisErrors \in 0..MaxRedisErrors
    BY ErrorsAssumption DEF Init
  <2>3. pc \in [Reads \cup Writes -> Awaits]
        /\ dirty \in [Writes -> SUBSET Columns]
    BY DEF Init, Awaits
  <2> QED BY <1>1, <2>1, <2>2, <2>3 DEF Init, TypeOK
<1>3. Labels /\ FoundIsFresh /\ CachedExists
  BY <1>1 DEF Labels, FoundIsFresh, CachedExists
<1>4. StaleHasCause
  BY <1>1 DEF StaleHasCause, Stale
<1> QED BY <1>2, <1>3, <1>4 DEF IInv

-----------------------------------------------------------------------------
(* Reads.                                                                  *)

\* What a step of a read leaves alone.
LEMMA ReadFrame ==
  ASSUME IInv, NEW r \in Reads, NEW label \in {"idle", "query", "set"},
         Goto(r, label), UNCHANGED <<db, announced, entity, dirty>>
  PROVE  /\ Labels'
         /\ pc' \in [Reads \cup Writes -> Awaits]
         /\ pc'[r] = label
         /\ \A b \in Reads \cup Writes : b # r => pc'[b] = pc[b]
         /\ \A w \in Writes : Undeleted(w)' = Undeleted(w)
         /\ \A k : Content(k)' = Content(k) /\ (Exists(k)' <=> Exists(k))
         /\ DOMAIN entity' = {w \in Writes : pc'[w] \in {"select", "update"}}
<1>1. /\ pc' \in [Reads \cup Writes -> Awaits]
      /\ pc'[r] = label
      /\ \A b \in Reads \cup Writes : b # r => pc'[b] = pc[b]
  BY GotoFacts DEF IInv, Awaits
<1>2. \A w \in Writes : pc'[w] = pc[w]
  BY <1>1, RequestsAssumption
<1>3. Labels'
  BY <1>1, <1>2 DEF IInv, Labels
<1>4. \A w \in Writes : Undeleted(w)' = Undeleted(w)
  BY <1>2, UndeletedFacts
<1>5. \A k : Content(k)' = Content(k) /\ (Exists(k)' <=> Exists(k))
  BY DEF Content, Exists
<1>6. DOMAIN entity' = {w \in Writes : pc'[w] \in {"select", "update"}}
  BY <1>2 DEF IInv, TypeOK
<1> QED BY <1>1, <1>3, <1>4, <1>5, <1>6

\* The entries and their causes stay as they are.
LEMMA SameCauses ==
  ASSUME IInv, UNCHANGED <<cache, raced, kept>>,
         \A w \in Writes : Undeleted(w)' = Undeleted(w),
         \A k : Content(k)' = Content(k) /\ (Exists(k)' <=> Exists(k))
  PROVE  CachedExists' /\ StaleHasCause'
<1>1. CachedExists'
  BY DEF IInv, CachedExists
<1>2. \A k \in Keys : Stale(k)' => Stale(k)
  BY DEF Stale
<1>3. \A k \in Keys : Excused(k) => Excused(k)'
  BY DEF Excused
<1> QED BY <1>1, <1>2, <1>3, CauseMeans DEF IInv, StaleHasCause, Excused

LEMMA GetStep ==
  ASSUME IInv, NEW r \in Reads, Get(r)
  PROVE  IInv'
<1>1. /\ UNCHANGED <<db, cache, announced, found, entity, dirty, redisErrors,
                     outdated, raced, kept>>
      /\ pc[r] = "idle" /\ Goto(r, "query")
  BY DEF Get
<1>2. /\ Labels'
      /\ pc' \in [Reads \cup Writes -> Awaits]
      /\ pc'[r] = "query"
      /\ \A b \in Reads \cup Writes : b # r => pc'[b] = pc[b]
      /\ \A w \in Writes : Undeleted(w)' = Undeleted(w)
      /\ \A k : Content(k)' = Content(k) /\ (Exists(k)' <=> Exists(k))
      /\ DOMAIN entity' = {w \in Writes : pc'[w] \in {"select", "update"}}
  BY <1>1, ReadFrame
<1>3. TypeOK'
  <2>1. DOMAIN found' = {s \in Reads : pc'[s] = "set"}
    BY <1>1, <1>2 DEF IInv, TypeOK
  <2> QED BY <1>1, <1>2, <2>1 DEF IInv, TypeOK, Rows
<1>4. FoundIsFresh'
  BY <1>1, <1>2 DEF IInv, FoundIsFresh, Rows
<1> QED BY <1>1, <1>2, <1>3, <1>4, SameCauses DEF IInv

LEMMA QueryStep ==
  ASSUME IInv, NEW r \in Reads, Query(r)
  PROVE  IInv'
<1> DEFINE k == KeyOf[r]
<1>1. /\ UNCHANGED <<db, cache, announced, entity, dirty, redisErrors, outdated,
                     raced, kept>>
      /\ pc[r] = "query" /\ k \in Keys
      /\ r \notin DOMAIN found
  BY KeyAssumption DEF Query, IInv, TypeOK
<1>2. CASE Exists(k)
  <2>1. found' = With(found, r, Content(k)) /\ Goto(r, "set")
    BY <1>2 DEF Query
  <2>2. /\ Labels'
        /\ pc' \in [Reads \cup Writes -> Awaits]
        /\ pc'[r] = "set"
        /\ \A b \in Reads \cup Writes : b # r => pc'[b] = pc[b]
        /\ \A w \in Writes : Undeleted(w)' = Undeleted(w)
        /\ \A x : Content(x)' = Content(x) /\ (Exists(x)' <=> Exists(x))
        /\ DOMAIN entity' = {w \in Writes : pc'[w] \in {"select", "update"}}
    BY <1>1, <2>1, ReadFrame
  <2>3. /\ DOMAIN found' = DOMAIN found \cup {r}
        /\ found'[r] = Content(k)
        /\ \A s \in DOMAIN found : found'[s] = found[s]
    BY <1>1, <2>1 DEF With
  <2>4. TypeOK'
    <3>1. DOMAIN found' = {s \in Reads : pc'[s] = "set"}
      BY <2>2, <2>3 DEF IInv, TypeOK
    <3> QED BY <1>1, <2>2, <2>3, <3>1 DEF IInv, TypeOK, Rows
  <2>5. IF k = List THEN Rows(Content(k)) ELSE Content(k) \in Row
    BY <1>1, <1>2 DEF IInv, TypeOK, Content, Exists, Rows
  <2>6. FoundIsFresh'
    BY <1>1, <1>2, <2>2, <2>3, <2>5 DEF IInv, FoundIsFresh, Rows
  <2> QED BY <1>1, <2>2, <2>4, <2>6, SameCauses DEF IInv
<1>3. CASE ~Exists(k)
  <2>1. found' = found /\ Goto(r, "idle")
    BY <1>3 DEF Query
  <2>2. /\ Labels'
        /\ pc' \in [Reads \cup Writes -> Awaits]
        /\ pc'[r] = "idle"
        /\ \A b \in Reads \cup Writes : b # r => pc'[b] = pc[b]
        /\ \A w \in Writes : Undeleted(w)' = Undeleted(w)
        /\ \A x : Content(x)' = Content(x) /\ (Exists(x)' <=> Exists(x))
        /\ DOMAIN entity' = {w \in Writes : pc'[w] \in {"select", "update"}}
    BY <1>1, <2>1, ReadFrame
  <2>3. TypeOK'
    <3>1. DOMAIN found' = {s \in Reads : pc'[s] = "set"}
      BY <1>1, <2>1, <2>2 DEF IInv, TypeOK
    <3> QED BY <1>1, <2>1, <2>2, <3>1 DEF IInv, TypeOK, Rows
  <2>4. FoundIsFresh'
    BY <1>1, <2>1, <2>2 DEF IInv, FoundIsFresh, Rows
  <2> QED BY <1>1, <2>2, <2>3, <2>4, SameCauses DEF IInv
<1> QED BY <1>2, <1>3

\* The read is over: its value and its mark go.
LEMMA ReadOver ==
  ASSUME IInv, NEW r \in Reads, pc[r] = "set", Goto(r, "idle"),
         found' = Without(found, r), outdated' = outdated \ {r},
         UNCHANGED <<db, announced, entity, dirty>>
  PROVE  /\ Labels' /\ FoundIsFresh'
         /\ pc' \in [Reads \cup Writes -> Awaits]
         /\ \A w \in Writes : Undeleted(w)' = Undeleted(w)
         /\ \A k : Content(k)' = Content(k) /\ (Exists(k)' <=> Exists(k))
         /\ DOMAIN entity' = {w \in Writes : pc'[w] \in {"select", "update"}}
         /\ DOMAIN found' = {s \in Reads : pc'[s] = "set"}
         /\ outdated' \subseteq DOMAIN found'
<1>1. /\ Labels'
      /\ pc' \in [Reads \cup Writes -> Awaits]
      /\ pc'[r] = "idle"
      /\ \A b \in Reads \cup Writes : b # r => pc'[b] = pc[b]
      /\ \A w \in Writes : Undeleted(w)' = Undeleted(w)
      /\ \A k : Content(k)' = Content(k) /\ (Exists(k)' <=> Exists(k))
      /\ DOMAIN entity' = {w \in Writes : pc'[w] \in {"select", "update"}}
  BY ReadFrame
<1>2. /\ DOMAIN found' = DOMAIN found \ {r}
      /\ \A s \in DOMAIN found : s # r => found'[s] = found[s]
  BY DEF Without
<1>3. DOMAIN found' = {s \in Reads : pc'[s] = "set"} /\ outdated' \subseteq DOMAIN found'
  BY <1>1, <1>2 DEF IInv, TypeOK
<1>4. FoundIsFresh'
  BY <1>1, <1>2 DEF IInv, FoundIsFresh, Rows
<1> QED BY <1>1, <1>3, <1>4

LEMMA FillStep ==
  ASSUME IInv, NEW r \in Reads, Fill(r)
  PROVE  IInv'
<1> DEFINE k == KeyOf[r]
<1>1. /\ UNCHANGED <<db, announced, entity, dirty, redisErrors>>
      /\ pc[r] = "set" /\ Goto(r, "idle") /\ k \in Keys
      /\ cache' = With(cache, k, found[r])
      /\ raced' = IF r \in outdated THEN raced \cup {k} ELSE raced \ {k}
      /\ kept' = kept \ {k}
      /\ found' = Without(found, r) /\ outdated' = outdated \ {r}
      /\ r \in DOMAIN found
  BY KeyAssumption DEF Fill, IInv, TypeOK
<1>2. /\ Labels' /\ FoundIsFresh'
      /\ pc' \in [Reads \cup Writes -> Awaits]
      /\ \A w \in Writes : Undeleted(w)' = Undeleted(w)
      /\ \A x : Content(x)' = Content(x) /\ (Exists(x)' <=> Exists(x))
      /\ DOMAIN entity' = {w \in Writes : pc'[w] \in {"select", "update"}}
      /\ DOMAIN found' = {s \in Reads : pc'[s] = "set"}
      /\ outdated' \subseteq DOMAIN found'
  BY <1>1, ReadOver
<1>3. /\ DOMAIN cache' = DOMAIN cache \cup {k}
      /\ cache'[k] = found[r]
      /\ \A x \in DOMAIN cache : x # k => cache'[x] = cache[x]
  BY <1>1 DEF With
<1>4. /\ Exists(k)
      /\ r \notin outdated => found[r] = Content(k)
      /\ IF k = List THEN Rows(found[r]) ELSE found[r] \in Row
  BY <1>1 DEF IInv, FoundIsFresh
<1> HIDE DEF k
<1>5. TypeOK'
  <2>1. \A x \in DOMAIN cache' : IF x = List THEN Rows(cache'[x]) ELSE cache'[x] \in Row
    BY <1>3, <1>4 DEF IInv, TypeOK
  <2> QED BY <1>1, <1>2, <1>3, <2>1 DEF IInv, TypeOK, Rows
<1>6. CachedExists'
  BY <1>2, <1>3, <1>4 DEF IInv, CachedExists
<1>7. StaleHasCause'
  <2> SUFFICES ASSUME NEW x \in Keys, Stale(x)'
               PROVE  Excused(x)'
    BY DEF StaleHasCause, Excused
  <2>1. CASE x = k
    <3>1. r \in outdated
      BY <1>2, <1>3, <1>4, <2>1 DEF Stale
    <3> QED BY <1>1, <2>1, <3>1 DEF Excused
  <2>2. CASE x # k
    <3>1. Stale(x)
      BY <1>2, <1>3, <2>2 DEF Stale
    <3>2. Excused(x)
      BY <3>1, CauseMeans DEF IInv
    <3> QED BY <1>1, <1>2, <2>2, <3>2 DEF Excused
  <2> QED BY <2>1, <2>2
<1> QED BY <1>2, <1>5, <1>6, <1>7 DEF IInv

LEMMA RedisFailsReadStep ==
  ASSUME IInv, NEW r \in Reads, RedisFailsRead(r)
  PROVE  IInv'
<1>1. /\ UNCHANGED <<db, cache, announced, entity, dirty, raced, kept>>
      /\ pc[r] = "set" /\ Goto(r, "idle")
      /\ found' = Without(found, r) /\ outdated' = outdated \ {r}
      /\ redisErrors' \in 0..MaxRedisErrors
  BY ErrorsAssumption DEF RedisFailsRead, IInv, TypeOK
<1>2. /\ Labels' /\ FoundIsFresh'
      /\ pc' \in [Reads \cup Writes -> Awaits]
      /\ \A w \in Writes : Undeleted(w)' = Undeleted(w)
      /\ \A k : Content(k)' = Content(k) /\ (Exists(k)' <=> Exists(k))
      /\ DOMAIN entity' = {w \in Writes : pc'[w] \in {"select", "update"}}
      /\ DOMAIN found' = {s \in Reads : pc'[s] = "set"}
      /\ outdated' \subseteq DOMAIN found'
  BY <1>1, ReadOver
<1>3. TypeOK'
  BY <1>1, <1>2 DEF IInv, TypeOK, Rows
<1> QED BY <1>1, <1>2, <1>3, SameCauses DEF IInv

-----------------------------------------------------------------------------
(* Writes.                                                                 *)

\* What a step of a write leaves alone.
LEMMA WriteFrame ==
  ASSUME IInv, NEW w \in Writes, NEW label \in Awaits \ {"query", "set"},
         Goto(w, label), UNCHANGED found, DOMAIN db \subseteq DOMAIN db',
         label \in {"select", "update", "delList", "delDetail", "publish"} =>
           Target[w] \in DOMAIN db'
  PROVE  /\ Labels'
         /\ pc' \in [Reads \cup Writes -> Awaits]
         /\ pc'[w] = label
         /\ \A b \in Reads \cup Writes : b # w => pc'[b] = pc[b]
         /\ DOMAIN found' = {r \in Reads : pc'[r] = "set"}
<1>1. /\ pc' \in [Reads \cup Writes -> Awaits]
      /\ pc'[w] = label
      /\ \A b \in Reads \cup Writes : b # w => pc'[b] = pc[b]
  BY GotoFacts DEF IInv
<1>2. \A r \in Reads : pc'[r] = pc[r]
  BY <1>1, RequestsAssumption
<1>3. Labels'
  BY <1>1, <1>2 DEF IInv, Labels
<1>4. DOMAIN found' = {r \in Reads : pc'[r] = "set"}
  BY <1>2 DEF IInv, TypeOK
<1> QED BY <1>1, <1>3, <1>4

\* A row changes, and with it the content of its entry and of the list's: the
\* reads that have queried are outdated, and the entries are to be deleted.
LEMMA SaveCauses ==
  ASSUME IInv, NEW w \in Writes,
         UNCHANGED <<cache, found, raced, kept>>,
         DOMAIN db' = DOMAIN db \cup {Target[w]},
         \A p \in DOMAIN db : p # Target[w] => db'[p] = db[p],
         outdated' = outdated \cup Overtaken(Target[w]),
         pc[w] \in {"idle", "update"}, pc'[w] = "delList",
         \A v \in Writes : v # w => pc'[v] = pc[v]
  PROVE  FoundIsFresh' /\ CachedExists' /\ StaleHasCause'
<1>1. \A k : Exists(k) => Exists(k)'
  BY DEF Exists
<1>2. \A k : Exists(k) /\ k \notin {List, Target[w]} => Content(k)' = Content(k)
  BY DEF Exists, Content
<1>3. FoundIsFresh'
  <2> SUFFICES ASSUME NEW r \in DOMAIN found
               PROVE  /\ Exists(KeyOf[r])'
                      /\ r \notin outdated' => found[r] = Content(KeyOf[r])'
                      /\ IF KeyOf[r] = List THEN Rows(found[r]) ELSE found[r] \in Row
    BY DEF FoundIsFresh, Rows
  <2>1. /\ Exists(KeyOf[r])
        /\ r \notin outdated => found[r] = Content(KeyOf[r])
        /\ IF KeyOf[r] = List THEN Rows(found[r]) ELSE found[r] \in Row
    BY DEF IInv, FoundIsFresh
  <2>2. KeyOf[r] \in {List, Target[w]} => r \in outdated'
    BY DEF IInv, TypeOK, Overtaken
  <2> QED BY <1>1, <1>2, <2>1, <2>2
<1>4. CachedExists'
  BY <1>1 DEF IInv, CachedExists
<1>5. Undeleted(w)' = {List, Target[w]} /\ Undeleted(w) = {}
      /\ \A v \in Writes : v # w => Undeleted(v)' = Undeleted(v)
  BY UndeletedFacts
<1>6. StaleHasCause'
  <2> SUFFICES ASSUME NEW k \in Keys, Stale(k)'
               PROVE  Excused(k)'
    BY DEF StaleHasCause, Excused
  <2>1. CASE k \in {List, Target[w]}
    BY <1>5, <2>1 DEF Excused
  <2>2. CASE k \notin {List, Target[w]}
    <3>1. Exists(k)
      BY DEF Stale, IInv, CachedExists
    <3>2. Stale(k)
      BY <1>2, <2>2, <3>1 DEF Stale
    <3>3. Excused(k)
      BY <3>2, CauseMeans DEF IInv
    <3> QED BY <1>5, <3>3 DEF Excused
  <2> QED BY <2>1, <2>2
<1> QED BY <1>3, <1>4, <1>6

LEMMA SaveNewStep ==
  ASSUME IInv, NEW w \in Writes, SaveNew(w)
  PROVE  IInv'
<1>1. /\ UNCHANGED <<cache, announced, found, entity, dirty, redisErrors, raced,
                     kept>>
      /\ pc[w] = "idle" /\ Kind[w] = "create" /\ Goto(w, "delList")
      /\ db' = With(db, Target[w], Change[w])
      /\ outdated' = outdated \cup Overtaken(Target[w])
      /\ Target[w] \in Products
  BY TargetAssumption DEF SaveNew
<1>2. /\ DOMAIN db' = DOMAIN db \cup {Target[w]}
      /\ \A p \in DOMAIN db : p # Target[w] => db'[p] = db[p]
      /\ db'[Target[w]] = Change[w]
  BY <1>1 DEF With
<1>3. /\ Labels'
      /\ pc' \in [Reads \cup Writes -> Awaits]
      /\ pc'[w] = "delList"
      /\ \A b \in Reads \cup Writes : b # w => pc'[b] = pc[b]
      /\ DOMAIN found' = {r \in Reads : pc'[r] = "set"}
  BY <1>1, <1>2, WriteFrame DEF Awaits
<1>4. FoundIsFresh' /\ CachedExists' /\ StaleHasCause'
  BY <1>1, <1>2, <1>3, SaveCauses
<1>5. TypeOK'
  <2>1. Rows(db)'
    BY <1>1, <1>2, RowFacts DEF IInv, TypeOK, Rows
  <2>2. DOMAIN entity' = {v \in Writes : pc'[v] \in {"select", "update"}}
    BY <1>1, <1>3 DEF IInv, TypeOK
  <2>3. outdated' \subseteq DOMAIN found'
    BY <1>1 DEF IInv, TypeOK, Overtaken
  <2> QED BY <1>1, <1>2, <1>3, <2>1, <2>2, <2>3 DEF IInv, TypeOK, Rows
<1> QED BY <1>3, <1>4, <1>5 DEF IInv

LEMMA UpdateRowStep ==
  ASSUME IInv, NEW w \in Writes, UpdateRow(w)
  PROVE  IInv'
<1> DEFINE p == Target[w]
           row == [c \in Columns |-> IF c \in dirty[w] THEN entity[w][c] ELSE db[p][c]]
<1>1. /\ UNCHANGED <<cache, announced, found, redisErrors, raced, kept>>
      /\ pc[w] = "update" /\ Goto(w, "delList")
      /\ db' = [db EXCEPT ![p] = row]
      /\ outdated' = outdated \cup Overtaken(p)
      /\ entity' = Without(entity, w)
      /\ dirty' = [dirty EXCEPT ![w] = {}]
  BY DEF UpdateRow
<1>2. p \in DOMAIN db /\ w \in DOMAIN entity
  BY <1>1 DEF IInv, TypeOK, Labels
<1>3. entity[w] \in Row /\ db[p] \in Row
  BY <1>2 DEF IInv, TypeOK, Rows
<1>4. row \in Row
  BY <1>3, RowFacts
<1> HIDE DEF row
<1>5. /\ DOMAIN db' = DOMAIN db \cup {p}
      /\ \A q \in DOMAIN db : q # p => db'[q] = db[q]
      /\ db'[p] = row
  BY <1>1, <1>2
<1>6. /\ Labels'
      /\ pc' \in [Reads \cup Writes -> Awaits]
      /\ pc'[w] = "delList"
      /\ \A b \in Reads \cup Writes : b # w => pc'[b] = pc[b]
      /\ DOMAIN found' = {r \in Reads : pc'[r] = "set"}
  BY <1>1, <1>2, <1>5, WriteFrame DEF Awaits
<1>7. FoundIsFresh' /\ CachedExists' /\ StaleHasCause'
  BY <1>1, <1>5, <1>6, SaveCauses
<1>8. TypeOK'
  <2>1. Rows(db)'
    BY <1>2, <1>4, <1>5 DEF IInv, TypeOK, Rows
  <2>2. DOMAIN entity' = DOMAIN entity \ {w}
        /\ \A v \in DOMAIN entity' : entity'[v] = entity[v]
    BY <1>1 DEF Without
  <2>3. DOMAIN entity' = {v \in Writes : pc'[v] \in {"select", "update"}}
    BY <1>6, <2>2 DEF IInv, TypeOK
  <2>4. outdated' \subseteq DOMAIN found'
    BY <1>1 DEF IInv, TypeOK, Overtaken
  <2>5. dirty' \in [Writes -> SUBSET Columns]
    BY <1>1 DEF IInv, TypeOK
  <2> QED BY <1>1, <1>5, <1>6, <2>1, <2>2, <2>3, <2>4, <2>5 DEF IInv, TypeOK, Rows
<1> QED BY <1>6, <1>7, <1>8 DEF IInv

\* Steps of a write before its save and after its deletions.
LEMMA PreloadStep ==
  ASSUME IInv, NEW w \in Writes, Preload(w)
  PROVE  IInv'
<1> DEFINE merged == [c \in Columns |-> IF c \in DOMAIN Change[w] THEN Change[w][c]
                                        ELSE db[Target[w]][c]]
           label == IF Target[w] \in DOMAIN db THEN "select" ELSE "failed"
<1>1. /\ UNCHANGED <<db, cache, announced, found, dirty, redisErrors, outdated,
                     raced, kept>>
      /\ pc[w] = "idle" /\ Goto(w, label)
      /\ entity' = IF Target[w] \in DOMAIN db THEN With(entity, w, merged) ELSE entity
  BY DEF Preload
<1>2. Target[w] \in DOMAIN db => merged \in Row
  BY RowFacts DEF IInv, TypeOK, Rows
<1> HIDE DEF merged
<1>3. /\ Labels'
      /\ pc' \in [Reads \cup Writes -> Awaits]
      /\ pc'[w] = label
      /\ \A b \in Reads \cup Writes : b # w => pc'[b] = pc[b]
      /\ DOMAIN found' = {r \in Reads : pc'[r] = "set"}
  BY <1>1, WriteFrame DEF Awaits
<1>4. TypeOK'
  <2>1. DOMAIN entity' = {v \in Writes : pc'[v] \in {"select", "update"}}
        /\ \A v \in DOMAIN entity' : entity'[v] \in Row
    BY <1>1, <1>2, <1>3 DEF IInv, TypeOK, With
  <2> QED BY <1>1, <1>3, <2>1 DEF IInv, TypeOK, Rows
<1>5. FoundIsFresh'
  BY <1>1 DEF IInv, FoundIsFresh, Exists, Content, Rows
<1>6. \A v \in Writes : Undeleted(v)' = Undeleted(v)
  BY <1>1, <1>3 DEF Undeleted
<1>7. CachedExists' /\ StaleHasCause'
  BY <1>1, <1>6, SameCauses DEF Content, Exists
<1> QED BY <1>3, <1>4, <1>5, <1>7 DEF IInv

LEMMA SelectForSaveStep ==
  ASSUME IInv, NEW w \in Writes, SelectForSave(w)
  PROVE  IInv'
<1>1. /\ UNCHANGED <<db, cache, announced, found, entity, redisErrors, outdated,
                     raced, kept>>
      /\ pc[w] = "select" /\ Goto(w, "update")
      /\ dirty' \in [Writes -> SUBSET Columns]
      /\ Target[w] \in DOMAIN db
  BY DEF SelectForSave, IInv, TypeOK, Labels
<1>2. /\ Labels'
      /\ pc' \in [Reads \cup Writes -> Awaits]
      /\ pc'[w] = "update"
      /\ \A b \in Reads \cup Writes : b # w => pc'[b] = pc[b]
      /\ DOMAIN found' = {r \in Reads : pc'[r] = "set"}
  BY <1>1, WriteFrame DEF Awaits
<1>3. TypeOK'
  <2>1. DOMAIN entity' = {v \in Writes : pc'[v] \in {"select", "update"}}
    BY <1>1, <1>2 DEF IInv, TypeOK
  <2> QED BY <1>1, <1>2, <2>1 DEF IInv, TypeOK, Rows
<1>4. FoundIsFresh'
  BY <1>1 DEF IInv, FoundIsFresh, Exists, Content, Rows
<1>5. \A v \in Writes : Undeleted(v)' = Undeleted(v)
  BY <1>1, <1>2 DEF Undeleted
<1>6. CachedExists' /\ StaleHasCause'
  BY <1>1, <1>5, SameCauses DEF Content, Exists
<1> QED BY <1>2, <1>3, <1>4, <1>6 DEF IInv

LEMMA PublishStep ==
  ASSUME IInv, NEW w \in Writes, PublishProductCreated(w)
  PROVE  IInv'
<1>1. /\ UNCHANGED <<db, cache, found, entity, dirty, redisErrors, outdated, raced,
                     kept>>
      /\ pc[w] = "publish" /\ Goto(w, "done")
      /\ announced' = announced \cup {Target[w]}
      /\ Target[w] \in DOMAIN db
  BY DEF PublishProductCreated, IInv, Labels
<1>2. /\ Labels'
      /\ pc' \in [Reads \cup Writes -> Awaits]
      /\ pc'[w] = "done"
      /\ \A b \in Reads \cup Writes : b # w => pc'[b] = pc[b]
      /\ DOMAIN found' = {r \in Reads : pc'[r] = "set"}
  BY <1>1, WriteFrame DEF Awaits
<1>3. TypeOK'
  <2>1. DOMAIN entity' = {v \in Writes : pc'[v] \in {"select", "update"}}
    BY <1>1, <1>2 DEF IInv, TypeOK
  <2> QED BY <1>1, <1>2, <2>1 DEF IInv, TypeOK, Rows
<1>4. FoundIsFresh'
  BY <1>1 DEF IInv, FoundIsFresh, Exists, Content, Rows
<1>5. \A v \in Writes : Undeleted(v)' = Undeleted(v)
  BY <1>1, <1>2 DEF Undeleted
<1>6. CachedExists' /\ StaleHasCause'
  BY <1>1, <1>5, SameCauses DEF Content, Exists
<1> QED BY <1>2, <1>3, <1>4, <1>6 DEF IInv

-----------------------------------------------------------------------------
(* Deletions.                                                              *)

\* An entry that is removed has no cause left to need.
LEMMA DeleteCauses ==
  ASSUME IInv, NEW k \in Keys, Delete(k), UNCHANGED <<db, found, outdated>>,
         \A v \in Writes, x \in Keys :
           x # k /\ x \in Undeleted(v) => x \in Undeleted(v)'
  PROVE  /\ FoundIsFresh' /\ CachedExists' /\ StaleHasCause'
         /\ DOMAIN cache' \subseteq DOMAIN cache
         /\ \A x \in DOMAIN cache' : cache'[x] = cache[x]
         /\ raced' \subseteq DOMAIN cache'
<1>1. /\ DOMAIN cache' = DOMAIN cache \ {k}
      /\ \A x \in DOMAIN cache' : cache'[x] = cache[x]
      /\ raced' = raced \ {k} /\ kept' = kept \ {k}
  BY DEF Delete, Without
<1>2. FoundIsFresh' /\ CachedExists'
  BY <1>1 DEF IInv, FoundIsFresh, CachedExists, Exists, Content, Rows
<1>3. \A x \in Keys : Stale(x)' => Stale(x) /\ x # k
  BY <1>1 DEF Stale, Content
<1>4. \A x \in Keys : Excused(x) /\ x # k => Excused(x)'
  BY <1>1 DEF Excused
<1>5. StaleHasCause'
  BY <1>3, <1>4, CauseMeans DEF IInv, StaleHasCause, Excused
<1>6. raced' \subseteq DOMAIN cache'
  BY <1>1 DEF IInv, TypeOK
<1> QED BY <1>1, <1>2, <1>5, <1>6

LEMMA DeleteStep ==
  ASSUME IInv, NEW w \in Writes, DeleteList(w) \/ DeleteDetail(w)
  PROVE  IInv'
<1> DEFINE k == IF pc[w] = "delList" THEN List ELSE Target[w]
           label == IF pc[w] = "delList" THEN "delDetail"
                    ELSE IF Kind[w] = "create" THEN "publish" ELSE "done"
<1>1. /\ UNCHANGED <<db, announced, found, entity, dirty, redisErrors, outdated>>
      /\ pc[w] \in {"delList", "delDetail"} /\ Delete(k) /\ Goto(w, label)
      /\ k \in Keys /\ Target[w] \in DOMAIN db
  BY TargetAssumption DEF DeleteList, DeleteDetail, Keys, IInv, Labels
<1>2. label \in Awaits \ {"query", "set"} /\ label # "select" /\ label # "update"
  BY DEF Awaits
<1>3. /\ Labels'
      /\ pc' \in [Reads \cup Writes -> Awaits]
      /\ pc'[w] = label
      /\ \A b \in Reads \cup Writes : b # w => pc'[b] = pc[b]
      /\ DOMAIN found' = {r \in Reads : pc'[r] = "set"}
  BY <1>1, <1>2, WriteFrame
<1>4. \A v \in Writes, x \in Keys : x # k /\ x \in Undeleted(v) => x \in Undeleted(v)'
  <2> SUFFICES ASSUME NEW v \in Writes, NEW x \in Keys, x # k, x \in Undeleted(v)
               PROVE  x \in Undeleted(v)'
    OBVIOUS
  <2>1. CASE v # w
    BY <1>3, <2>1, UndeletedFacts
  <2>2. CASE v = w /\ pc[w] = "delList"
    BY <1>3, <2>2, UndeletedFacts
  <2>3. CASE v = w /\ pc[w] = "delDetail"
    BY <2>3, UndeletedFacts
  <2> QED BY <1>1, <2>1, <2>2, <2>3
<1> HIDE DEF k, label
<1>5. /\ FoundIsFresh' /\ CachedExists' /\ StaleHasCause'
      /\ DOMAIN cache' \subseteq DOMAIN cache
      /\ \A x \in DOMAIN cache' : cache'[x] = cache[x]
      /\ raced' \subseteq DOMAIN cache'
  BY <1>1, <1>4, DeleteCauses
<1>6. TypeOK'
  <2>1. DOMAIN entity' = {v \in Writes : pc'[v] \in {"select", "update"}}
    BY <1>1, <1>2, <1>3 DEF IInv, TypeOK
  <2>2. \A x \in DOMAIN cache' : IF x = List THEN Rows(cache'[x]) ELSE cache'[x] \in Row
    BY <1>5 DEF IInv, TypeOK
  <2> QED BY <1>1, <1>3, <1>5, <2>1, <2>2 DEF IInv, TypeOK, Rows
<1> QED BY <1>3, <1>5, <1>6 DEF IInv

LEMMA ExpireStep ==
  ASSUME IInv, NEW k \in Keys, Expire(k)
  PROVE  IInv'
<1>1. /\ UNCHANGED <<db, announced, pc, found, entity, dirty, redisErrors, outdated>>
      /\ Delete(k)
  BY DEF Expire
<1>2. \A v \in Writes : Undeleted(v)' = Undeleted(v)
  BY <1>1, UndeletedFacts
<1>3. /\ FoundIsFresh' /\ CachedExists' /\ StaleHasCause'
      /\ DOMAIN cache' \subseteq DOMAIN cache
      /\ \A x \in DOMAIN cache' : cache'[x] = cache[x]
      /\ raced' \subseteq DOMAIN cache'
  BY <1>1, <1>2, DeleteCauses
<1>4. TypeOK'
  <2>1. \A x \in DOMAIN cache' : IF x = List THEN Rows(cache'[x]) ELSE cache'[x] \in Row
    BY <1>3 DEF IInv, TypeOK
  <2> QED BY <1>1, <1>3, <2>1 DEF IInv, TypeOK, Rows
<1>5. Labels'
  BY <1>1 DEF IInv, Labels
<1> QED BY <1>3, <1>4, <1>5 DEF IInv

\* What the request was still to delete is kept.
LEMMA RedisFailsWriteStep ==
  ASSUME IInv, NEW w \in Writes, RedisFailsWrite(w)
  PROVE  IInv'
<1>1. /\ UNCHANGED <<db, cache, announced, found, entity, dirty, outdated, raced>>
      /\ pc[w] \in {"delList", "delDetail"} /\ Goto(w, "failed")
      /\ kept' = kept \cup Undeleted(w)
      /\ redisErrors' \in 0..MaxRedisErrors
  BY ErrorsAssumption DEF RedisFailsWrite, IInv, TypeOK
<1>2. /\ Labels'
      /\ pc' \in [Reads \cup Writes -> Awaits]
      /\ pc'[w] = "failed"
      /\ \A b \in Reads \cup Writes : b # w => pc'[b] = pc[b]
      /\ DOMAIN found' = {r \in Reads : pc'[r] = "set"}
  BY <1>1, WriteFrame DEF Awaits
<1>3. TypeOK'
  <2>1. DOMAIN entity' = {v \in Writes : pc'[v] \in {"select", "update"}}
    BY <1>1, <1>2 DEF IInv, TypeOK
  <2> QED BY <1>1, <1>2, <2>1 DEF IInv, TypeOK, Rows
<1>4. FoundIsFresh' /\ CachedExists'
  BY <1>1 DEF IInv, FoundIsFresh, CachedExists, Exists, Content, Rows
<1>5. \A k \in Keys : Stale(k)' => Stale(k)
  BY <1>1 DEF Stale, Content
<1>6. \A v \in Writes : v # w => Undeleted(v)' = Undeleted(v)
  BY <1>2, UndeletedFacts
<1>7. \A k \in Keys : Excused(k) => Excused(k)'
  BY <1>1, <1>6 DEF Excused
<1>8. StaleHasCause'
  BY <1>5, <1>7, CauseMeans DEF IInv, StaleHasCause, Excused
<1> QED BY <1>2, <1>3, <1>4, <1>8 DEF IInv

LEMMA NextIInv == IInv /\ [Next]_vars => IInv'
<1> SUFFICES ASSUME IInv, [Next]_vars PROVE IInv'
  OBVIOUS
<1>1. ASSUME NEW r \in Reads, Read(r) \/ RedisFailsRead(r)
      PROVE  IInv'
  BY <1>1, GetStep, QueryStep, FillStep, RedisFailsReadStep DEF Read
<1>2. ASSUME NEW w \in Writes, Write(w) \/ RedisFailsWrite(w)
      PROVE  IInv'
  BY <1>2, SaveNewStep, PreloadStep, SelectForSaveStep, UpdateRowStep, DeleteStep,
     PublishStep, RedisFailsWriteStep DEF Write
<1>3. ASSUME NEW k \in Keys, Expire(k)
      PROVE  IInv'
  BY <1>3, ExpireStep
<1>4. CASE UNCHANGED vars
  <2>1. TypeOK' /\ Labels' /\ FoundIsFresh'
    BY <1>4 DEF vars, IInv, TypeOK, Rows, Labels, FoundIsFresh, Exists, Content
  <2>2. \A v \in Writes : Undeleted(v)' = Undeleted(v)
    BY <1>4, UndeletedFacts DEF vars
  <2>3. CachedExists' /\ StaleHasCause'
    BY <1>4, <2>2, SameCauses DEF vars, Content, Exists
  <2> QED BY <2>1, <2>3 DEF IInv
<1> QED BY <1>1, <1>2, <1>3, <1>4 DEF Next

-----------------------------------------------------------------------------
(* Theorems.                                                               *)

LEMMA InvariantHolds == Spec => []IInv
BY InitIInv, NextIInv, PTL DEF Spec

\* Rows, cached rows and the rows that requests hold in memory stay complete
\* rows, and product.created is published only for a product that has one.
THEOREM TypesHold == Spec => []TypeOK
<1>1. IInv => TypeOK
  BY DEF IInv
<1> QED BY <1>1, InvariantHolds, PTL

\* There is no other way to a wrong cached answer than a save whose deletions
\* are under way, a deletion that failed, or a read that a save overtook.
THEOREM StalenessIsExplained == Spec => []StaleHasCause
<1>1. IInv => StaleHasCause
  BY DEF IInv
<1> QED BY <1>1, InvariantHolds, PTL
=============================================================================
