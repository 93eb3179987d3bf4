----------------------------- MODULE StmtCache ------------------------------
(***************************************************************************)
(* stmt_cache.c: a doubly linked list in order of use and a chained hash   *)
(* table over the same entries.  A cache is a record; every function of    *)
(* the C code is an operator on it.  Pointers are elements of Nodes, NULL  *)
(* is Null, an SQL text is a model value whose hash_sql value is           *)
(* Hash[sql].  Memory that runs out is a branch the caller chooses.        *)
(***************************************************************************)
EXTENDS Naturals, FiniteSets, Sequences

CONSTANTS
  Sqls,         \* SQL texts
  Stmts,        \* statements prepare may return
  Nodes,        \* addresses of cache entries
  Null,
  MinBuckets,   \* C2SQL_CACHE_MIN_BUCKETS
  MaxCapacity,  \* the largest stmt_cache_size configured
  Hash          \* hash_sql

ASSUME CacheAssumption ==
  /\ Null \notin Nodes \cup Stmts \cup Sqls
  /\ IsFiniteSet(Nodes)
  /\ MinBuckets \in Nat \ {0} /\ MaxCapacity \in Nat
  /\ Hash \in [Sqls -> Nat]

Pow2(n) == 2^n

next_pow2_at_least(n) ==
  Pow2(CHOOSE k \in 0..n : Pow2(k) >= n /\ \A j \in 0..(k-1) : Pow2(j) < n)

bucket_count_for(capacity) ==
  IF capacity = 0 THEN 0
  ELSE next_pow2_at_least(IF capacity * 2 < MinBuckets THEN MinBuckets ELSE capacity * 2)

Buckets == 0..(bucket_count_for(MaxCapacity) - 1)

Entry == [sql : Sqls \cup {Null}, stmt : Stmts \cup {Null}, lru_prev : Nodes \cup {Null},
          lru_next : Nodes \cup {Null}, bucket_next : Nodes \cup {Null}]

NoEntry == [sql |-> Null, stmt |-> Null, lru_prev |-> Null, lru_next |-> Null, bucket_next |-> Null]

Cache == [capacity : 0..MaxCapacity, size : 0..Cardinality(Nodes),
          lru_head : Nodes \cup {Null}, lru_tail : Nodes \cup {Null},
          bucket_count : 0..bucket_count_for(MaxCapacity),
          buckets : [Buckets -> Nodes \cup {Null}],
          at : [Nodes -> Entry]]     \* what is stored at each address

\* Faulty variant: room for one entry too many.
cache_init_OffByOne(capacity) ==
  [capacity |-> capacity + 1, size |-> 0, lru_head |-> Null, lru_tail |-> Null,
   bucket_count |-> bucket_count_for(capacity), buckets |-> [i \in Buckets |-> Null],
   at |-> [e \in Nodes |-> NoEntry]]

cache_init(capacity) ==
  [capacity |-> capacity, size |-> 0, lru_head |-> Null, lru_tail |-> Null,
   bucket_count |-> bucket_count_for(capacity), buckets |-> [i \in Buckets |-> Null],
   at |-> [e \in Nodes |-> NoEntry]]

-----------------------------------------------------------------------------
(* The list in order of use *)

\* Faulty variant: the tail is not moved.
lru_unlink_KeepsTail(c, e) ==
  LET prev == c.at[e].lru_prev
      next == c.at[e].lru_next
      at1  == IF prev = Null THEN c.at ELSE [c.at EXCEPT ![prev].lru_next = next]
      at2  == IF next = Null THEN at1 ELSE [at1 EXCEPT ![next].lru_prev = prev]
  IN  [c EXCEPT !.lru_head = IF prev = Null THEN next ELSE @,
                !.at = [at2 EXCEPT ![e].lru_prev = Null, ![e].lru_next = Null]]

lru_unlink(c, e) ==
  LET prev == c.at[e].lru_prev
      next == c.at[e].lru_next
      at1  == IF prev = Null THEN c.at ELSE [c.at EXCEPT ![prev].lru_next = next]
      at2  == IF next = Null THEN at1 ELSE [at1 EXCEPT ![next].lru_prev = prev]
  IN  [c EXCEPT !.lru_head = IF prev = Null THEN next ELSE @,
                !.lru_tail = IF next = Null THEN prev ELSE @,
                !.at = [at2 EXCEPT ![e].lru_prev = Null, ![e].lru_next = Null]]

lru_push_front(c, e) ==
  LET at1 == [c.at EXCEPT ![e].lru_prev = Null, ![e].lru_next = c.lru_head]
  IN  [c EXCEPT !.at = IF c.lru_head = Null THEN at1
                       ELSE [at1 EXCEPT ![c.lru_head].lru_prev = e],
                !.lru_head = e,
                !.lru_tail = IF @ = Null THEN e ELSE @]

\* Faulty variant: a use does not count.
lru_promote_Not(c, e) == c

lru_promote(c, e) ==
  IF c.lru_head = e THEN c ELSE lru_push_front(lru_unlink(c, e), e)

\* The entries met from first on, following the pointer field step; at most as many
\* as there are addresses.
Follow(c, first, step) ==
  LET f[n \in 0..Cardinality(Nodes)] ==
        IF n = 0 THEN first
        ELSE IF f[n-1] = Null THEN Null ELSE c.at[f[n-1]][step]
      len == Cardinality({n \in 0..Cardinality(Nodes) : f[n] # Null})
  IN  [i \in 1..len |-> f[i-1]]

-----------------------------------------------------------------------------
(* The hash table *)

bucket_index(c, sql) == Hash[sql] % c.bucket_count

Chain(c, idx) == Follow(c, c.buckets[idx], "bucket_next")

\* Faulty variant: the texts are not compared.
bucket_find_NoCompare(c, sql) ==
  LET head == c.buckets[bucket_index(c, sql)] IN {head} \ {Null}

\* The first entry of the chain with this text, as a set of at most one.
bucket_find(c, sql) ==
  LET chain == Chain(c, bucket_index(c, sql))
  IN  { chain[i] : i \in { j \in 1..Len(chain) : /\ c.at[chain[j]].sql = sql
                                                 /\ \A k \in 1..(j-1) : c.at[chain[k]].sql # sql } }

bucket_unlink(c, e) ==
  LET idx  == bucket_index(c, c.at[e].sql)
      chain == Chain(c, idx)
      next  == c.at[e].bucket_next
      skip  == [ n \in Nodes |->
                  IF \E i \in 2..Len(chain) : chain[i] = e /\ chain[i-1] = n
                  THEN [c.at[n] EXCEPT !.bucket_next = next] ELSE c.at[n] ]
  IN  [c EXCEPT !.buckets[idx] = IF @ = e THEN next ELSE @,
                !.at = [skip EXCEPT ![e].bucket_next = Null]]

bucket_insert(c, e) ==
  LET idx == bucket_index(c, c.at[e].sql)
  IN  [c EXCEPT !.at[e].bucket_next = c.buckets[idx], !.buckets[idx] = e]

-----------------------------------------------------------------------------
(* The functions the rest of the library calls.  The ones that finalize      *)
(* statements return them with the cache: [c, fin].                          *)

\* The entry's memory is given back.
Freed(c, e) == [c EXCEPT !.at[e] = NoEntry]

\* Faulty variant: the evicted statement is not finalized.
evict_lru_tail_Leaks(c) ==
  LET e == c.lru_tail
      d == bucket_unlink(lru_unlink(c, e), e)
  IN  IF e = Null THEN [c |-> c, fin |-> {}]
      ELSE [c |-> Freed([d EXCEPT !.size = @ - 1], e), fin |-> {}]

evict_lru_tail(c) ==
  LET e == c.lru_tail
      d == bucket_unlink(lru_unlink(c, e), e)
  IN  IF e = Null THEN [c |-> c, fin |-> {}]
      ELSE [c |-> Freed([d EXCEPT !.size = @ - 1], e), fin |-> {c.at[e].stmt}]

\* The entry found, as a set of at most one, and the cache after the lookup.
Lookup(c, sql) == IF c.capacity = 0 \/ c.size = 0 THEN {} ELSE bucket_find(c, sql)

cache_get(c, sql) ==
  IF Lookup(c, sql) = {} THEN c
  ELSE lru_promote(c, CHOOSE e \in Lookup(c, sql) : TRUE)

\* noMemory: calloc or malloc of the new entry fails.
cache_put(c, sql, stmt, noMemory) ==
  LET existing == bucket_find(c, sql)
      room  == IF c.size >= c.capacity THEN evict_lru_tail(c) ELSE [c |-> c, fin |-> {}]
      e     == CHOOSE n \in Nodes : room.c.at[n] = NoEntry
      entry == [NoEntry EXCEPT !.sql = sql, !.stmt = stmt]
      d     == lru_push_front(bucket_insert([room.c EXCEPT !.at[e] = entry], e), e)
  IN  CASE c.capacity = 0 -> [c |-> c, fin |-> {stmt}]
        [] c.capacity # 0 /\ existing # {} ->
             LET x == CHOOSE n \in existing : TRUE
             IN  [c |-> lru_promote([c EXCEPT !.at[x].stmt = stmt], x), fin |-> {c.at[x].stmt}]
        [] c.capacity # 0 /\ existing = {} /\ noMemory ->
             [c |-> room.c, fin |-> room.fin \cup {stmt}]
        [] c.capacity # 0 /\ existing = {} /\ ~noMemory ->
             [c |-> [d EXCEPT !.size = @ + 1], fin |-> room.fin]

\* The list from the head, most recently used first.
LruList(c) == Follow(c, c.lru_head, "lru_next")

\* Evicts from the tail until at most n entries are left.
Shrink(c, n) ==
  LET f[k \in 0..Cardinality(Nodes)] ==
        IF k = 0 \/ c.size <= n THEN [c |-> c, fin |-> {}]
        ELSE LET x == f[k-1]
                 y == evict_lru_tail(x.c)
             IN  IF x.c.size <= n THEN x ELSE [c |-> y.c, fin |-> x.fin \cup y.fin]
  IN  f[Cardinality(Nodes)]

\* Every entry of the list put into an empty table of count buckets, the head first.
Rehash(c, count) ==
  LET lru   == LruList(c)
      empty == [c EXCEPT !.bucket_count = count, !.buckets = [i \in Buckets |-> Null],
                         !.at = [e \in Nodes |-> [c.at[e] EXCEPT !.bucket_next = Null]]]
      f[i \in 0..Len(lru)] == IF i = 0 THEN empty ELSE bucket_insert(f[i-1], lru[i])
  IN  f[Len(lru)]

\* noMemory: the new bucket table cannot be allocated, if one is needed.
cache_rebuild(c, new_capacity, noMemory) ==
  LET s    == Shrink(c, new_capacity)
      want == bucket_count_for(new_capacity)
  IN  CASE new_capacity = 0 ->
             [ok |-> TRUE, fin |-> s.fin,
              c |-> [s.c EXCEPT !.bucket_count = 0, !.capacity = 0,
                                !.buckets = [i \in Buckets |-> Null]]]
        [] new_capacity # 0 /\ want = s.c.bucket_count ->
             [ok |-> TRUE, fin |-> s.fin, c |-> [s.c EXCEPT !.capacity = new_capacity]]
        [] new_capacity # 0 /\ want # s.c.bucket_count /\ ~noMemory ->
             [ok |-> TRUE, fin |-> s.fin, c |-> [Rehash(s.c, want) EXCEPT !.capacity = new_capacity]]
        [] new_capacity # 0 /\ want # s.c.bucket_count /\ noMemory ->
             [ok |-> FALSE, fin |-> s.fin, c |-> s.c]

\* Every entry of the list is finalized; the cache is zeroed.
cache_destroy(c) ==
  [c |-> cache_init(0), fin |-> { c.at[LruList(c)[i]].stmt : i \in 1..Len(LruList(c)) }]

=============================================================================
