----------------------------- MODULE Statements -----------------------------
(***************************************************************************)
(* Who owns a prepared statement: the cache, the API call that is running, *)
(* or an iterator of ReadMany.  An API call that uses a cached statement   *)
(* is two steps, get_or_prepare and release_cached_stmt, with the binding  *)
(* and stepping between them; the handle mutex lets no other call in, so   *)
(* the other actions wait until it is released.  The one-shot statements   *)
(* of count_matching_rows and ReadBlobField are prepared and finalized     *)
(* within one call and never visible here.                                 *)
(***************************************************************************)
EXTENDS StmtCache

CONSTANTS DefaultCapacity,   \* DEFAULT_CONFIG.stmt_cache_size
          NoCall             \* no statement is in use

ASSUME StatementsAssumption == DefaultCapacity \in 0..MaxCapacity

VARIABLES
  up,       \* the handle is open
  config,   \* h->config.stmt_cache_size
  cache,    \* h->cache
  text,     \* for each statement the SQL it was prepared from; Null: not open
  call,     \* the statement in use: [stmt, sql, owned], or NoCall
  iters,    \* raw statements of the open iterators
  ret       \* what the last step returned

vars == <<up, config, cache, text, call, iters, ret>>

OK        == "OK"
DRIVER    == "ERR_DRIVER"
NO_MEMORY == "ERR_NO_MEMORY"
INTERNAL  == "ERR_INTERNAL"

TypeOK ==
  /\ up \in BOOLEAN
  /\ config \in 0..MaxCapacity
  /\ cache \in Cache
  /\ text \in [Stmts -> Sqls \cup {Null}]
  /\ call \in [stmt : Stmts, sql : Sqls, owned : BOOLEAN] \cup {NoCall}
  /\ iters \subseteq Stmts
  /\ ret \in {OK, DRIVER, NO_MEMORY, INTERNAL}

Init ==
  /\ up = TRUE
  /\ config = DefaultCapacity
  /\ cache = cache_init(DefaultCapacity)
  /\ text = [s \in Stmts |-> Null]
  /\ call = NoCall
  /\ iters = {}
  /\ ret = OK

\* driver->finalize of every statement in S.
Finalized(S) == [s \in Stmts |-> IF s \in S THEN Null ELSE text[s]]

\* driver->prepare: statements that may be returned.
Fresh == {s \in Stmts : text[s] = Null}

Using(stmt, sql, owned) == call' = [stmt |-> stmt, sql |-> sql, owned |-> owned]

-----------------------------------------------------------------------------

GetHit(sql) ==
  /\ \E e \in Lookup(cache, sql) : Using(cache.at[e].stmt, sql, FALSE)
  /\ cache' = cache_get(cache, sql)
  /\ ret' = OK
  /\ UNCHANGED text

\* A miss: prepare, then store the statement and look it up again.
PrepareAndPut(sql, stmt, noMemory) ==
  LET put == cache_put(cache, sql, stmt, noMemory)
      prepared == [text EXCEPT ![stmt] = sql]
  IN  /\ Lookup(cache, sql) = {}
      /\ cache.capacity > 0
      /\ cache' = IF noMemory THEN put.c ELSE cache_get(put.c, sql)
      /\ text' = [s \in Stmts |-> IF s \in put.fin THEN Null ELSE prepared[s]]
      /\ CASE noMemory -> ret' = NO_MEMORY /\ UNCHANGED call
           [] ~noMemory /\ Lookup(put.c, sql) = {} -> ret' = INTERNAL /\ UNCHANGED call
           [] ~noMemory /\ Lookup(put.c, sql) # {} ->
                /\ ret' = OK
                /\ \E e \in Lookup(put.c, sql) : Using(put.c.at[e].stmt, sql, FALSE)

\* A miss with the cache disabled: the call owns the statement.
PrepareOwned(sql, stmt) ==
  /\ Lookup(cache, sql) = {}
  /\ cache.capacity = 0
  /\ text' = [text EXCEPT ![stmt] = sql]
  /\ Using(stmt, sql, TRUE)
  /\ ret' = OK
  /\ UNCHANGED cache

PrepareFails(sql) ==
  /\ Lookup(cache, sql) = {}
  /\ ret' = DRIVER
  /\ UNCHANGED <<cache, text, call>>

get_or_prepare(sql) ==
  /\ up /\ call = NoCall
  /\ \/ GetHit(sql)
     \/ \E stmt \in Fresh, noMemory \in BOOLEAN : PrepareAndPut(sql, stmt, noMemory)
     \/ \E stmt \in Fresh : PrepareOwned(sql, stmt)
     \/ PrepareFails(sql)
  /\ UNCHANGED <<up, config, iters>>

release_cached_stmt ==
  /\ call # NoCall
  /\ text' = IF call.owned THEN Finalized({call.stmt}) ELSE text
  /\ call' = NoCall
  /\ ret' = OK
  /\ UNCHANGED <<up, config, cache, iters>>

\* The iterator's statement does not go through the cache; when a bind or the
\* iterator's malloc fails it is finalized before the call returns.
SqlRDBReadMany(sql) ==
  /\ up /\ call = NoCall
  /\ \/ \E stmt \in Fresh :
          /\ text' = [text EXCEPT ![stmt] = sql]
          /\ iters' = iters \cup {stmt}
          /\ ret' = OK
     \/ /\ ret' \in {DRIVER, NO_MEMORY}
        /\ UNCHANGED <<text, iters>>
  /\ UNCHANGED <<up, config, cache, call>>

SqlRDBStmtFree(stmt) ==
  /\ up /\ call = NoCall
  /\ stmt \in iters
  /\ iters' = iters \ {stmt}
  /\ text' = Finalized({stmt})
  /\ ret' = OK
  /\ UNCHANGED <<up, config, cache, call>>

SqlRDBSetConfig(stmt_cache_size) ==
  /\ up /\ call = NoCall
  /\ \/ /\ stmt_cache_size = config
        /\ ret' = OK
        /\ UNCHANGED <<config, cache, text>>
     \/ /\ stmt_cache_size # config
        /\ \E noMemory \in BOOLEAN :
              LET b == cache_rebuild(cache, stmt_cache_size, noMemory)
              IN  /\ cache' = b.c
                  /\ text' = Finalized(b.fin)
                  /\ config' = IF b.ok THEN stmt_cache_size ELSE config
                  /\ ret' = IF b.ok THEN OK ELSE NO_MEMORY
  /\ UNCHANGED <<up, call, iters>>

\* The client has freed its iterators: StmtFree would use the handle.
SqlRDBClose ==
  /\ up /\ call = NoCall /\ iters = {}
  /\ LET d == cache_destroy(cache)
     IN  cache' = d.c /\ text' = Finalized(d.fin)
  /\ up' = FALSE
  /\ ret' = OK
  /\ UNCHANGED <<config, call, iters>>

SqlRDBInit ==
  /\ ~up
  /\ up' = TRUE
  /\ config' = DefaultCapacity
  /\ cache' = cache_init(DefaultCapacity)
  /\ ret' = OK
  /\ UNCHANGED <<text, call, iters>>

Next ==
  \/ \E sql \in Sqls : get_or_prepare(sql) \/ SqlRDBReadMany(sql)
  \/ release_cached_stmt
  \/ \E stmt \in Stmts : SqlRDBStmtFree(stmt)
  \/ \E n \in 0..MaxCapacity : SqlRDBSetConfig(n)
  \/ SqlRDBClose \/ SqlRDBInit

Spec == Init /\ [][Next]_vars

-----------------------------------------------------------------------------
(* Properties *)

Elements(s) == {s[i] : i \in DOMAIN s}

\* The list and the hash table hold the same entries: the list is linked the same
\* way in both directions, has size entries and no more than capacity, each entry
\* is the one its text finds, no chain leads out of the list, and no entry that
\* was allocated is in neither.
ListAndTable ==
  LET lru == LruList(cache)
  IN  /\ Len(lru) = cache.size /\ cache.size <= cache.capacity
      /\ Cardinality(Elements(lru)) = cache.size
      /\ cache.lru_tail = IF lru = << >> THEN Null ELSE lru[Len(lru)]
      /\ \A i \in 1..Len(lru) :
            /\ cache.at[lru[i]].lru_prev = IF i = 1 THEN Null ELSE lru[i-1]
            /\ bucket_find(cache, cache.at[lru[i]].sql) = {lru[i]}
      /\ \A b \in Buckets : Elements(Chain(cache, b)) \subseteq Elements(lru)
      /\ \A e \in Nodes \ Elements(lru) : cache.at[e] = NoEntry

CachedStmts == {cache.at[e].stmt : e \in Elements(LruList(cache))}
OwnedStmts  == IF call # NoCall /\ call.owned THEN {call.stmt} ELSE {}

\* Every open statement has exactly one owner that will finalize it, and no owner
\* has one that is closed: nothing is leaked or finalized twice by eviction,
\* resizing, disabling or destroying the cache, or when memory runs out.
OwnedOnce ==
  /\ {s \in Stmts : text[s] # Null} = CachedStmts \cup OwnedStmts \cup iters
  /\ Cardinality(CachedStmts) = cache.size
  /\ CachedStmts \cap (OwnedStmts \cup iters) = {} /\ OwnedStmts \cap iters = {}

\* The statement a call works with is open and was prepared from the text the call
\* asked for; the lookup after a store never misses ("should not happen" in
\* get_or_prepare).
RightStatement ==
  /\ call # NoCall => text[call.stmt] = call.sql
  /\ ret # INTERNAL

Lru == INSTANCE LruCache
  WITH Capacities <- 0..MaxCapacity, None <- Null, open <- up,
       inUse <- IF call = NoCall THEN Null ELSE call.sql, capacity <- cache.capacity,
       order <- [i \in 1..Len(LruList(cache)) |-> cache.at[LruList(cache)[i]].sql]

\* A resize whose new bucket table could not be allocated: the capacity stays, and of
\* the remembered texts the most recently used ones.
ResizeFails ==
  /\ \E n \in 0..MaxCapacity : SqlRDBSetConfig(n)
  /\ ret' = NO_MEMORY
  /\ cache'.capacity = cache.capacity
  /\ LruList(cache)' = SubSeq(LruList(cache), 1, cache'.size)

\* After get_or_prepare the text it was asked for is the most recently used one of
\* the cache, a full cache evicts the least recently used one, and no other call
\* reorders or forgets texts except as resizing must: every step is one LruCache
\* allows, but for a SetConfig that runs out of memory, which may forget the least
\* recently used texts.
LruUnlessResizeFails == Lru!Init /\ [][Lru!Next \/ ResizeFails]_(Lru!vars)

\* The cache is a LruCache also when a resize fails.  stmt_cache.h says of
\* c2sql_internal_cache_rebuild that "on failure the original cache state is
\* preserved"; the code evicts before it allocates.
RefinesLru == Lru!Spec

=============================================================================
