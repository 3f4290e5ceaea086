---------------------------- MODULE CatalogCache ----------------------------
(***************************************************************************)
(* The catalogue read-through cache (C6) and the catalog gRPC handlers   *)
(* that drive it (src/services/catalog/internal/grpc/server.go):           *)
(* CatalogService GetProduct, ListProducts, CreateProduct, UpdateProduct,  *)
(* UpdateStock (src/unnamed/part_001) over RedisCache GetJSON / SetJSON /  *)
(* Delete (src/unnamed/part_009) and ProductRepository                     *)
(* (src/services/catalog/internal/repository/product_repository.go).      *)
(*                                                                         *)
(* One product.  The database is the product row's version (every Update  *)
(* or UpdateStock makes a new one), the columns Update writes, and the     *)
(* number of products created after it, which changes what a list query  *)
(* returns.  Cache key "product" stands for product:<id>, key "list" for   *)
(* the products:list:<json> key of the one list query the readers issue.  *)
(* A cached value is the database value it was filled from.  Each Redis    *)
(* call and each database statement is one step; TTL expiry of an entry   *)
(* is an action.  A Redis error on Get is a miss; on Set or Delete it is   *)
(* logged and nothing is written.  The UpdateProduct handler reads the     *)
(* product through GetProduct, copies the request's fields over it and     *)
(* writes the whole product back.                                          *)
(***************************************************************************)
EXTENDS Naturals

CONSTANTS
    Readers,       \* concurrent GetProduct / ListProducts calls
    Writers,       \* concurrent UpdateProduct / UpdateStock / CreateProduct calls
    MaxVersion,    \* bound on product versions
    MaxCreates,    \* bound on products created
    Absent         \* model value: no Redis entry

VARIABLES
    db,         \* [prod : row version, fields : field -> value, created : products added]
    cache,      \* Redis: key -> the value stored, or Absent
    reader,     \* per reader: [pc, key, val]
    writer      \* per writer: [pc, op, set, got]
vars == <<db, cache, reader, writer>>

CacheKeys == {"product", "list"}

\* The columns ProductRepository.Update writes (name, description, price,
\* category), two of them.  A value is the version of the write that set it.
Fields == {"name", "price"}

Db == [prod : 0..MaxVersion, fields : [Fields -> 0..MaxVersion], created : 0..MaxCreates]

\* ProductRepository reads: GetByID returns the product row; List returns a
\* page, which also changes when a product is created.
RepoGetByID(d) == [d EXCEPT !.created = 0]
RepoList(d) == d

\* ProductRepository writes: Update sets the fields of product p and gives
\* the row a new version (updated_at); UpdateStock adds to stock_quantity,
\* a new version with the same fields; Create adds a row.
RepoUpdate(d, p) == [d EXCEPT !.prod = @ + 1, !.fields = p.fields]
RepoUpdateStock(d) == [d EXCEPT !.prod = @ + 1]
RepoCreate(d) == [d EXCEPT !.created = @ + 1]

\* What a fill of key k stores: the product row, or the list page.
ValueOf(k, d) == IF k = "product" THEN RepoGetByID(d) ELSE RepoList(d)

WriterState == [pc : {"idle", "db", "fill", "write", "invalidate"},
                op : {"none", "update", "stock", "create"},
                set : SUBSET Fields, got : Db \cup {Absent}]

TypeOK ==
    /\ db \in Db
    /\ cache \in [CacheKeys -> Db \cup {Absent}]
    /\ reader \in [Readers -> [pc : {"idle", "db", "fill"}, key : CacheKeys,
                               val : Db \cup {Absent}]]
    /\ writer \in [Writers -> WriterState]

IdleWriter == [pc |-> "idle", op |-> "none", set |-> {}, got |-> Absent]

Init ==
    /\ db = [prod |-> 0, fields |-> [f \in Fields |-> 0], created |-> 0]
    /\ cache = [k \in CacheKeys |-> Absent]
    /\ reader = [r \in Readers |-> [pc |-> "idle", key |-> "product", val |-> Absent]]
    /\ writer = [w \in Writers |-> IdleWriter]

-----------------------------------------------------------------------------
(* RedisCache.GetJSON of key k missing (no entry, or a Redis error, which  *)
(* is logged): the call goes to the database.  A hit returns the cached    *)
(* value and, for a read, changes nothing.                                 *)
CacheMiss(r, k) ==
    /\ reader[r].pc = "idle"
    /\ reader' = [reader EXCEPT ![r] = [pc |-> "db", key |-> k, val |-> Absent]]
    /\ UNCHANGED <<db, cache, writer>>

\* GetProduct handler: CatalogService.GetProduct on product:<id>.
GetProduct(r) == CacheMiss(r, "product")

\* ListProducts handler: the clamped page size, cursor, category and search
\* make the one list key the readers use.
ListProducts(r) == CacheMiss(r, "list")

(* Step 2: repo.GetByID / repo.List.                                      *)
DbRead(r) ==
    /\ reader[r].pc = "db"
    /\ reader' = [reader EXCEPT ![r].pc = "fill", ![r].val = ValueOf(reader[r].key, db)]
    /\ UNCHANGED <<db, cache, writer>>

\* RedisCache.SetJSON(k, v, TTL), or its error logged.
SetJSON(k, v) ==
    \/ cache' = [cache EXCEPT ![k] = v]
    \/ UNCHANGED cache

(* Step 3: SetJSON(key, value read in step 2, TTL).                       *)
CacheFill(r) ==
    /\ reader[r].pc = "fill"
    /\ SetJSON(reader[r].key, reader[r].val)
    /\ reader' = [reader EXCEPT ![r] = [pc |-> "idle", key |-> "product", val |-> Absent]]
    /\ UNCHANGED <<db, writer>>

-----------------------------------------------------------------------------
(* UpdateProduct handler, step 1: CatalogService.GetProduct, whose GetJSON *)
(* on a hit hands the cached product to the handler.  set is the fields   *)
(* the request carries (non-empty name, price, ...).                      *)
UpdateProduct(w, set) ==
    /\ writer[w].pc = "idle"
    /\ db.prod < MaxVersion
    /\ \/ /\ cache["product"] # Absent
          /\ writer' = [writer EXCEPT ![w] = [pc |-> "write", op |-> "update",
                                              set |-> set, got |-> cache["product"]]]
       \/ writer' = [writer EXCEPT ![w] = [pc |-> "db", op |-> "update",
                                           set |-> set, got |-> Absent]]
    /\ UNCHANGED <<db, cache, reader>>

(* GetProduct on a miss: repo.GetByID ...                                 *)
UpdateProductDbRead(w) ==
    /\ writer[w].pc = "db"
    /\ writer' = [writer EXCEPT ![w].pc = "fill", ![w].got = RepoGetByID(db)]
    /\ UNCHANGED <<db, cache, reader>>

(* ... then SetJSON of the row it read.                                   *)
UpdateProductFill(w) ==
    /\ writer[w].pc = "fill"
    /\ SetJSON("product", writer[w].got)
    /\ writer' = [writer EXCEPT ![w].pc = "write"]
    /\ UNCHANGED <<db, reader>>

\* The handler copies the request's fields over the product it got; version v
\* is the value a field set by this request takes.
ApplyRequest(p, set, v) ==
    [p EXCEPT !.fields = [f \in Fields |-> IF f \in set THEN v ELSE p.fields[f]]]

(* UpdateProduct handler, step 2: CatalogService.UpdateProduct's           *)
(* repo.Update of the whole product.                                      *)
UpdateProductWrite(w) ==
    /\ writer[w].pc = "write"
    /\ db.prod < MaxVersion
    /\ db' = RepoUpdate(db, ApplyRequest(writer[w].got, writer[w].set, db.prod + 1))
    /\ writer' = [writer EXCEPT ![w].pc = "invalidate"]
    /\ UNCHANGED <<cache, reader>>

(* UpdateStock handler: CatalogService.UpdateStock's repo.UpdateStock.    *)
UpdateStock(w) ==
    /\ writer[w].pc = "idle"
    /\ db.prod < MaxVersion
    /\ db' = RepoUpdateStock(db)
    /\ writer' = [writer EXCEPT ![w].pc = "invalidate", ![w].op = "stock"]
    /\ UNCHANGED <<cache, reader>>

(* CreateProduct handler: repo.Create, then invalidateListCache, which    *)
(* only logs: the call is done.                                           *)
CreateProduct(w) ==
    /\ writer[w].pc = "idle"
    /\ db.created < MaxCreates
    /\ db' = RepoCreate(db)
    /\ UNCHANGED <<cache, reader, writer>>

(* UpdateProduct / UpdateStock, last step: cache.Delete(product:<id>)     *)
(* (error logged); UpdateProduct then calls invalidateListCache, which    *)
(* only logs.                                                             *)
Invalidate(w) ==
    /\ writer[w].pc = "invalidate"
    /\ \/ cache' = [cache EXCEPT !["product"] = Absent]
       \/ UNCHANGED cache
    /\ writer' = [writer EXCEPT ![w] = IdleWriter]
    /\ UNCHANGED <<db, reader>>

(* Redis drops an entry when its TTL (5 min product, 2 min list) ends.    *)
Expire(k) ==
    /\ cache[k] # Absent
    /\ cache' = [cache EXCEPT ![k] = Absent]
    /\ UNCHANGED <<db, reader, writer>>

Next ==
    \/ \E r \in Readers : GetProduct(r) \/ ListProducts(r) \/ DbRead(r) \/ CacheFill(r)
    \/ \E w \in Writers :
          \/ \E set \in SUBSET Fields \ {{}} : UpdateProduct(w, set)
          \/ UpdateProductDbRead(w) \/ UpdateProductFill(w) \/ UpdateProductWrite(w)
          \/ UpdateStock(w) \/ CreateProduct(w) \/ Invalidate(w)
    \/ \E k \in CacheKeys : Expire(k)

Spec == Init /\ [][Next]_vars

-----------------------------------------------------------------------------
(* Properties.                                                             *)

(* Correctness never depends on cache state (spec 3, CachedProduct; 4.6): *)
(* the repo.Update of an UpdateProduct call leaves every field its request *)
(* does not set as the database has it, whether the handler got the       *)
(* product from the cache or the database and whatever ran in between.    *)
UpdateKeepsUnsetFields ==
    [][\A w \in Writers :
          (writer[w].pc = "write" /\ writer'[w].pc = "invalidate") =>
              \A f \in Fields \ writer[w].set : db'.fields[f] = db.fields[f]]_vars

=============================================================================
