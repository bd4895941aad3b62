---------------------------- MODULE TicketCache ----------------------------
(* The Redis caches of ticket lists and dashboard statistics, beside the     *)
(* database they are filled from. A list entry is keyed by a version number  *)
(* that every mutation advances; the dashboard entry has one fixed key that  *)
(* every mutation deletes. Neither is updated in the database transaction:   *)
(* a mutation invalidates after its commit, a reader stores after its query, *)
(* and anything may happen in between.                                       *)
(*                                                                           *)
(* The database is abstracted to how many mutations have committed, so that  *)
(* a snapshot is a number and "older" is "<", and to how many tickets it     *)
(* holds, which is what each of the four dashboard queries adds up to.       *)
EXTENDS Naturals, Sequences

CONSTANTS
  Mutations,    \* create, update, delete and status requests that commit
  Readers,      \* clients of GET /tickets, each making one request at a time
  Watchers,     \* clients of GET /dashboard/stats, likewise
  Keys,         \* what a list key has after the version: scope and filter hash
  InitialRows,  \* tickets at the start
  NoStats       \* "dashboard:stats is absent"

Clients == Readers \cup Watchers

ASSUME CacheAssumption ==
  /\ Readers \cap Watchers = {}
  /\ InitialRows \in Nat

VARIABLES
  commits,      \* mutations committed so far
  rows,         \* tickets in the database
  version,      \* tickets:list:version, 0 when the key is absent
  lists,        \* the cached list entries
  stats,        \* the cached dashboard entry
  lost,         \* whether Redis has lost its data since the start
  phase,        \* phase[m]: how far mutation m has come
  at,           \* at[m]: m was the at[m]-th commit
  bumped,       \* bumped[m]: the list version m made current
  pc,           \* pc[c]: how far the handler of client c has come
  seen,         \* seen[c]: mutations whose invalidation was over when c began
  key,          \* key[r]: the key r asks for, without its version
  keyver,       \* keyver[r]: the version in its key, 0 for None
  oldest,       \* oldest[c]: the oldest snapshot in the response of c
  counts        \* counts[w]: what the dashboard queries of w have added up to

database == <<commits, rows>>
redis == <<version, lists, stats, lost>>
mutating == <<phase, at, bumped>>
reading == <<pc, seen, key, keyver, oldest, counts>>
vars == <<database, redis, mutating, reading>>

ListEntry == [version : Nat \ {0}, key : Keys, oldest : Nat]
Stats == [oldest : Nat, counts : Seq(Nat)]

TypeOK ==
  /\ commits \in Nat /\ rows \in Nat /\ version \in Nat
  /\ lists \subseteq ListEntry
  /\ stats \in Stats \cup {NoStats}
  /\ lost \in BOOLEAN
  /\ phase \in [Mutations -> {"idle", "committed", "invalidated", "failed"}]
  /\ at \in [Mutations -> Nat]
  /\ bumped \in [Mutations -> Nat]
  /\ pc \in [Clients ->
       {"idle", "resolving", "looking", "querying", "storing", "answered"}]
  /\ seen \in [Clients -> SUBSET Mutations]
  /\ key \in [Readers -> Keys]
  /\ keyver \in [Readers -> Nat]
  /\ oldest \in [Clients -> Nat]
  /\ counts \in [Watchers -> Seq(Nat)]

Init ==
  /\ commits = 0 /\ rows = InitialRows
  /\ version = 0 /\ lists = {} /\ stats = NoStats /\ lost = FALSE
  /\ phase = [m \in Mutations |-> "idle"]
  /\ at = [m \in Mutations |-> 0]
  /\ bumped = [m \in Mutations |-> 0]
  /\ pc = [c \in Clients |-> "idle"]
  /\ seen = [c \in Clients |-> {}]
  /\ key \in [Readers -> Keys]   \* any: a request chooses it when it begins
  /\ keyver = [r \in Readers |-> 0]
  /\ oldest = [c \in Clients |-> 0]
  /\ counts = [w \in Watchers |-> <<>>]

Invalidated == {m \in Mutations : phase[m] = "invalidated"}

Moves(c, from, to) == pc[c] = from /\ pc' = [pc EXCEPT ![c] = to]

(* A client's next request begins with its first call to Redis. *)
Begins(c, to) ==
  /\ pc[c] \in {"idle", "answered"}
  /\ pc' = [pc EXCEPT ![c] = to]
  /\ seen' = [seen EXCEPT ![c] = Invalidated]

BeginsList(r, to) ==
  /\ Begins(r, to)
  /\ \E k \in Keys : key' = [key EXCEPT ![r] = k]
  /\ keyver' = [keyver EXCEPT ![r] = 0]

(* SET tickets:list:version 1 NX *)
Seeded == IF version = 0 THEN 1 ELSE version

----------------------------------------------------------------------------
(* A mutating request commits: a ticket more, a ticket less, or a change. *)
CommitMutation(m) ==
  /\ phase[m] = "idle"
  /\ phase' = [phase EXCEPT ![m] = "committed"]
  /\ commits' = commits + 1
  /\ at' = [at EXCEPT ![m] = commits + 1]
  /\ \/ rows' = rows + 1
     \/ rows' = rows
     \/ rows > 0 /\ rows' = rows - 1
  /\ UNCHANGED <<redis, bumped, reading>>

(* As InvalidateTicketCaches, had it deleted the current entries and kept    *)
(* the version.                                                              *)
DeleteTicketCaches(m) ==
  /\ phase[m] = "committed"
  /\ phase' = [phase EXCEPT ![m] = "invalidated"]
  /\ version' = Seeded
  /\ lists' = {}
  /\ stats' = NoStats
  /\ UNCHANGED <<database, lost, at, bumped, reading>>

(* invalidate_ticket_caches: one MULTI/EXEC. *)
InvalidateTicketCaches(m) ==
  /\ phase[m] = "committed"
  /\ phase' = [phase EXCEPT ![m] = "invalidated"]
  /\ version' = Seeded + 1
  /\ bumped' = [bumped EXCEPT ![m] = Seeded + 1]
  /\ stats' = NoStats
  /\ UNCHANGED <<database, lists, lost, at, reading>>

(* The RedisError is swallowed; or the handler never got here, because its   *)
(* refresh failed or its process died after the commit.                      *)
InvalidationFails(m) ==
  /\ phase[m] = "committed"
  /\ phase' = [phase EXCEPT ![m] = "failed"]
  /\ UNCHANGED <<database, redis, at, bumped, reading>>

----------------------------------------------------------------------------
(* resolve_ticket_list_cache_key seeds the version if it is missing ...      *)
SeedVersion(r) ==
  /\ BeginsList(r, "resolving")
  /\ version' = Seeded
  /\ UNCHANGED <<database, lists, stats, lost, mutating, oldest, counts>>

(* ... and reads it, in a call of its own. *)
ReadVersion(r) ==
  /\ Moves(r, "resolving", "looking")
  /\ version # 0
  /\ keyver' = [keyver EXCEPT ![r] = version]
  /\ UNCHANGED <<database, redis, mutating, seen, key, oldest, counts>>

(* Either call fails, or the version is gone again: there is no key, and the *)
(* cache is not looked at.                                                   *)
ResolveFails(r) ==
  /\ \/ BeginsList(r, "querying")
     \/ Moves(r, "resolving", "querying") /\ UNCHANGED <<seen, key, keyver>>
  /\ UNCHANGED <<database, redis, mutating, oldest, counts>>

(* get_cached_ticket_list finds the entry: it is the response. *)
ListHit(r) ==
  /\ Moves(r, "looking", "answered")
  /\ \E e \in lists :
       /\ e.version = keyver[r] /\ e.key = key[r]
       /\ oldest' = [oldest EXCEPT ![r] = e.oldest]
  /\ UNCHANGED <<database, redis, mutating, seen, key, keyver, counts>>

(* It finds none, or the call fails, or the JSON does not validate. *)
ListMiss(r) ==
  /\ Moves(r, "looking", "querying")
  /\ UNCHANGED <<database, redis, mutating, seen, key, keyver, oldest, counts>>

(* list_tickets: the count, and then the page. Each statement has a snapshot *)
(* of its own (READ COMMITTED), so the count is the oldest of the two.       *)
ListTickets(r) ==
  /\ Moves(r, "querying", "storing")
  /\ oldest' = [oldest EXCEPT ![r] = commits]
  /\ UNCHANGED <<database, redis, mutating, seen, key, keyver, counts>>

(* As StoreList, had None not been excluded as a key. *)
StoreListAnyway(r) ==
  /\ Moves(r, "storing", "answered")
  /\ lists' = lists \cup
       {[version |-> keyver[r], key |-> key[r], oldest |-> oldest[r]]}
  /\ UNCHANGED <<database, version, stats, lost, mutating, seen, key, keyver,
                 oldest, counts>>

(* set_cached_ticket_list, under the key resolved before the query. *)
StoreList(r) ==
  /\ Moves(r, "storing", "answered")
  /\ keyver[r] # 0
  /\ lists' =
       {e \in lists : <<e.version, e.key>> # <<keyver[r], key[r]>>}
         \cup {[version |-> keyver[r], key |-> key[r], oldest |-> oldest[r]]}
  /\ UNCHANGED <<database, version, stats, lost, mutating, seen, key, keyver,
                 oldest, counts>>

(* There is no key, or the SET fails: the response is sent all the same. *)
SkipStoreList(r) ==
  /\ Moves(r, "storing", "answered")
  /\ UNCHANGED <<database, redis, mutating, seen, key, keyver, oldest, counts>>

----------------------------------------------------------------------------
(* get_cached_dashboard_stats. *)
StatsHit(w) ==
  /\ Begins(w, "answered")
  /\ stats # NoStats
  /\ oldest' = [oldest EXCEPT ![w] = stats.oldest]
  /\ counts' = [counts EXCEPT ![w] = stats.counts]
  /\ UNCHANGED <<database, redis, mutating, key, keyver>>

StatsMiss(w) ==
  /\ Begins(w, "querying")
  /\ counts' = [counts EXCEPT ![w] = <<>>]
  /\ UNCHANGED <<database, redis, mutating, key, keyver, oldest>>

(* calculate_dashboard_stats: the total, then the counts by status, priority *)
(* and category, four statements with four snapshots.                        *)
CalculateStats(w) ==
  /\ Moves(w, "querying", IF Len(counts[w]) = 3 THEN "storing" ELSE "querying")
  /\ counts' = [counts EXCEPT ![w] = Append(@, rows)]
  /\ oldest' = IF counts[w] = <<>> THEN [oldest EXCEPT ![w] = commits] ELSE oldest
  /\ UNCHANGED <<database, redis, mutating, seen, key, keyver>>

(* set_cached_dashboard_stats. *)
StoreStats(w) ==
  /\ Moves(w, "storing", "answered")
  /\ stats' = [oldest |-> oldest[w], counts |-> counts[w]]
  /\ UNCHANGED <<database, version, lists, lost, mutating, seen, key, keyver,
                 oldest, counts>>

SkipStoreStats(w) ==
  /\ Moves(w, "storing", "answered")
  /\ UNCHANGED <<database, redis, mutating, seen, key, keyver, oldest, counts>>

----------------------------------------------------------------------------
(* As ExpireList, had the entries of the current version no TTL. *)
ExpireOldList(k) ==
  /\ \E e \in lists : e.key = k /\ e.version # version /\ lists' = lists \ {e}
  /\ UNCHANGED <<database, version, stats, lost, mutating, reading>>

(* Every SET carries ex=: Redis drops the entry when its time is up. *)
ExpireList(k) ==
  /\ \E e \in lists : e.key = k /\ lists' = lists \ {e}
  /\ UNCHANGED <<database, version, stats, lost, mutating, reading>>

ExpireStats ==
  /\ stats # NoStats
  /\ stats' = NoStats
  /\ UNCHANGED <<database, version, lists, lost, mutating, reading>>

(* Redis restarts empty, once: the compose file gives it no volume. *)
LoseRedis ==
  /\ ~lost
  /\ lost' = TRUE
  /\ version' = 0 /\ lists' = {} /\ stats' = NoStats
  /\ UNCHANGED <<database, mutating, reading>>

Mutate(m) == CommitMutation(m) \/ InvalidateTicketCaches(m) \/ InvalidationFails(m)

GetList(r) ==
  \/ SeedVersion(r)
  \/ ReadVersion(r)
  \/ ResolveFails(r)
  \/ ListHit(r)
  \/ ListMiss(r)
  \/ ListTickets(r)
  \/ StoreList(r)
  \/ SkipStoreList(r)

GetStats(w) ==
  \/ StatsHit(w)
  \/ StatsMiss(w)
  \/ CalculateStats(w)
  \/ StoreStats(w)
  \/ SkipStoreStats(w)

Next ==
  \/ \E m \in Mutations : Mutate(m)
  \/ \E r \in Readers : GetList(r)
  \/ \E w \in Watchers : GetStats(w)
  \/ \E k \in Keys : ExpireList(k)
  \/ ExpireStats
  \/ LoseRedis

Spec == Init /\ [][Next]_vars

(* Time passes, so whatever has a TTL expires. Nothing else is fair: clients *)
(* may stop or go on for ever, and a handler may sleep between two steps.    *)
FairSpec ==
  /\ Spec
  /\ \A k \in Keys : WF_vars(ExpireList(k))
  /\ WF_vars(ExpireStats)

----------------------------------------------------------------------------
(* A list request that begins after a mutation has invalidated the caches is *)
(* answered from a state that contains the mutation, whether it hits or      *)
(* misses and whatever other readers store meanwhile: a slow reader can only *)
(* fill a version nobody asks for any more. As long as Redis keeps its       *)
(* counter; a restart would hand out old version numbers again.              *)
ListReflectsInvalidations ==
  ~lost => \A r \in Readers : pc[r] = "answered" =>
             \A m \in seen[r] : at[m] <= oldest[r]

(* Why that is so. A mutation is numbered when it commits and again when it  *)
(* bumps the list version, so "m bumped no later than v" implies "whoever    *)
(* saw version v queries after the commit of m".                             *)
MutationsAreCounted ==
  \A m \in Mutations :
    /\ at[m] <= commits
    /\ phase[m] = "invalidated" /\ ~lost => 0 < bumped[m] /\ bumped[m] <= version

(* An entry contains every mutation that bumped no later than its version. *)
EntriesCoverTheirVersion ==
  ~lost => \A e \in lists :
    /\ e.version <= version
    /\ \A m \in Invalidated : bumped[m] <= e.version => at[m] <= e.oldest

(* A reader's key is recent enough for what it must see, and what it is      *)
(* about to store contains what its key promises.                            *)
ReadersCoverTheirKey ==
  ~lost => \A r \in Readers :
    /\ keyver[r] <= version
    /\ seen[r] \subseteq Invalidated
    /\ pc[r] = "looking" => keyver[r] # 0
    /\ pc[r] = "resolving" => keyver[r] = 0
    /\ pc[r] \in {"looking", "querying", "storing"} /\ keyver[r] # 0 =>
         \A m \in seen[r] : bumped[m] <= keyver[r]
    /\ pc[r] = "storing" =>
         /\ \A m \in seen[r] : at[m] <= oldest[r]
         /\ \A m \in Invalidated : bumped[m] <= keyver[r] => at[m] <= oldest[r]

InductiveInvariant ==
  /\ TypeOK
  /\ MutationsAreCounted
  /\ EntriesCoverTheirVersion
  /\ ReadersCoverTheirKey
  /\ ListReflectsInvalidations

(* What is left of an invalidation that failed, or of a store that came too  *)
(* late, does not last, however many clients keep reading and storing: once  *)
(* the last mutation is over, every entry a request can reach becomes, and   *)
(* stays, as new as the database.                                            *)
StaleEntriesHeal ==
  <>[](/\ \A e \in lists : e.version = version => e.oldest = commits
       /\ stats # NoStats => stats.oldest = commits)

(* DashboardStatsResponse, "current PostgreSQL-backed ticket distribution    *)
(* statistics": a dashboard request that begins after a mutation has deleted *)
(* dashboard:stats reflects it. The code does not keep this: the key is      *)
(* fixed, so a slow watcher puts its old answer where the next one looks.    *)
StatsReflectInvalidations ==
  ~lost => \A w \in Watchers : pc[w] = "answered" =>
             \A m \in seen[w] : at[m] <= oldest[w]

(* calculate_dashboard_stats, "current counts": the counts by status, by     *)
(* priority and by category each add up to the total. The code does not keep *)
(* this: a ticket may come or go between the four statements.                *)
StatsAddUp ==
  \A w \in Watchers : pc[w] = "answered" =>
    \A i, j \in 1..4 : counts[w][i] = counts[w][j]
=============================================================================
