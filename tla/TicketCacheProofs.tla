------------------------- MODULE TicketCacheProofs -------------------------
(* Theorems about TicketCache for any number of mutations, clients and keys: *)
(* the version in the key is enough to keep slow readers harmless.           *)
EXTENDS TicketCache, TLAPS

(* Type correctness: in particular no entry is ever stored under version 0,  *)
(* the key None that stands for a failed version lookup.                     *)
THEOREM TypeCorrect == Spec => []TypeOK
<1>1. Init => TypeOK
  <2> SUFFICES ASSUME Init PROVE TypeOK
    OBVIOUS
  <2>1. commits \in Nat /\ rows \in Nat /\ version \in Nat
    BY CacheAssumption DEF Init
  <2>2. counts \in [Watchers -> Seq(Nat)]
    BY DEF Init
  <2>3. /\ phase \in [Mutations -> {"idle", "committed", "invalidated", "failed"}]
        /\ at \in [Mutations -> Nat] /\ bumped \in [Mutations -> Nat]
        /\ seen \in [Clients -> SUBSET Mutations]
        /\ keyver \in [Readers -> Nat] /\ oldest \in [Clients -> Nat]
    BY DEF Init
  <2>4. pc \in [Clients ->
          {"idle", "resolving", "looking", "querying", "storing", "answered"}]
    BY DEF Init
  <2> QED
    BY <2>1, <2>2, <2>3, <2>4 DEF Init, TypeOK
<1>2. TypeOK /\ [Next]_vars => TypeOK'
  <2> SUFFICES ASSUME TypeOK, [Next]_vars PROVE TypeOK'
    OBVIOUS
  <2> USE DEF TypeOK, Clients, Moves, Begins, BeginsList, Seeded, Invalidated,
              database, redis, mutating, reading
  <2>1. CASE UNCHANGED vars
    BY <2>1 DEF vars
  <2>2. ASSUME NEW m \in Mutations, Mutate(m) PROVE TypeOK'
    <3>1. CASE CommitMutation(m)
      <4>1. rows' \in Nat
        BY <3>1 DEF CommitMutation
      <4> QED
        BY <3>1, <4>1 DEF CommitMutation
    <3>2. CASE InvalidateTicketCaches(m)
      BY <3>2 DEF InvalidateTicketCaches
    <3>3. CASE InvalidationFails(m)
      BY <3>3 DEF InvalidationFails
    <3> QED
      BY <2>2, <3>1, <3>2, <3>3 DEF Mutate
  <2>3. ASSUME NEW r \in Readers, GetList(r) PROVE TypeOK'
    <3>1. CASE SeedVersion(r)
      <4>1. PICK k \in Keys : key' = [key EXCEPT ![r] = k]
        BY <3>1 DEF SeedVersion
      <4>2. key' \in [Readers -> Keys] /\ version' \in Nat
        BY <3>1, <4>1 DEF SeedVersion
      <4>3. /\ pc' = [pc EXCEPT ![r] = "resolving"]
            /\ seen' = [seen EXCEPT ![r] = Invalidated]
            /\ keyver' = [keyver EXCEPT ![r] = 0]
        BY <3>1 DEF SeedVersion
      <4> QED
        BY <3>1, <4>2, <4>3 DEF SeedVersion
    <3>2. CASE ReadVersion(r)
      BY <3>2 DEF ReadVersion
    <3>3. CASE ResolveFails(r)
      <4>1. CASE BeginsList(r, "querying")
        <5>1. PICK k \in Keys : key' = [key EXCEPT ![r] = k]
          BY <4>1
        <5>2. key' \in [Readers -> Keys]
          BY <5>1
        <5>3. /\ pc' = [pc EXCEPT ![r] = "querying"]
              /\ seen' = [seen EXCEPT ![r] = Invalidated]
              /\ keyver' = [keyver EXCEPT ![r] = 0]
          BY <4>1
        <5> QED
          BY <3>3, <5>2, <5>3 DEF ResolveFails
      <4>2. CASE Moves(r, "resolving", "querying") /\ UNCHANGED <<seen, key, keyver>>
        BY <3>3, <4>2 DEF ResolveFails
      <4> QED
        BY <3>3, <4>1, <4>2 DEF ResolveFails
    <3>4. CASE ListHit(r)
      BY <3>4 DEF ListHit, ListEntry
    <3>5. CASE ListMiss(r)
      BY <3>5 DEF ListMiss
    <3>6. CASE ListTickets(r)
      BY <3>6 DEF ListTickets
    <3>7. CASE StoreList(r)
      BY <3>7 DEF StoreList, ListEntry
    <3>8. CASE SkipStoreList(r)
      BY <3>8 DEF SkipStoreList
    <3> QED
      BY <2>3, <3>1, <3>2, <3>3, <3>4, <3>5, <3>6, <3>7, <3>8 DEF GetList
  <2>4. ASSUME NEW w \in Watchers, GetStats(w) PROVE TypeOK'
    <3>1. CASE StatsHit(w)
      BY <3>1 DEF StatsHit, Stats
    <3>2. CASE StatsMiss(w)
      BY <3>2 DEF StatsMiss
    <3>3. CASE CalculateStats(w)
      BY <3>3 DEF CalculateStats
    <3>4. CASE StoreStats(w)
      BY <3>4 DEF StoreStats, Stats
    <3>5. CASE SkipStoreStats(w)
      BY <3>5 DEF SkipStoreStats
    <3> QED
      BY <2>4, <3>1, <3>2, <3>3, <3>4, <3>5 DEF GetStats
  <2>5. ASSUME NEW k \in Keys, ExpireList(k) PROVE TypeOK'
    BY <2>5 DEF ExpireList
  <2>6. CASE ExpireStats
    BY <2>6 DEF ExpireStats
  <2>7. CASE LoseRedis
    BY <2>7 DEF LoseRedis
  <2> QED
    BY <2>1, <2>2, <2>3, <2>4, <2>5, <2>6, <2>7 DEF Next
<1> QED
  BY <1>1, <1>2, PTL DEF Spec

----------------------------------------------------------------------------
(* The argument, all of it conditional on Redis keeping its counter. Readers *)
(* and entries only promise to contain mutations that bumped no later than   *)
(* the version in their key; a mutation that bumps now bumps past every key  *)
(* anybody holds, so nothing that was promised is added to.                  *)
Covering ==
  /\ MutationsAreCounted
  /\ EntriesCoverTheirVersion
  /\ ReadersCoverTheirKey
  /\ ListReflectsInvalidations

(* Steps that read and write nothing the argument is about keep it. *)
LEMMA CoveringFrame ==
  ASSUME Covering,
         UNCHANGED <<commits, version, lost, mutating, key, keyver>>,
         lists' \subseteq lists,
         \A r \in Readers : pc'[r] = pc[r] /\ seen'[r] = seen[r] /\ oldest'[r] = oldest[r]
  PROVE  Covering'
  BY DEF Covering, MutationsAreCounted, EntriesCoverTheirVersion, Invalidated,
     ReadersCoverTheirKey, ListReflectsInvalidations, mutating

(* A list request that begins after a mutation invalidated the caches        *)
(* reflects the mutation, for any number of mutations, readers and keys.     *)
THEOREM CoveringHolds == Spec => []Covering
<1> USE DEF Invalidated
<1>1. Init => Covering
  BY CacheAssumption DEF Init, Covering, MutationsAreCounted, Clients,
     EntriesCoverTheirVersion, ReadersCoverTheirKey, ListReflectsInvalidations
<1>2. TypeOK /\ TypeOK' /\ Covering /\ [Next]_vars => Covering'
  <2> SUFFICES ASSUME TypeOK, TypeOK', Covering, [Next]_vars PROVE Covering'
    OBVIOUS
  <2>a. Readers \subseteq Clients /\ Watchers \subseteq Clients
    BY DEF Clients
  <2>b. \A m \in Mutations : /\ at[m] \in Nat /\ at'[m] \in Nat
                             /\ bumped[m] \in Nat /\ bumped'[m] \in Nat
    BY DEF TypeOK
  <2>c. \A e \in lists : e.version \in Nat /\ e.oldest \in Nat
    BY DEF TypeOK, ListEntry
  <2>d. \A r \in Readers : keyver[r] \in Nat /\ oldest[r] \in Nat /\ seen[r] \subseteq Mutations
    BY <2>a DEF TypeOK
  <2>e. commits \in Nat /\ version \in Nat /\ version' \in Nat
    BY DEF TypeOK
  <2>1. CASE UNCHANGED vars
    BY <2>1, CoveringFrame DEF vars, database, redis, reading
  <2>2. ASSUME NEW m \in Mutations, CommitMutation(m) PROVE Covering'
    <3>1. /\ phase[m] = "idle" /\ phase'[m] = "committed"
          /\ \A n \in Mutations \ {m} : phase'[n] = phase[n] /\ at'[n] = at[n]
          /\ commits' = commits + 1 /\ at'[m] = commits + 1
          /\ UNCHANGED <<redis, bumped, reading>>
      BY <2>2 DEF CommitMutation, TypeOK
    <3>2. Invalidated' = Invalidated /\ m \notin Invalidated
      BY <3>1
    <3>3. \A n \in Invalidated : at'[n] = at[n]
      BY <3>1, <3>2
    <3>4. MutationsAreCounted'
      BY <2>b, <2>e, <3>1, <3>2 DEF Covering, MutationsAreCounted, redis
    <3>5. EntriesCoverTheirVersion'
      BY <3>1, <3>2, <3>3 DEF Covering, EntriesCoverTheirVersion, redis
    <3>6. ~lost => \A r \in Readers : \A n \in seen[r] : at'[n] = at[n]
      BY <3>3 DEF Covering, ReadersCoverTheirKey
    <3>7. ReadersCoverTheirKey' /\ ListReflectsInvalidations'
      BY <3>1, <3>2, <3>3, <3>6 DEF Covering, ReadersCoverTheirKey,
         ListReflectsInvalidations, redis, reading
    <3> QED
      BY <3>4, <3>5, <3>7 DEF Covering
  <2>3. ASSUME NEW m \in Mutations, InvalidateTicketCaches(m) PROVE Covering'
    <3>1. /\ phase' = [phase EXCEPT ![m] = "invalidated"]
          /\ bumped'[m] = version' /\ version < version'
          /\ \A n \in Mutations \ {m} : bumped'[n] = bumped[n]
          /\ UNCHANGED <<database, lists, lost, at, reading>>
      BY <2>3, <2>e DEF InvalidateTicketCaches, TypeOK, Seeded
    <3>2. Invalidated' = Invalidated \cup {m}
      BY <3>1 DEF TypeOK
    <3>3. MutationsAreCounted'
      BY <2>b, <2>e, <3>1 DEF Covering, MutationsAreCounted, database, TypeOK
    <3>4. EntriesCoverTheirVersion'
      BY <2>b, <2>c, <2>e, <3>1, <3>2 DEF Covering, EntriesCoverTheirVersion
    <3>5. ~lost => \A r \in Readers : seen[r] \subseteq Invalidated \ {m}
      BY <2>3 DEF Covering, ReadersCoverTheirKey, InvalidateTicketCaches
    <3>6. ReadersCoverTheirKey'
      BY <2>b, <2>d, <2>e, <3>1, <3>2, <3>5
      DEF Covering, ReadersCoverTheirKey, reading
    <3>7. ListReflectsInvalidations'
      BY <3>1 DEF Covering, ListReflectsInvalidations, reading
    <3> QED
      BY <3>3, <3>4, <3>6, <3>7 DEF Covering
  <2>4. ASSUME NEW m \in Mutations, InvalidationFails(m) PROVE Covering'
    <3>1. Invalidated' = Invalidated
      BY <2>4 DEF InvalidationFails, TypeOK
    <3> QED
      BY <2>4, <3>1 DEF InvalidationFails, Covering, MutationsAreCounted, TypeOK,
         EntriesCoverTheirVersion, ReadersCoverTheirKey,
         ListReflectsInvalidations, database, redis, reading
  <2>5. ASSUME NEW r \in Readers, GetList(r) PROVE Covering'
    <3> USE DEF Covering, MutationsAreCounted, EntriesCoverTheirVersion,
                ReadersCoverTheirKey, ListReflectsInvalidations
    <3>1. CASE SeedVersion(r)
      <4>1. /\ pc'[r] = "resolving" /\ keyver'[r] = 0 /\ seen'[r] = Invalidated
            /\ \A q \in Readers \ {r} : pc'[q] = pc[q] /\ keyver'[q] = keyver[q]
                                         /\ seen'[q] = seen[q]
            /\ version <= version'
            /\ UNCHANGED <<commits, lists, lost, phase, at, bumped, oldest>>
        BY <2>a, <2>e, <3>1 DEF SeedVersion, BeginsList, Begins, Seeded, TypeOK,
           database, mutating
      <4> QED
        BY <2>b, <2>c, <2>d, <2>e, <4>1
    <3>2. CASE ReadVersion(r)
      <4>1. /\ pc'[r] = "looking" /\ keyver'[r] = version /\ version # 0
            /\ \A q \in Readers \ {r} : pc'[q] = pc[q] /\ keyver'[q] = keyver[q]
            /\ UNCHANGED <<commits, version, lists, lost, phase, at, bumped, seen, oldest>>
        BY <2>a, <3>2 DEF ReadVersion, Moves, TypeOK, database, redis, mutating
      <4> QED
        BY <2>b, <2>d, <2>e, <4>1
    <3>3. CASE ResolveFails(r)
      <4>1. /\ pc'[r] = "querying"
            /\ \/ keyver'[r] = 0 /\ seen'[r] = Invalidated
               \/ keyver'[r] = keyver[r] /\ seen'[r] = seen[r] /\ pc[r] = "resolving"
            /\ \A q \in Readers \ {r} : pc'[q] = pc[q] /\ keyver'[q] = keyver[q]
                                         /\ seen'[q] = seen[q]
            /\ UNCHANGED <<commits, version, lists, lost, phase, at, bumped, oldest>>
        BY <2>a, <3>3 DEF ResolveFails, BeginsList, Begins, Moves, TypeOK,
           database, redis, mutating
      <4> QED
        BY <2>b, <2>d, <2>e, <4>1
    <3>4. CASE ListHit(r)
      <4>1. PICK e \in lists : /\ e.version = keyver[r]
                               /\ oldest' = [oldest EXCEPT ![r] = e.oldest]
        BY <3>4 DEF ListHit
      <4>2. /\ pc[r] = "looking" /\ pc'[r] = "answered" /\ oldest'[r] = e.oldest
            /\ \A q \in Readers \ {r} : pc'[q] = pc[q] /\ oldest'[q] = oldest[q]
            /\ UNCHANGED <<commits, version, lists, lost, phase, at, bumped, seen, keyver>>
        BY <2>a, <3>4, <4>1 DEF ListHit, Moves, TypeOK, database, redis, mutating
      <4>3. ~lost => \A m \in seen[r] : at[m] <= e.oldest
        BY <4>1, <4>2
      <4> QED
        BY <4>2, <4>3
    <3>5. CASE ListMiss(r)
      <4>1. /\ pc[r] = "looking" /\ pc'[r] = "querying"
            /\ \A q \in Readers \ {r} : pc'[q] = pc[q]
            /\ UNCHANGED <<commits, version, lists, lost, phase, at, bumped, seen,
                           keyver, oldest>>
        BY <2>a, <3>5 DEF ListMiss, Moves, TypeOK, database, redis, mutating
      <4> QED
        BY <4>1
    <3>6. CASE ListTickets(r)
      <4>1. /\ pc[r] = "querying" /\ pc'[r] = "storing" /\ oldest'[r] = commits
            /\ \A q \in Readers \ {r} : pc'[q] = pc[q] /\ oldest'[q] = oldest[q]
            /\ UNCHANGED <<commits, version, lists, lost, phase, at, bumped, seen, keyver>>
        BY <2>a, <3>6 DEF ListTickets, Moves, TypeOK, database, redis, mutating
      <4> QED
        BY <4>1
    <3>7. CASE StoreList(r)
      <4>1. /\ pc[r] = "storing" /\ pc'[r] = "answered"
            /\ \A q \in Readers \ {r} : pc'[q] = pc[q]
            /\ UNCHANGED <<commits, version, lost, phase, at, bumped, seen, keyver, oldest>>
        BY <2>a, <3>7 DEF StoreList, Moves, TypeOK, database, mutating
      <4>2. \A e \in lists' :
              e \in lists \/ (e.version = keyver[r] /\ e.oldest = oldest[r])
        BY <3>7 DEF StoreList
      <4> QED
        BY <4>1, <4>2
    <3>8. CASE SkipStoreList(r)
      <4>1. /\ pc[r] = "storing" /\ pc'[r] = "answered"
            /\ \A q \in Readers \ {r} : pc'[q] = pc[q]
            /\ UNCHANGED <<commits, version, lists, lost, phase, at, bumped, seen,
                           keyver, oldest>>
        BY <2>a, <3>8 DEF SkipStoreList, Moves, TypeOK, database, redis, mutating
      <4> QED
        BY <4>1
    <3> QED
      BY <2>5, <3>1, <3>2, <3>3, <3>4, <3>5, <3>6, <3>7, <3>8 DEF GetList
  <2>6. ASSUME NEW w \in Watchers, GetStats(w) PROVE Covering'
    <3>1. \A r \in Readers : r # w
      BY CacheAssumption
    <3>2. /\ UNCHANGED <<commits, version, lists, lost, mutating, key, keyver>>
          /\ \A r \in Readers : pc'[r] = pc[r] /\ seen'[r] = seen[r]
                               /\ oldest'[r] = oldest[r]
      BY <2>6, <2>a, <3>1 DEF GetStats, StatsHit, StatsMiss, CalculateStats, StoreStats,
         SkipStoreStats, Begins, Moves, TypeOK, database, redis
    <3> QED
      BY <3>2, CoveringFrame
  <2>7. ASSUME NEW k \in Keys, ExpireList(k) PROVE Covering'
    BY <2>7, CoveringFrame DEF ExpireList, database, reading
  <2>8. CASE ExpireStats
    BY <2>8, CoveringFrame DEF ExpireStats, database, reading
  <2>9. CASE LoseRedis
    BY <2>9 DEF LoseRedis, Covering, MutationsAreCounted, EntriesCoverTheirVersion,
       ReadersCoverTheirKey, ListReflectsInvalidations, database, mutating
  <2> QED
    BY <2>1, <2>2, <2>3, <2>4, <2>5, <2>6, <2>7, <2>8, <2>9 DEF Next, Mutate
<1> QED
  BY <1>1, <1>2, TypeCorrect, PTL DEF Spec

(* The conjunction a run checks as one invariant, and its point. *)
THEOREM InductiveInvariantHolds == Spec => []InductiveInvariant
<1>1. TypeOK /\ Covering => InductiveInvariant
  BY DEF Covering, InductiveInvariant
<1> QED
  BY <1>1, TypeCorrect, CoveringHolds, PTL

(* Whatever slow readers store meanwhile, a list request is answered from a  *)
(* state that contains every mutation whose invalidation preceded it.        *)
THEOREM ListsAreFresh == Spec => []ListReflectsInvalidations
<1>1. Covering => ListReflectsInvalidations
  BY DEF Covering
<1> QED
  BY <1>1, CoveringHolds, PTL

----------------------------------------------------------------------------
(* Where a stale answer can come from: from the cache, and nowhere else. An  *)
(* answer that a handler computed itself, of a list or of the dashboard's    *)
(* four statements, reflects every mutation whose invalidation was over when *)
(* the request began, even after Redis has lost its data. So the dashboard   *)
(* is stale only by serving what another request stored too late.            *)
ComputedAnswersAreFresh ==
  \A c \in Clients : pc[c] = "storing" => \A m \in seen[c] : at[m] <= oldest[c]

(* Its inductive form: mutations that are seen have committed, and a watcher *)
(* fixes its oldest snapshot with the first of its four statements.          *)
ComputingFreshly ==
  /\ \A m \in Mutations : at[m] <= commits
  /\ \A c \in Clients : seen[c] \subseteq Invalidated
  /\ ComputedAnswersAreFresh
  /\ \A w \in Watchers : pc[w] = "querying" /\ counts[w] # <<>> =>
       \A m \in seen[w] : at[m] <= oldest[w]

(* Steps of Redis, and of mutations that have committed, keep it.            *)
LEMMA ComputingFrame ==
  ASSUME ComputingFreshly, UNCHANGED <<commits, at, reading>>,
         Invalidated \subseteq Invalidated'
  PROVE  ComputingFreshly'
  BY DEF ComputingFreshly, ComputedAnswersAreFresh, reading

(* Steps of one client keep it, if that client's own part is seen to.        *)
LEMMA ComputingStep ==
  ASSUME ComputingFreshly, NEW c \in Clients,
         UNCHANGED <<commits, at, phase>>,
         \A d \in Clients \ {c} :
           pc'[d] = pc[d] /\ seen'[d] = seen[d] /\ oldest'[d] = oldest[d],
         \A w \in Watchers \ {c} : counts'[w] = counts[w],
         seen'[c] \subseteq Invalidated,
         pc'[c] = "storing" => \A m \in seen'[c] : at[m] <= oldest'[c],
         c \in Watchers /\ pc'[c] = "querying" /\ counts'[c] # <<>> =>
           \A m \in seen'[c] : at[m] <= oldest'[c]
  PROVE  ComputingFreshly'
<1>1. Invalidated' = Invalidated
  BY DEF Invalidated
<1>2. Watchers \subseteq Clients
  BY DEF Clients
<1> QED
  BY <1>1, <1>2 DEF ComputingFreshly, ComputedAnswersAreFresh

(* Steps of a list client keep it.                                           *)
LEMMA ListStepsKeepComputing ==
  ASSUME TypeOK, ComputingFreshly, NEW r \in Readers, GetList(r)
  PROVE  ComputingFreshly'
<1> USE DEF ComputingFreshly, ComputedAnswersAreFresh
<1>1. r \in Clients /\ r \notin Watchers /\ UNCHANGED <<commits, at, phase, counts>>
  BY CacheAssumption DEF Clients, GetList, SeedVersion, ReadVersion, ResolveFails,
     ListHit, ListMiss, ListTickets, StoreList, SkipStoreList, database, mutating
<1>2. /\ \A d \in Clients \ {r} :
           pc'[d] = pc[d] /\ seen'[d] = seen[d] /\ oldest'[d] = oldest[d]
      /\ \/ pc'[r] # "storing" /\ seen'[r] \in {Invalidated, seen[r]}
         \/ pc'[r] = "storing" /\ oldest'[r] = commits /\ seen'[r] = seen[r]
  BY <1>1 DEF TypeOK, GetList, SeedVersion, ReadVersion, ResolveFails, ListHit,
     ListMiss, ListTickets, StoreList, SkipStoreList, BeginsList, Begins, Moves
<1>3. seen'[r] \subseteq Invalidated
  BY <1>1, <1>2
<1>4. pc'[r] = "storing" => \A m \in seen'[r] : at[m] <= oldest'[r]
  BY <1>1, <1>2 DEF TypeOK
<1> QED
  BY <1>1, <1>2, <1>3, <1>4, ComputingStep

(* Steps of a dashboard client keep it.                                      *)
LEMMA StatsStepsKeepComputing ==
  ASSUME TypeOK, ComputingFreshly, NEW w \in Watchers, GetStats(w)
  PROVE  ComputingFreshly'
<1>1. w \in Clients /\ UNCHANGED <<commits, at, phase>>
  BY DEF Clients, GetStats, StatsHit, StatsMiss, CalculateStats, StoreStats,
     SkipStoreStats, database, mutating
<1>2. /\ \A d \in Clients \ {w} :
           pc'[d] = pc[d] /\ seen'[d] = seen[d] /\ oldest'[d] = oldest[d]
      /\ \A v \in Watchers \ {w} : counts'[v] = counts[v]
  BY <1>1 DEF TypeOK, GetStats, StatsHit, StatsMiss, CalculateStats, StoreStats,
     SkipStoreStats, Begins, Moves
<1>3. \/ pc'[w] = "answered" /\ seen'[w] \in {Invalidated, seen[w]}
      \/ pc'[w] = "querying" /\ seen'[w] = Invalidated /\ counts'[w] = <<>>
      \/ /\ pc[w] = "querying" /\ pc'[w] \in {"querying", "storing"}
         /\ seen'[w] = seen[w]
         /\ \/ counts[w] = <<>> /\ oldest'[w] = commits
            \/ counts[w] # <<>> /\ oldest'[w] = oldest[w]
  BY <1>1 DEF TypeOK, GetStats, StatsHit, StatsMiss, CalculateStats, StoreStats,
     SkipStoreStats, Begins, Moves
<1>4. seen[w] \subseteq Invalidated /\ seen[w] \subseteq Mutations
  BY <1>1 DEF ComputingFreshly, TypeOK
<1>5. CASE pc'[w] = "answered" /\ seen'[w] \in {Invalidated, seen[w]}
  BY <1>1, <1>2, <1>4, <1>5, ComputingStep
<1>6. CASE pc'[w] = "querying" /\ seen'[w] = Invalidated /\ counts'[w] = <<>>
  BY <1>1, <1>2, <1>6, ComputingStep
<1>7. CASE /\ pc[w] = "querying" /\ pc'[w] \in {"querying", "storing"}
           /\ seen'[w] = seen[w]
           /\ \/ counts[w] = <<>> /\ oldest'[w] = commits
              \/ counts[w] # <<>> /\ oldest'[w] = oldest[w]
  <2>1. \A m \in seen'[w] : at[m] <= oldest'[w]
    BY <1>4, <1>7 DEF ComputingFreshly
  <2> QED
    BY <1>1, <1>2, <1>4, <1>7, <2>1, ComputingStep
<1> QED
  BY <1>3, <1>5, <1>6, <1>7

(* A commit keeps it: nobody has seen that mutation invalidate yet.          *)
LEMMA CommitKeepsComputing ==
  ASSUME TypeOK, ComputingFreshly, NEW m \in Mutations, CommitMutation(m)
  PROVE  ComputingFreshly'
<1>1. /\ phase[m] = "idle" /\ commits' = commits + 1 /\ commits \in Nat
      /\ at'[m] = commits + 1
      /\ \A n \in Mutations \ {m} : at'[n] = at[n] /\ phase'[n] = phase[n]
      /\ phase'[m] = "committed"
      /\ UNCHANGED reading
  BY DEF CommitMutation, TypeOK
<1>2. Invalidated' = Invalidated /\ m \notin Invalidated
  BY <1>1 DEF Invalidated
<1>3. \A c \in Clients : \A n \in seen[c] : n \in Mutations \ {m} /\ at'[n] = at[n]
  BY <1>1, <1>2 DEF ComputingFreshly, Invalidated
<1>4. ASSUME NEW n \in Mutations PROVE at'[n] <= commits'
  <2>1. at[n] \in Nat /\ at[n] <= commits
    BY DEF ComputingFreshly, TypeOK
  <2>2. CASE n = m
    BY <1>1, <2>2
  <2>3. CASE n # m
    BY <1>1, <2>1, <2>3
  <2> QED
    BY <2>2, <2>3
<1>5. Watchers \subseteq Clients
  BY DEF Clients
<1> QED
  BY <1>1, <1>2, <1>3, <1>4, <1>5 DEF ComputingFreshly, ComputedAnswersAreFresh, reading

(* What is computed is fresh. *)
THEOREM ComputedAnswersAreFreshHolds == Spec => []ComputedAnswersAreFresh
<1>1. Init => ComputingFreshly
  BY DEF Init, ComputingFreshly, ComputedAnswersAreFresh, Invalidated
<1>2. TypeOK /\ ComputingFreshly /\ [Next]_vars => ComputingFreshly'
  <2> SUFFICES ASSUME TypeOK, ComputingFreshly, [Next]_vars PROVE ComputingFreshly'
    OBVIOUS
  <2>1. CASE UNCHANGED vars
    BY <2>1, ComputingFrame DEF vars, database, mutating, Invalidated
  <2>2. ASSUME NEW m \in Mutations, InvalidateTicketCaches(m) \/ InvalidationFails(m)
        PROVE  ComputingFreshly'
    <3>1. Invalidated \subseteq Invalidated' /\ UNCHANGED <<commits, at, reading>>
      BY <2>2 DEF InvalidateTicketCaches, InvalidationFails, Invalidated, TypeOK, database
    <3> QED
      BY <3>1, ComputingFrame
  <2>3. CASE (\E k \in Keys : ExpireList(k)) \/ ExpireStats \/ LoseRedis
    <3>1. Invalidated' = Invalidated /\ UNCHANGED <<commits, at, reading>>
      BY <2>3 DEF ExpireList, ExpireStats, LoseRedis, Invalidated, database, mutating
    <3> QED
      BY <3>1, ComputingFrame
  <2> QED
    BY <2>1, <2>2, <2>3, CommitKeepsComputing, ListStepsKeepComputing,
       StatsStepsKeepComputing DEF Next, Mutate
<1>3. ComputingFreshly => ComputedAnswersAreFresh
  BY DEF ComputingFreshly
<1> QED
  BY <1>1, <1>2, <1>3, TypeCorrect, PTL DEF Spec
=============================================================================
