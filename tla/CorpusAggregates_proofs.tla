------------------------ MODULE CorpusAggregates_proofs ------------------------
(***************************************************************************)
(* Proofs about CorpusAggregates, for every set of addresses, batch and     *)
(* page size and write budget: the figures are exact and no staged bucket   *)
(* underflows.                                                              *)
(***************************************************************************)
EXTENDS MaintenanceAlarm, FiniteSetTheorems, WellFoundedInduction, TLAPS

-----------------------------------------------------------------------------
(* 0 comes before every address. *)
LEMMA PositiveAddress == \A ip \in Addr : ip \in Nat /\ ip > 0
<1>1. Addr \subseteq Nat \ {0}
  BY AggregatesAssumption
<1>2. QED
  BY <1>1

(* What the other proofs use of the constants. *)
LEMMA Constants ==
  /\ IsFiniteSet(Addr) /\ IsFiniteSet(Asn) /\ IsFiniteSet(Stack)
  /\ Input \subseteq HostRecord
  /\ WriteLimit \in Nat /\ PageOverhead \in Nat /\ AbortOverhead \in Nat
  /\ NoHost \notin HostRecord /\ NoGeneration \notin Generation
BY AggregatesAssumption

LEMMA PageLimitType == \A n \in PageLimit : n \in Nat /\ n > 0
<1>1. PageLimit \subseteq Nat \ {0}
  BY AggregatesAssumption
<1>2. QED
  BY <1>1

(* Tallies.                                                                *)

LEMMA TallyType ==
  ASSUME NEW rows, NEW ips \in SUBSET Addr, NEW b
  PROVE  /\ IsFiniteSet({ip \in ips : b \in BucketsOf(rows[ip])})
         /\ Tally(rows, ips, b) \in Nat
<1> DEFINE hit == {ip \in ips : b \in BucketsOf(rows[ip])}
<1>1. hit \in SUBSET Addr
  OBVIOUS
<1> HIDE DEF hit
<1>2. IsFiniteSet(hit)
  BY <1>1, Constants, FS_Subset
<1>3. Cardinality(hit) \in Nat
  BY <1>2, FS_CardinalityType
<1>4. QED
  BY <1>2, <1>3 DEF Tally, hit

LEMMA TallyUnion ==
  ASSUME NEW rows, NEW S \in SUBSET Addr, NEW T \in SUBSET Addr, S \cap T = {},
         NEW b
  PROVE  Tally(rows, S \cup T, b) = Tally(rows, S, b) + Tally(rows, T, b)
<1> DEFINE Hit(ips) == {ip \in ips : b \in BucketsOf(rows[ip])}
<1>1. IsFiniteSet(Hit(S)) /\ IsFiniteSet(Hit(T))
  BY TallyType
<1>2. Hit(S \cup T) = Hit(S) \cup Hit(T) /\ Hit(S) \cap Hit(T) = {}
  OBVIOUS
<1>3. Cardinality(Hit(S)) \in Nat /\ Cardinality(Hit(T)) \in Nat
  BY <1>1, FS_CardinalityType
<1> HIDE DEF Hit
<1>4. Cardinality(Hit(S \cup T)) = Cardinality(Hit(S)) + Cardinality(Hit(T))
  <2>1. Cardinality(Hit(S) \cup Hit(T)) =
          Cardinality(Hit(S)) + Cardinality(Hit(T)) - Cardinality(Hit(S) \cap Hit(T))
    BY <1>1, FS_Union
  <2>2. Cardinality(Hit(S) \cap Hit(T)) = 0
    BY <1>2, FS_EmptySet
  <2>3. Cardinality(Hit(S \cup T)) = Cardinality(Hit(S) \cup Hit(T))
    BY <1>2, Zenon
  <2>4. QED
    BY <1>3, <2>1, <2>2, <2>3
<1>5. QED
  BY <1>4 DEF Tally, Hit

LEMMA TallySame ==
  ASSUME NEW rows, NEW after, NEW ips \in SUBSET Addr,
         \A ip \in ips : rows[ip] = after[ip], NEW b
  PROVE  Tally(rows, ips, b) = Tally(after, ips, b)
<1>1. {ip \in ips : b \in BucketsOf(rows[ip])} =
        {ip \in ips : b \in BucketsOf(after[ip])}
  OBVIOUS
<1>2. QED
  BY <1>1 DEF Tally

LEMMA TallyEmpty ==
  ASSUME NEW rows, NEW b
  PROVE  Tally(rows, {}, b) = 0
<1>1. {ip \in {} : b \in BucketsOf(rows[ip])} = {}
  OBVIOUS
<1>2. QED
  BY <1>1, FS_EmptySet DEF Tally

(* Applying a write to an exact generation keeps it exact. *)
LEMMA AdjustedExact ==
  ASSUME NEW g \in Generation, NEW after, NEW b \in Bucket,
         g.counts[b] = Tally(hosts, UpTo(g.cursor), b)
  PROVE  Adjusted(g, after)[b] = Tally(after, UpTo(g.cursor), b)
<1> DEFINE passed == {ip \in UpTo(g.cursor) : hosts[ip] # after[ip]}
           kept == UpTo(g.cursor) \ passed
<1>1. /\ passed \in SUBSET Addr /\ kept \in SUBSET Addr
      /\ passed \cap kept = {} /\ passed \cup kept = UpTo(g.cursor)
      /\ \A ip \in kept : hosts[ip] = after[ip]
  BY DEF UpTo
<1>2. Adjusted(g, after)[b] =
        g.counts[b] - Tally(hosts, passed, b) + Tally(after, passed, b)
  BY DEF Adjusted
<1> HIDE DEF passed, kept
<1>3. /\ Tally(hosts, UpTo(g.cursor), b) =
           Tally(hosts, passed, b) + Tally(hosts, kept, b)
      /\ Tally(after, UpTo(g.cursor), b) =
           Tally(after, passed, b) + Tally(after, kept, b)
  BY <1>1, TallyUnion
<1>4. Tally(hosts, kept, b) = Tally(after, kept, b)
  BY <1>1, TallySame
<1>5. /\ Tally(hosts, passed, b) \in Nat /\ Tally(after, passed, b) \in Nat
      /\ Tally(hosts, kept, b) \in Nat
  BY <1>1, TallyType
<1>6. QED
  BY <1>2, <1>3, <1>4, <1>5

(* Counting a page of an exact generation keeps it exact up to the page's   *)
(* last row, and a page that is not full is the last one. *)
LEMMA RecountExact ==
  ASSUME NEW g \in Generation, NEW page \in SUBSET Addr, NEW c \in Addr \cup {0},
         NEW n \in PageLimit, NEW b \in Bucket,
         PageAfter(page, g.cursor, n), CursorAfter(page, g.cursor, c),
         g.counts[b] = Tally(hosts, UpTo(g.cursor), b)
  PROVE  /\ Recount(g, page)[b] = Tally(hosts, UpTo(c), b)
         /\ Cardinality(page) < n => Recount(g, page)[b] = Tally(hosts, Addr, b)
<1> DEFINE old == UpTo(g.cursor)
           absent(S) == S \ (old \cup page)
<1>1. /\ g.cursor \in Nat /\ c \in Nat
      /\ \A ip \in Addr : ip \in Nat
  <2>1. g.cursor \in Addr \cup {0}
    BY DEF Generation
  <2>2. QED
    BY <2>1, PositiveAddress
<1>a. /\ \A ip \in page : ip \in Present /\ ip > g.cursor
      /\ \A ip \in page, k \in Present : k > g.cursor /\ k <= ip => k \in page
  BY DEF PageAfter
<1>b. /\ \A ip \in Addr : ip \in old <=> ip <= g.cursor
      /\ \A ip \in Addr : ip \in UpTo(c) <=> ip <= c
      /\ old \in SUBSET Addr /\ UpTo(c) \in SUBSET Addr
  BY DEF UpTo
<1>c. IF page = {} THEN c = g.cursor ELSE c \in page /\ \A k \in page : k <= c
  BY DEF CursorAfter
<1>2. old \in SUBSET Addr /\ page \cap old = {}
  <2> HIDE DEF old
  <2>1. \A ip \in page : ip \in Nat /\ ip > g.cursor /\ (ip \in old => ip <= g.cursor)
    BY <1>1, <1>a, <1>b
  <2>2. QED
    BY <1>1, <1>b, <2>1
<1>3. old \cup page \subseteq UpTo(c)
  <2> HIDE DEF old
  <2>1. \A ip \in page : ip \in UpTo(c)
    BY <1>b, <1>c
  <2>2. \A ip \in old : ip <= g.cursor /\ ip \in Addr /\ ip \in Nat
    BY <1>1, <1>b
  <2>3. g.cursor <= c
    <3>1. CASE page = {}
      BY <1>1, <1>c, <3>1
    <3>2. CASE page # {}
      BY <1>1, <1>a, <1>c, <3>2
    <3>3. QED
      BY <3>1, <3>2
  <2>4. \A ip \in old : ip <= c
    BY <1>1, <2>2, <2>3
  <2>5. QED
    BY <1>b, <2>1, <2>2, <2>4
<1>4. \A ip \in UpTo(c) \ (old \cup page) : hosts[ip] = NoHost
  <2> HIDE DEF old
  <2>1. SUFFICES ASSUME NEW ip \in UpTo(c), ip \notin old, ip \notin page,
                        hosts[ip] # NoHost
                 PROVE  FALSE
    OBVIOUS
  <2>2. /\ ip \in Addr /\ ip \in Present /\ ip \in Nat
        /\ ~(ip <= g.cursor) /\ ip <= c
    BY <1>1, <1>b, <2>1 DEF Present
  <2>3. page # {}
    BY <1>1, <1>c, <2>2
  <2>4. c \in page
    BY <1>c, <2>3
  <2>5. ip > g.cursor
    BY <1>1, <2>2
  <2>6. QED
    BY <1>a, <2>1, <2>2, <2>4, <2>5
<1>5. Cardinality(page) < n =>
        \A ip \in Addr \ (old \cup page) : hosts[ip] = NoHost
  BY <1>1 DEF UpTo, PageAfter, Present
<1>6. ASSUME NEW S \in SUBSET Addr, old \cup page \subseteq S,
             \A ip \in S \ (old \cup page) : hosts[ip] = NoHost
      PROVE  Recount(g, page)[b] = Tally(hosts, S, b)
  <2>1. Tally(hosts, S, b) =
          Tally(hosts, old \cup page, b) + Tally(hosts, absent(S), b)
    <3>1. absent(S) \in SUBSET Addr /\ old \cup page \in SUBSET Addr
          /\ (old \cup page) \cap absent(S) = {}
          /\ (old \cup page) \cup absent(S) = S
      BY <1>2, <1>6
    <3> HIDE DEF absent, old
    <3>2. QED
      BY <3>1, TallyUnion
  <2>2. Tally(hosts, absent(S), b) = 0
    <3>1. {ip \in absent(S) : b \in BucketsOf(hosts[ip])} = {}
      BY <1>6 DEF BucketsOf
    <3>2. QED
      BY <3>1, FS_EmptySet DEF Tally
  <2>3. Tally(hosts, old \cup page, b) =
          Tally(hosts, old, b) + Tally(hosts, page, b)
    <3> HIDE DEF old
    <3>1. QED
      BY <1>2, TallyUnion
  <2>4. Tally(hosts, old, b) \in Nat /\ Tally(hosts, page, b) \in Nat
    BY <1>2, TallyType
  <2>5. Recount(g, page)[b] = Tally(hosts, old, b) + Tally(hosts, page, b)
    BY DEF Recount
  <2> HIDE DEF old, absent
  <2>6. QED
    BY <2>1, <2>2, <2>3, <2>4, <2>5
<1>7. UpTo(c) \in SUBSET Addr
  BY DEF UpTo
<1> HIDE DEF old
<1>8. QED
  BY <1>2, <1>3, <1>4, <1>5, <1>6, <1>7

-----------------------------------------------------------------------------
(* Costs are numbers.                                                      *)

LEMMA BucketsFinite == IsFiniteSet(Bucket)
<1>1. IsFiniteSet({"asn"} \X Asn) /\ IsFiniteSet({"stack"} \X Stack)
  BY Constants, FS_Product, FS_Singleton
<1>2. IsFiniteSet({<<"corpus", "reverified_hosts">>})
  BY FS_Singleton
<1>3. IsFiniteSet({<<"corpus", "reverified_hosts">>} \cup ({"asn"} \X Asn))
  BY <1>1, <1>2, FS_Union
<1>4. QED
  BY <1>1, <1>3, FS_Union DEF Bucket

LEMMA BucketsOfType ==
  ASSUME NEW record \in HostRecord \cup {NoHost}
  PROVE  BucketsOf(record) \subseteq Bucket
<1>1. CASE record = NoHost
  BY <1>1 DEF BucketsOf
<1>2. CASE record \in HostRecord
  <2>1. record.asn \in Asn /\ record.stacks \subseteq Stack
    BY <1>2 DEF HostRecord
  <2>2. QED
    BY <2>1 DEF BucketsOf, Bucket
<1>3. QED
  BY <1>1, <1>2

LEMMA AbortCostType == AbortCost \in Nat
<1>1. IsFiniteSet({b \in Bucket : building.counts[b] > 0})
  BY BucketsFinite, FS_Subset
<1>2. Cardinality({b \in Bucket : building.counts[b] > 0}) \in Nat
  BY <1>1, FS_CardinalityType
<1>3. QED
  BY <1>2, Constants DEF AbortCost

LEMMA PageCostType ==
  ASSUME TypeOK, NEW page \in SUBSET Addr
  PROVE  PageCost(page) \in Nat
<1> DEFINE buckets == UNION {BucketsOf(hosts[ip]) : ip \in page}
<1>1. \A ip \in page : BucketsOf(hosts[ip]) \subseteq Bucket
  <2>1. \A ip \in page : hosts[ip] \in HostRecord \cup {NoHost}
    BY DEF TypeOK
  <2>2. QED
    BY <2>1, BucketsOfType
<1>2. buckets \in SUBSET Bucket
  BY <1>1
<1> HIDE DEF buckets
<1>3. IsFiniteSet(buckets)
  BY <1>2, BucketsFinite, FS_Subset
<1>4. Cardinality(buckets) \in Nat
  BY <1>3, FS_CardinalityType
<1>5. QED
  BY <1>4, Constants DEF PageCost, buckets

-----------------------------------------------------------------------------
(* Writes to the corpus.                                                   *)

LEMMA WriteInvariant ==
  ASSUME AggregatesInv, NEW after \in [Addr -> HostRecord \cup {NoHost}],
         WriteCorpus(after), UNCHANGED <<published, used, deferred, pending>>,
         overdue' \subseteq {ip \in Addr : after[ip] # NoHost}
  PROVE  AggregatesInv'
<1>1. TypeOK /\ BuildingExact
  BY DEF AggregatesInv
<1>2. hosts' = after /\ fresh' = FALSE
  BY DEF WriteCorpus
<1>3. overdue' \subseteq Present'
  BY <1>2 DEF Present
<1>4. CASE building # NoGeneration /\ building.maintained
  <2>1. building \in Generation
    BY <1>1, <1>4 DEF TypeOK
  <2> DEFINE counts == Adjusted(building, after)
  <2>2. /\ building' = [building EXCEPT !.counts = counts]
        /\ \A b \in Bucket : counts[b] >= 0
    BY <1>4 DEF WriteCorpus
  <2>3. \A b \in Bucket : counts[b] = Tally(after, UpTo(building.cursor), b)
    BY <1>1, <1>4, <2>1, AdjustedExact DEF BuildingExact
  <2>4. \A b \in Bucket : counts[b] \in Nat
    <3>1. UpTo(building.cursor) \in SUBSET Addr
      BY DEF UpTo
    <3>2. QED
      BY <2>3, <3>1, TallyType
  <2>5. counts \in [Bucket -> Nat]
    <3>1. counts = [b \in Bucket |-> counts[b]]
      BY DEF Adjusted
    <3> HIDE DEF counts
    <3>2. QED
      BY <2>4, <3>1
  <2> HIDE DEF counts
  <2>6. /\ building' \in Generation
        /\ building'.counts = counts
        /\ building'.cursor = building.cursor
    BY <2>1, <2>2, <2>5 DEF Generation
  <2>7. BuildingExact'
    BY <1>2, <2>3, <2>6 DEF BuildingExact, UpTo
  <2>8. TypeOK'
    BY <1>1, <1>2, <1>3, <2>6 DEF TypeOK
  <2>9. QED
    BY <1>2, <2>7, <2>8 DEF AggregatesInv, PublishedExact
<1>5. CASE ~(building # NoGeneration /\ building.maintained)
  <2>1. building' = building
    BY <1>5 DEF WriteCorpus
  <2>2. TypeOK'
    BY <1>1, <1>2, <1>3, <2>1 DEF TypeOK
  <2>3. QED
    BY <1>2, <1>5, <2>1, <2>2 DEF AggregatesInv, BuildingExact, PublishedExact
<1>6. QED
  BY <1>4, <1>5

LEMMA MergedType ==
  ASSUME NEW prior \in HostRecord \cup {NoHost}, NEW input \in HostRecord
  PROVE  Merged(prior, input) \in HostRecord
<1>1. CASE prior = NoHost
  BY <1>1 DEF Merged
<1>2. CASE prior \in HostRecord
  <2>1. /\ prior.seen \in Nat /\ input.seen \in Nat /\ input.asn \in Asn
        /\ prior.stacks \cup input.stacks \in SUBSET Stack
    BY <1>2 DEF HostRecord
  <2>2. Max2(prior.seen, input.seen) \in Nat
    BY <2>1 DEF Max2
  <2>3. prior # NoHost
    BY <1>2, Constants
  <2>4. QED
    BY <2>1, <2>2, <2>3 DEF Merged, HostRecord
<1>3. QED
  BY <1>1, <1>2

LEMMA UpsertInvariant ==
  ASSUME AggregatesInv, NEW ips \in SUBSET Addr, NEW batch \in [ips -> Input],
         UpsertHosts(ips, batch)
  PROVE  AggregatesInv'
<1> DEFINE after == [ip \in Addr |-> IF ip \in ips THEN Merged(hosts[ip], batch[ip])
                                     ELSE hosts[ip]]
<1>1. \A ip \in Addr : hosts[ip] \in HostRecord \cup {NoHost}
  BY DEF AggregatesInv, TypeOK
<1>2. \A ip \in ips : Merged(hosts[ip], batch[ip]) \in HostRecord
  <2>1. \A ip \in ips : batch[ip] \in HostRecord
    BY Constants
  <2>2. QED
    BY <1>1, <2>1, MergedType
<1>3. after \in [Addr -> HostRecord \cup {NoHost}]
  BY <1>1, <1>2
<1>4. /\ WriteCorpus(after) /\ UNCHANGED <<published, used, deferred, pending>>
      /\ overdue' \subseteq overdue \cup ips
  BY DEF UpsertHosts
<1>5. overdue' \subseteq {ip \in Addr : after[ip] # NoHost}
  <2>1. \A ip \in overdue : ip \in Addr /\ hosts[ip] # NoHost
    BY DEF AggregatesInv, TypeOK, Present
  <2>2. QED
    BY <1>2, <1>4, <2>1, Constants
<1> HIDE DEF after
<1>6. QED
  BY <1>3, <1>4, <1>5, WriteInvariant

LEMMA WithoutInvariant ==
  ASSUME AggregatesInv, NEW ips \in SUBSET Addr, WriteCorpus(Without(ips)),
         overdue' = overdue \ ips, UNCHANGED <<published, used, deferred, pending>>
  PROVE  AggregatesInv'
<1>1. Without(ips) \in [Addr -> HostRecord \cup {NoHost}]
  BY DEF Without, AggregatesInv, TypeOK
<1>2. overdue' \subseteq {ip \in Addr : Without(ips)[ip] # NoHost}
  BY DEF Without, AggregatesInv, TypeOK, Present
<1>3. QED
  BY <1>1, <1>2, WriteInvariant

-----------------------------------------------------------------------------
(* The recount.                                                            *)

LEMMA BaseExact ==
  ASSUME AggregatesInv
  PROVE  /\ Base \in Generation
         /\ \A b \in Bucket : Base.counts[b] = Tally(hosts, UpTo(Base.cursor), b)
<1>1. CASE building = NoGeneration \/ Stale
  <2>1. Base = NewGeneration
    BY <1>1 DEF Base
  <2>2. NewGeneration \in Generation
    BY DEF NewGeneration, Generation, NoCounts
  <2>3. UpTo(0) = {}
    BY PositiveAddress DEF UpTo
  <2>4. \A b \in Bucket : NewGeneration.counts[b] = Tally(hosts, UpTo(0), b)
    BY <2>3, TallyEmpty DEF NewGeneration, NoCounts
  <2>5. NewGeneration.cursor = 0
    BY DEF NewGeneration
  <2>6. QED
    BY <2>1, <2>2, <2>4, <2>5
<1>2. CASE ~(building = NoGeneration \/ Stale)
  BY <1>2 DEF Base, Stale, AggregatesInv, TypeOK, BuildingExact
<1>3. QED
  BY <1>1, <1>2

LEMMA RecountType ==
  ASSUME NEW g \in Generation, NEW page \in SUBSET Addr
  PROVE  Recount(g, page) \in [Bucket -> Nat]
<1>1. \A b \in Bucket : g.counts[b] \in Nat /\ Tally(hosts, page, b) \in Nat
  BY TallyType DEF Generation
<1>2. \A b \in Bucket : g.counts[b] + Tally(hosts, page, b) \in Nat
  BY <1>1
<1>3. QED
  BY <1>2 DEF Recount

LEMMA DeferPageInvariant ==
  ASSUME AggregatesInv, NEW n \in PageLimit, DeferPage(n)
  PROVE  AggregatesInv'
<1>1. /\ building' = Base /\ used' = used + AbortCost /\ used' <= WriteLimit
      /\ ~fresh /\ deferred' = TRUE
      /\ UNCHANGED <<hosts, overdue, published, fresh, pending>>
  BY DEF DeferPage, DeferMaintenance, Recountable
<1>2. used' \in 0..WriteLimit
  BY <1>1, AbortCostType, Constants DEF AggregatesInv, TypeOK
<1>3. TypeOK'
  BY <1>1, <1>2, BaseExact DEF AggregatesInv, TypeOK, Present
<1>4. BuildingExact'
  BY <1>1, BaseExact DEF BuildingExact, UpTo
<1>5. QED
  BY <1>1, <1>3, <1>4 DEF AggregatesInv, PublishedExact

LEMMA CommitPageInvariant ==
  ASSUME AggregatesInv, NEW n \in PageLimit, CommitPage(n)
  PROVE  AggregatesInv'
<1>1. /\ UNCHANGED <<hosts, overdue, pending>>
      /\ ~fresh
  BY DEF CommitPage, Recountable
<1>2. PICK page \in SUBSET Addr, c \in Addr \cup {0} :
        /\ PageAfter(page, Base.cursor, n)
        /\ CursorAfter(page, Base.cursor, c)
        /\ used + (AbortCost + PageCost(page)) <= WriteLimit
        /\ used' = used + (AbortCost + PageCost(page))
        /\ \/ /\ Cardinality(page) = n
              /\ building' = [cursor |-> c, counts |-> Recount(Base, page),
                              maintained |-> TRUE]
              /\ UNCHANGED <<published, fresh, deferred>>
           \/ /\ Cardinality(page) < n
              /\ building' = NoGeneration
              /\ published' = [counts |-> Recount(Base, page),
                               lastSeen |-> LatestSeen(hosts)]
              /\ fresh' = TRUE
              /\ deferred' = FALSE
  BY DEF CommitPage
<1>3. \A b \in Bucket :
        /\ Recount(Base, page)[b] = Tally(hosts, UpTo(c), b)
        /\ Cardinality(page) < n => Recount(Base, page)[b] = Tally(hosts, Addr, b)
  BY <1>2, BaseExact, RecountExact
<1>4. Recount(Base, page) \in [Bucket -> Nat]
  BY BaseExact, RecountType
<1>5. used' \in 0..WriteLimit
  <2>1. used \in Nat /\ AbortCost \in Nat /\ PageCost(page) \in Nat
    BY AbortCostType, PageCostType DEF AggregatesInv, TypeOK
  <2>2. QED
    BY <1>2, <2>1, Constants
<1>6. CASE /\ Cardinality(page) = n
           /\ building' = [cursor |-> c, counts |-> Recount(Base, page),
                           maintained |-> TRUE]
           /\ UNCHANGED <<published, fresh, deferred>>
  <2>1. building' \in Generation
    BY <1>4, <1>6 DEF Generation
  <2>2. TypeOK'
    BY <1>1, <1>5, <1>6, <2>1 DEF AggregatesInv, TypeOK, Present
  <2>3. BuildingExact'
    BY <1>1, <1>3, <1>6 DEF BuildingExact, UpTo
  <2>4. QED
    BY <1>1, <1>6, <2>2, <2>3 DEF AggregatesInv, PublishedExact
<1>7. CASE /\ Cardinality(page) < n
           /\ building' = NoGeneration
           /\ published' = [counts |-> Recount(Base, page),
                            lastSeen |-> LatestSeen(hosts)]
           /\ fresh' = TRUE
           /\ deferred' = FALSE
  <2>1. published'.counts = Recount(Base, page)
        /\ published'.lastSeen = LatestSeen(hosts)
    BY <1>7
  <2>2. TypeOK'
    BY <1>1, <1>4, <1>5, <1>7, <2>1 DEF AggregatesInv, TypeOK, Present
  <2>3. PublishedExact'
    BY <1>1, <1>3, <1>7, <2>1 DEF PublishedExact
  <2>4. QED
    BY <1>7, <2>2, <2>3 DEF AggregatesInv, BuildingExact
<1>8. QED
  BY <1>2, <1>6, <1>7

-----------------------------------------------------------------------------
(* Steps that touch neither rows nor figures. *)
LEMMA ElsewhereInvariant ==
  ASSUME AggregatesInv, UNCHANGED <<hosts, building, published, fresh>>,
         overdue' \subseteq Present, used' \in 0..WriteLimit,
         deferred' \in BOOLEAN, pending' \in BOOLEAN
  PROVE  AggregatesInv'
BY DEF AggregatesInv, TypeOK, Present, BuildingExact, PublishedExact, UpTo

LEMMA InitialInvariant == Init => AggregatesInv
<1> SUFFICES ASSUME Init PROVE AggregatesInv
  OBVIOUS
<1>1. TypeOK
  <2>1. building \in Generation \cup {NoGeneration}
    <3>1. SUFFICES ASSUME NEW n \in 0..1,
                          building = [NewGeneration EXCEPT !.maintained = FALSE,
                                        !.counts = [b \in Bucket |-> n]]
                   PROVE  building \in Generation
      BY DEF Init
    <3>2. building = [cursor |-> 0, counts |-> [b \in Bucket |-> n],
                      maintained |-> FALSE]
      BY <3>1 DEF NewGeneration
    <3>3. QED
      BY <3>2 DEF Generation
  <2>2. QED
    BY <2>1 DEF Init, TypeOK
<1>2. BuildingExact
  BY Constants DEF Init, BuildingExact, NewGeneration
<1>3. QED
  BY <1>1, <1>2 DEF Init, AggregatesInv, PublishedExact

LEMMA InvariantStep == AggregatesInv /\ [Next]_vars => AggregatesInv'
<1> SUFFICES ASSUME AggregatesInv, [Next]_vars PROVE AggregatesInv'
  OBVIOUS
<1>0. /\ overdue \subseteq Present /\ used \in 0..WriteLimit
      /\ deferred \in BOOLEAN /\ pending \in BOOLEAN
  BY DEF AggregatesInv, TypeOK
<1>1. ASSUME NEW ips \in Batches, NEW batch \in [ips -> Input],
             UpsertHosts(ips, batch)
      PROVE  AggregatesInv'
  BY <1>1, UpsertInvariant DEF Batches
<1>2. ASSUME NEW ips \in Batches, RetireHosts(ips) \/ PurgePage(ips)
      PROVE  AggregatesInv'
  BY <1>2, WithoutInvariant DEF Batches, RetireHosts, PurgePage
<1>3. ASSUME NEW ip \in Present, Expire(ip)
      PROVE  AggregatesInv'
  BY <1>0, <1>3, ElsewhereInvariant DEF Expire
<1>4. ASSUME NEW n \in PageLimit, RunRetention(n)
      PROVE  AggregatesInv'
  <2>1. PICK ips \in SUBSET overdue :
          WriteCorpus(Without(ips)) /\ overdue' = overdue \ ips
    BY <1>4 DEF RunRetention
  <2>2. ips \in SUBSET Addr
    BY <1>0 DEF Present
  <2>3. QED
    BY <1>4, <2>1, <2>2, WithoutInvariant DEF RunRetention
<1>5. ASSUME NEW n \in PageLimit, DeferPage(n)
      PROVE  AggregatesInv'
  BY <1>5, DeferPageInvariant
<1>6. ASSUME NEW n \in PageLimit, CommitPage(n)
      PROVE  AggregatesInv'
  BY <1>6, CommitPageInvariant
<1>7. CASE FileExclusion \/ CompletePurges
  BY <1>0, <1>7, ElsewhereInvariant DEF FileExclusion, CompletePurges
<1>8. CASE DeferAbort
  BY <1>0, <1>8, ElsewhereInvariant DEF DeferAbort, DeferMaintenance
<1>9. CASE NextDay
  <2>1. used' \in 0..WriteLimit
    BY <1>9, Constants DEF NextDay
  <2>2. QED
    BY <1>0, <1>9, <2>1, ElsewhereInvariant DEF NextDay
<1>10. CASE UNCHANGED vars
  BY <1>0, <1>10, ElsewhereInvariant DEF vars
<1>11. QED
  BY <1>1, <1>2, <1>3, <1>4, <1>5, <1>6, <1>7, <1>8, <1>9, <1>10 DEF Next

(* Types, and the two exactness invariants: what a generation has counted,  *)
(* and what the current one publishes while it is fresh, is the corpus.     *)
THEOREM AggregatesExact == Spec => []AggregatesInv
BY InitialInvariant, InvariantStep, PTL DEF Spec

(* No deletion throws building_aggregate_bucket_underflow. *)
THEOREM NeverUnderflows == Spec => []NoUnderflow
<1>1. ASSUME AggregatesInv PROVE NoUnderflow
  <2>1. SUFFICES ASSUME building # NoGeneration, building.maintained,
                        NEW ips \in SUBSET Present, NEW b \in Bucket
                 PROVE  Adjusted(building, Without(ips))[b] >= 0
    BY DEF NoUnderflow
  <2>2. building \in Generation
    BY <1>1, <2>1 DEF AggregatesInv, TypeOK
  <2>3. Adjusted(building, Without(ips))[b] =
          Tally(Without(ips), UpTo(building.cursor), b)
    BY <1>1, <2>1, <2>2, AdjustedExact DEF AggregatesInv, BuildingExact
  <2>4. Tally(Without(ips), UpTo(building.cursor), b) \in Nat
    <3>1. UpTo(building.cursor) \in SUBSET Addr
      BY DEF UpTo
    <3>2. QED
      BY <3>1, TallyType
  <2>5. QED
    BY <2>3, <2>4
<1>2. QED
  BY <1>1, AggregatesExact, PTL

(* Whatever is published is exact, of a corpus that is neither overdue nor  *)
(* half purged. *)
THEOREM PublishesClean == Spec => PublicationClean
<1>1. ASSUME AggregatesInv, AggregatesInv', [Next]_vars, published' # published
      PROVE  /\ overdue = {} /\ ~pending
             /\ \A b \in Bucket : published'.counts[b] = Tally(hosts', Addr, b)
  <2>1. PICK n \in PageLimit : CommitPage(n)
    BY <1>1 DEF Next, vars, UpsertHosts, RetireHosts, PurgePage, Expire,
                RunRetention, DeferPage, DeferAbort, DeferMaintenance,
                FileExclusion, CompletePurges, NextDay
  <2>2. overdue = {} /\ ~pending /\ fresh'
    BY <1>1, <2>1 DEF CommitPage, Recountable
  <2>3. QED
    BY <1>1, <2>2 DEF AggregatesInv, PublishedExact
<1>2. AggregatesInv /\ AggregatesInv' /\ [Next]_vars =>
        [published' # published =>
           /\ overdue = {} /\ ~pending
           /\ \A b \in Bucket : published'.counts[b] = Tally(hosts', Addr, b)]_vars
  BY <1>1
<1>3. QED
  BY <1>2, AggregatesExact, PTL DEF Spec, PublicationClean
-----------------------------------------------------------------------------
(* The alarm: what a request asks for. *)

LEMMA Ticks ==
  /\ Life \in Nat \ {0} /\ DayLength \in Nat \ {0} /\ AlarmPages \in Nat \ {0}
  /\ NoAlarm \notin Nat
BY AlarmAssumption

LEMMA Smallest ==
  ASSUME NEW S \in SUBSET Nat, S # {}
  PROVE  Min(S) \in S /\ \A n \in S : Min(S) <= n
<1>1. \E m \in S : \A n \in S : <<n, m>> \notin OpToRel(<, Nat)
  BY NatLessThanWellFounded, WFMin
<1>2. PICK m \in S : \A n \in S : ~(n < m)
  BY <1>1 DEF OpToRel
<1>3. \A n \in S : m <= n
  BY <1>2
<1>4. QED
  BY <1>3 DEF Min

LEMMA RetentionRequestType ==
  ASSUME due' \in [Addr -> Nat]
  PROVE  /\ RetentionRequest \in Seq(Nat \ {0})
         /\ \A ip \in Present' : \E i \in DOMAIN RetentionRequest :
              RetentionRequest[i] <= AtLeastOne(due'[ip])
<1> DEFINE held == {ip \in Addr : hosts'[ip] # NoHost}
           S == {due'[ip] : ip \in held}
<1>1. CASE held = {}
  BY <1>1 DEF RetentionRequest, Present
<1>2. CASE held # {}
  <2>1. S \in SUBSET Nat /\ S # {}
    BY <1>2
  <2>2. Min(S) \in S /\ \A n \in S : Min(S) <= n
    BY <2>1, Smallest
  <2>3. RetentionRequest = <<AtLeastOne(Min(S))>>
    BY <1>2 DEF RetentionRequest
  <2>4. Min(S) \in Nat /\ \A ip \in held : Min(S) <= due'[ip] /\ due'[ip] \in Nat
    BY <2>1, <2>2
  <2> HIDE DEF S
  <2>5. /\ AtLeastOne(Min(S)) \in Nat \ {0}
        /\ \A ip \in held : AtLeastOne(Min(S)) <= AtLeastOne(due'[ip])
    BY <2>4 DEF AtLeastOne, Max2
  <2>6. QED
    BY <2>3, <2>5 DEF Present
<1>3. QED
  BY <1>1, <1>2

(* Requests are only added at the end of the queue, and have not been read. *)
Longer ==
  /\ DOMAIN queue \subseteq DOMAIN queue'
  /\ \A i \in DOMAIN queue : queue'[i] = queue[i]
  /\ \A i \in DOMAIN queue' : queue'[i].read => i \in DOMAIN queue

LEMMA Appended ==
  ASSUME NEW S, NEW q \in Seq(S), NEW r \in Seq(S)
  PROVE  /\ q \o r \in Seq(S) /\ DOMAIN q \subseteq DOMAIN (q \o r)
         /\ \A i \in DOMAIN q : (q \o r)[i] = q[i]
         /\ \A i \in DOMAIN r : Len(q) + i \in DOMAIN (q \o r) /\ (q \o r)[Len(q) + i] = r[i]
         /\ \A i \in DOMAIN (q \o r) :
              i \in DOMAIN q \/ (i - Len(q) \in DOMAIN r /\ (q \o r)[i] = r[i - Len(q)])
OBVIOUS

(* The requests of one call, queued behind those already there. *)
LEMMA Scheduled ==
  ASSUME AlarmTypeOK, NEW requests \in Seq(Nat \ {0}), Schedule(requests)
  PROVE  /\ queue' \in Seq(Request) /\ Longer
         /\ \A i \in DOMAIN requests : \E j \in DOMAIN queue' : queue'[j].at = requests[i]
<1> DEFINE asked == [i \in DOMAIN requests |-> Asked(requests[i])]
<1>1. /\ DOMAIN requests = 1..Len(requests) /\ Len(requests) \in Nat
      /\ \A i \in DOMAIN requests : requests[i] \in Nat \ {0}
  OBVIOUS
<1>2. \A i \in DOMAIN requests : Asked(requests[i]) \in Request
  BY <1>1 DEF Asked, Request
<1>3. asked \in Seq(Request) /\ DOMAIN asked = DOMAIN requests
  BY <1>1, <1>2
<1>4. \A i \in DOMAIN requests : asked[i].at = requests[i] /\ ~asked[i].read
  BY DEF Asked
<1>5. queue' = queue \o asked /\ queue \in Seq(Request)
  BY DEF Schedule, AlarmTypeOK
<1> HIDE DEF asked
<1>6. /\ queue' \in Seq(Request) /\ DOMAIN queue \subseteq DOMAIN queue'
      /\ \A i \in DOMAIN queue : queue'[i] = queue[i]
      /\ \A i \in DOMAIN asked : Len(queue) + i \in DOMAIN queue' /\ queue'[Len(queue) + i] = asked[i]
      /\ \A i \in DOMAIN queue' :
           i \in DOMAIN queue \/ (i - Len(queue) \in DOMAIN asked /\ queue'[i] = asked[i - Len(queue)])
  BY <1>3, <1>5, Appended
<1>7. Longer
  BY <1>3, <1>4, <1>6 DEF Longer
<1>8. QED
  BY <1>3, <1>4, <1>6, <1>7

LEMMA LongerSound ==
  ASSUME AlarmInv, Longer, alarm' = alarm
  PROVE  QueueSound'
BY DEF AlarmInv, QueueSound, Longer

LEMMA TailFacts ==
  ASSUME NEW S, NEW q \in Seq(S), q # <<>>
  PROVE  /\ Len(q) \in Nat \ {0} /\ DOMAIN q = 1..Len(q) /\ q[1] \in S
         /\ Tail(q) \in Seq(S) /\ DOMAIN Tail(q) = 1..(Len(q) - 1)
         /\ \A i \in 1..(Len(q) - 1) : Tail(q)[i] = q[i + 1] /\ i + 1 \in DOMAIN q
OBVIOUS

LEMMA OtherRequests ==
  ASSUME AlarmTypeOK
  PROVE  /\ Soon \in Seq(Nat \ {0}) /\ DOMAIN Soon = {1} /\ Soon[1] <= DayLength
         /\ NextMorning \in Seq(Nat \ {0}) /\ DOMAIN NextMorning = {1}
         /\ NextMorning[1] <= DayLength
<1>1. DayLength \in Nat \ {0} /\ hour \in 0..(DayLength - 1)
  BY Ticks DEF AlarmTypeOK
<1>2. DayLength - hour \in Nat \ {0} /\ DayLength - hour <= DayLength /\ 1 <= DayLength
  BY <1>1
<1>3. QED
  BY <1>2 DEF Soon, NextMorning

-----------------------------------------------------------------------------
(* What the steps of CorpusAggregates do to hosts and to the recount. *)

LEMMA WritesRecount ==
  ASSUME NEW after, WriteCorpus(after), NoGeneration \notin Generation
  PROVE  building' # NoGeneration => building # NoGeneration
BY DEF WriteCorpus

LEMMA RetentionShrinks ==
  ASSUME NEW n \in PageLimit, RunRetention(n)
  PROVE  /\ Present' \subseteq Present
         /\ building' # NoGeneration => building # NoGeneration
         /\ pending' = pending /\ [Next]_vars
<1>1. PICK ips \in SUBSET overdue : WriteCorpus(Without(ips))
  BY DEF RunRetention
<1>2. hosts' = Without(ips)
  BY <1>1 DEF WriteCorpus
<1>3. Present' \subseteq Present
  BY <1>2 DEF Present, Without
<1>4. QED
  BY <1>1, <1>3, WritesRecount, Constants DEF RunRetention, Next

(* A page of a recount, for whomever it runs. *)
LEMMA PageMoves ==
  ASSUME AlarmInv, NEW n \in PageLimit, NEW again \in BOOLEAN, Page(n, again), due' = due
  PROVE  /\ [Next]_vars /\ Present' \subseteq Present
         /\ queue' \in Seq(Request) /\ Longer
         /\ building' # NoGeneration /\ ~pending' =>
              \E i \in DOMAIN queue' : queue'[i].at <= DayLength
<1>1. /\ AlarmTypeOK /\ queue \in Seq(Request)
      /\ due' \in [Addr -> Nat]
      /\ fresh => building = NoGeneration
  BY DEF AlarmInv, AggregatesInv, PublishedExact, AlarmTypeOK
<1>2. ASSUME NEW requests \in Seq(Nat \ {0}), Schedule(requests)
      PROVE  /\ queue' \in Seq(Request) /\ Longer
             /\ \A i \in DOMAIN requests : requests[i] <= DayLength =>
                  \E j \in DOMAIN queue' : queue'[j].at <= DayLength
  <2>1. /\ queue' \in Seq(Request) /\ Longer
        /\ \A i \in DOMAIN requests : \E j \in DOMAIN queue' : queue'[j].at = requests[i]
    BY <1>1, <1>2, Scheduled
  <2>2. QED
    BY <2>1
<1>3. CASE (pending \/ fresh) /\ UNCHANGED <<vars, queue>>
  BY <1>1, <1>3 DEF vars, Longer, Present
<1>4. CASE RunRetention(n) /\ Schedule(RetentionRequest \o Soon)
  <2>1. /\ RetentionRequest \in Seq(Nat \ {0}) /\ Soon \in Seq(Nat \ {0})
        /\ DOMAIN Soon = {1} /\ Soon[1] <= DayLength
    BY <1>1, RetentionRequestType, OtherRequests
  <2> DEFINE requests == RetentionRequest \o Soon
             last == Len(RetentionRequest) + 1
  <2>2. Soon = <<1>>
    BY DEF Soon
  <2>3. requests \in Seq(Nat \ {0}) /\ last \in DOMAIN requests /\ requests[last] = Soon[1]
    BY <2>1, <2>2
  <2> HIDE DEF requests, last
  <2>4. QED
    BY <1>2, <1>4, <2>1, <2>3, RetentionShrinks DEF requests
<1>5. CASE (DeferAbort \/ DeferPage(n)) /\ Schedule(NextMorning)
  <2>1. [Next]_vars /\ Present' = Present
    BY <1>5 DEF Next, DeferAbort, DeferPage, DeferMaintenance, Present
  <2>2. QED
    BY <1>1, <1>2, <1>5, <2>1, OtherRequests
<1>6. CASE /\ CommitPage(n)
           /\ again = (building' # NoGeneration)
           /\ Schedule(IF again THEN Soon ELSE RetentionRequest)
  <2>1. [Next]_vars /\ Present' = Present
    BY <1>6 DEF Next, CommitPage, Present
  <2>2. CASE building' # NoGeneration
    BY <1>1, <1>2, <1>6, <2>1, <2>2, OtherRequests
  <2>3. CASE building' = NoGeneration
    BY <1>1, <1>2, <1>6, <2>1, <2>3, RetentionRequestType
  <2>4. QED
    BY <2>2, <2>3
<1>7. QED
  BY <1>3, <1>4, <1>5, <1>6 DEF Page
-----------------------------------------------------------------------------
(* The invariant of the alarm, action by action. *)

LEMMA AlarmFacts ==
  ASSUME AlarmInv
  PROVE  /\ due \in [Addr -> Nat] /\ hour \in 0..(DayLength - 1)
         /\ alarm \in Nat \cup {NoAlarm} /\ ringing \in Nat /\ cron \in Nat
         /\ nightly \in BOOLEAN /\ lost \in BOOLEAN
         /\ \A i \in DOMAIN queue : queue[i].read => i = 1 /\ queue[i].existing = alarm
         /\ queue \in Seq(Request)
BY DEF AlarmInv, AlarmTypeOK, QueueSound

(* A call that leaves the alarm alone and only adds requests: the hosts it    *)
(* leaves were there with the same deadline, or their deadline is requested. *)
LEMMA CallKeepsAlarm ==
  ASSUME AlarmInv, [Next]_vars, Longer, UNCHANGED <<alarm, hour, lost>>,
         due' \in [Addr -> Nat], ringing' \in Nat, cron' \in Nat, nightly' \in BOOLEAN,
         queue' \in Seq(Request),
         \A ip \in Present' :
           \/ ip \in Present /\ due'[ip] = due[ip]
           \/ \E i \in DOMAIN queue' : queue'[i].at <= AtLeastOne(due'[ip]),
         \/ building' # NoGeneration /\ ~pending' /\ ringing' = 0 =>
              building # NoGeneration /\ ~pending /\ ringing = 0
         \/ building' # NoGeneration /\ ~pending' =>
              \E i \in DOMAIN queue' : queue'[i].at <= DayLength
  PROVE  AlarmInv'
<1>1. AggregatesInv'
  BY InvariantStep DEF AlarmInv
<1>2. AlarmTypeOK'
  BY AlarmFacts DEF AlarmTypeOK
<1>3. QueueSound'
  BY LongerSound
<1>4. DeadlinesMet'
  <2>1. SUFFICES ASSUME ~lost
                 PROVE  /\ \A ip \in Present' : Met(AtLeastOne(due[ip]))'
                        /\ building' # NoGeneration /\ ~pending' /\ ringing' = 0 =>
                             Met(DayLength)'
    BY DEF DeadlinesMet
  <2>2. /\ \A ip \in Present : Met(AtLeastOne(due[ip]))
        /\ building # NoGeneration /\ ~pending /\ ringing = 0 => Met(DayLength)
    BY <2>1 DEF AlarmInv, DeadlinesMet
  <2>3. \A i \in DOMAIN queue : i \in DOMAIN queue' /\ queue'[i].at = queue[i].at
    BY DEF Longer
  <2>4. ASSUME NEW ip \in Present'
        PROVE  Met(AtLeastOne(due[ip]))'
    <3>1. CASE ip \in Present /\ due'[ip] = due[ip]
      <4>1. Met(AtLeastOne(due[ip]))
        BY <2>2, <3>1
      <4>2. QED
        BY <2>3, <3>1, <4>1 DEF Met
    <3>2. CASE \E i \in DOMAIN queue' : queue'[i].at <= AtLeastOne(due'[ip])
      BY <3>2 DEF Met
    <3>3. QED
      BY <3>1, <3>2
  <2>5. building' # NoGeneration /\ ~pending' /\ ringing' = 0 => Met(DayLength)'
    BY <2>2, <2>3 DEF Met
  <2>6. QED
    BY <2>4, <2>5
<1>5. QED
  BY <1>1, <1>2, <1>3, <1>4 DEF AlarmInv

LEMMA UpsertAlarm ==
  ASSUME AlarmInv, NEW ips \in Batches, NEW batch \in [ips -> Input], Upsert(ips, batch)
  PROVE  AlarmInv'
<1>1. PICK left \in [ips -> 0..Life] :
        due' = [ip \in Addr |-> IF ip \in ips THEN left[ip] ELSE due[ip]]
  BY DEF Upsert
<1>2. /\ UpsertHosts(ips, batch) /\ Schedule(RetentionRequest)
      /\ UNCHANGED <<hour, alarm, ringing, nightly, cron, lost>>
  BY DEF Upsert
<1>3. due' \in [Addr -> Nat]
  BY <1>1, Ticks, AlarmFacts
<1>4. /\ RetentionRequest \in Seq(Nat \ {0})
      /\ \A ip \in Present' : \E i \in DOMAIN RetentionRequest :
           RetentionRequest[i] <= AtLeastOne(due'[ip])
  BY <1>3, RetentionRequestType
<1>5. /\ queue' \in Seq(Request) /\ Longer
      /\ \A i \in DOMAIN RetentionRequest :
           \E j \in DOMAIN queue' : queue'[j].at = RetentionRequest[i]
  BY <1>2, <1>4, Scheduled DEF AlarmInv
<1>6. \A ip \in Present' : \E i \in DOMAIN queue' : queue'[i].at <= AtLeastOne(due'[ip])
  BY <1>4, <1>5
<1>7. /\ building' # NoGeneration => building # NoGeneration
      /\ pending' = pending
  BY <1>2, WritesRecount, Constants DEF UpsertHosts
<1>8. [Next]_vars
  BY <1>2 DEF Next
<1>9. QED
  BY <1>2, <1>3, <1>5, <1>6, <1>7, <1>8, AlarmFacts, CallKeepsAlarm

LEMMA RetireAlarm ==
  ASSUME AlarmInv, NEW ips \in Batches, ips \subseteq Present, Retire(ips)
  PROVE  AlarmInv'
<1>1. Gate /\ (RetireHosts(ips) \/ PurgePage(ips)) /\ UNCHANGED own
  BY DEF Retire
<1>2. /\ building' # NoGeneration => building # NoGeneration
      /\ pending' = pending /\ [Next]_vars /\ hosts' = Without(ips)
  BY <1>1, WritesRecount, Constants DEF RetireHosts, PurgePage, Next, WriteCorpus
<1>3. Present' \subseteq Present
  BY <1>2 DEF Present, Without
<1>4. QED
  BY <1>1, <1>2, <1>3, AlarmFacts, CallKeepsAlarm DEF own, Longer

LEMMA FileAlarm ==
  ASSUME AlarmInv, File
  PROVE  AlarmInv'
<1>1. Gate /\ FileExclusion /\ UNCHANGED own
  BY DEF File
<1>2. [Next]_vars /\ Present' = Present /\ pending'
  BY <1>1 DEF FileExclusion, Next, Present
<1>3. QED
  BY <1>1, <1>2, AlarmFacts, CallKeepsAlarm DEF own, Longer

LEMMA CompleteAlarm ==
  ASSUME AlarmInv, Complete
  PROVE  AlarmInv'
<1>1. /\ Gate /\ CompletePurges /\ Schedule(Soon)
      /\ UNCHANGED <<due, hour, alarm, ringing, nightly, cron, lost>>
  BY DEF Complete
<1>2. [Next]_vars /\ Present' = Present
  BY <1>1 DEF CompletePurges, Next, Present
<1>3. Soon \in Seq(Nat \ {0}) /\ DOMAIN Soon = {1} /\ Soon[1] <= DayLength
  BY OtherRequests DEF AlarmInv
<1>4. /\ queue' \in Seq(Request) /\ Longer
      /\ \A i \in DOMAIN Soon : \E j \in DOMAIN queue' : queue'[j].at = Soon[i]
  BY <1>1, <1>3, Scheduled DEF AlarmInv
<1>5. \E i \in DOMAIN queue' : queue'[i].at <= DayLength
  BY <1>3, <1>4
<1>6. QED
  BY <1>1, <1>2, <1>4, <1>5, AlarmFacts, CallKeepsAlarm

(* A page run by a maintainer, the alarm or the cron. *)
LEMMA PageAlarm ==
  ASSUME AlarmInv, NEW n \in PageLimit, Reconcile(n) \/ AlarmPage(n) \/ CronPage(n)
  PROVE  AlarmInv'
<1>1. PICK again \in BOOLEAN :
        /\ Page(n, again)
        /\ \/ ringing' = ringing
           \/ ringing > 0 /\ ringing' = IF again THEN ringing - 1 ELSE 0
        /\ \/ cron' = cron
           \/ cron > 0 /\ cron' = IF again THEN cron - 1 ELSE 0
  BY DEF Reconcile, AlarmPage, CronPage
<1>2. due' = due /\ UNCHANGED <<hour, alarm, nightly, lost>>
  BY DEF Reconcile, AlarmPage, CronPage
<1>3. /\ [Next]_vars /\ Present' \subseteq Present
      /\ queue' \in Seq(Request) /\ Longer
      /\ building' # NoGeneration /\ ~pending' =>
           \E i \in DOMAIN queue' : queue'[i].at <= DayLength
  BY <1>1, <1>2, PageMoves
<1>4. ringing' \in Nat /\ cron' \in Nat
  BY <1>1, AlarmFacts
<1>5. QED
  BY <1>2, <1>3, <1>4, AlarmFacts, CallKeepsAlarm

(* Retention, by the alarm or by the cron. *)
LEMMA RetentionMoves ==
  ASSUME AlarmInv, Retention, due' = due
  PROVE  /\ [Next]_vars /\ Present' \subseteq Present /\ pending' = pending
         /\ building' # NoGeneration => building # NoGeneration
         /\ queue' \in Seq(Request) /\ Longer
         /\ \A ip \in Present' : \E i \in DOMAIN queue' : queue'[i].at <= AtLeastOne(due'[ip])
<1>1. /\ [Next]_vars /\ Present' \subseteq Present /\ pending' = pending
      /\ building' # NoGeneration => building # NoGeneration
  <2>1. CASE UNCHANGED vars
    BY <2>1 DEF vars, Present
  <2>2. CASE \E n \in PageLimit : RunRetention(n)
    BY <2>2, RetentionShrinks
  <2>3. QED
    BY <2>1, <2>2 DEF Retention
<1>2. /\ RetentionRequest \in Seq(Nat \ {0})
      /\ \A ip \in Present' : \E i \in DOMAIN RetentionRequest :
           RetentionRequest[i] <= AtLeastOne(due'[ip])
  <2>1. due' \in [Addr -> Nat]
    BY AlarmFacts
  <2>2. QED
    BY <2>1, RetentionRequestType
<1>3. /\ queue' \in Seq(Request) /\ Longer
      /\ \A i \in DOMAIN RetentionRequest :
           \E j \in DOMAIN queue' : queue'[j].at = RetentionRequest[i]
  BY <1>2, Scheduled DEF AlarmInv, Retention
<1>4. QED
  BY <1>1, <1>2, <1>3

LEMMA CronAlarm ==
  ASSUME AlarmInv, Cron
  PROVE  AlarmInv'
<1>1. /\ Gate /\ nightly' = FALSE /\ cron' = AlarmPages /\ due' = due /\ Retention
      /\ UNCHANGED <<hour, alarm, ringing, lost>>
  BY DEF Cron
<1>2. /\ [Next]_vars /\ Present' \subseteq Present /\ pending' = pending
      /\ building' # NoGeneration => building # NoGeneration
      /\ queue' \in Seq(Request) /\ Longer
  BY <1>1, RetentionMoves
<1>3. /\ due' \in [Addr -> Nat] /\ ringing' \in Nat /\ cron' \in Nat
      /\ nightly' \in BOOLEAN /\ \A ip \in Present' : ip \in Present /\ due'[ip] = due[ip]
  BY <1>1, <1>2, Ticks, AlarmFacts
<1>4. QED
  BY <1>1, <1>2, <1>3, CallKeepsAlarm

(* The alarm rings: what it has taken is asked for again or is its to do. *)
LEMMA RingAlarm ==
  ASSUME AlarmInv, Ring
  PROVE  AlarmInv'
<1>1. /\ alarm' = NoAlarm /\ ringing' = AlarmPages /\ due' = due /\ Retention
      /\ UNCHANGED <<hour, nightly, cron, lost>>
  BY DEF Ring
<1>2. /\ [Next]_vars
      /\ queue' \in Seq(Request) /\ Longer
      /\ \A ip \in Present' : \E i \in DOMAIN queue' : queue'[i].at <= AtLeastOne(due'[ip])
  BY <1>1, RetentionMoves
<1>3. AggregatesInv'
  BY <1>2, InvariantStep DEF AlarmInv
<1>4. AlarmTypeOK' /\ QueueSound' /\ ringing' # 0
  <2>1. DOMAIN queue = {}
    BY DEF Ring, Gate
  <2>2. \A i \in DOMAIN queue' : ~queue'[i].read
    BY <1>2, <2>1 DEF Longer
  <2>3. QED
    BY <1>1, <1>2, <2>2, Ticks, AlarmFacts DEF AlarmTypeOK, QueueSound
<1>5. \A ip \in Present' : Met(AtLeastOne(due[ip]))'
  BY <1>2 DEF Met
<1>6. DeadlinesMet'
  BY <1>4, <1>5 DEF DeadlinesMet
<1>7. QED
  BY <1>3, <1>4, <1>6 DEF AlarmInv

LEMMA ReadAlarmStep ==
  ASSUME AlarmInv, ReadAlarm
  PROVE  AlarmInv'
<1>1. /\ queue # <<>> /\ ~queue[1].read
      /\ queue' = [queue EXCEPT ![1].read = TRUE, ![1].existing = alarm]
      /\ UNCHANGED <<vars, due, hour, alarm, ringing, nightly, cron, lost>>
  BY DEF ReadAlarm
<1>2. AggregatesInv' /\ Present' = Present /\ UNCHANGED <<building, pending>>
  BY <1>1, InvariantStep DEF AlarmInv, vars, Present
<1>3. /\ queue' \in Seq(Request)
      /\ DOMAIN queue' = DOMAIN queue
      /\ \A i \in DOMAIN queue : queue'[i].at = queue[i].at
      /\ \A i \in DOMAIN queue' : queue'[i].read => i = 1 /\ queue'[i].existing = alarm
  <2> DEFINE head == [queue[1] EXCEPT !.read = TRUE, !.existing = alarm]
  <2>1. queue \in Seq(Request) /\ 1 \in DOMAIN queue /\ queue[1] \in Request
    BY <1>1, AlarmFacts
  <2>2. queue' = [queue EXCEPT ![1] = head]
    BY <1>1
  <2>3. head \in Request /\ head.at = queue[1].at /\ head.existing = alarm
    BY <2>1, AlarmFacts DEF Request
  <2> HIDE DEF head
  <2>4. queue' \in Seq(Request) /\ DOMAIN queue' = DOMAIN queue
    BY <2>1, <2>2, <2>3
  <2>5. \A i \in DOMAIN queue : queue'[i] = IF i = 1 THEN head ELSE queue[i]
    BY <2>1, <2>2
  <2>6. QED
    BY <2>3, <2>4, <2>5, AlarmFacts
<1>4. AlarmTypeOK' /\ QueueSound'
  BY <1>1, <1>3, AlarmFacts DEF AlarmTypeOK, QueueSound
<1>5. DeadlinesMet'
  BY <1>1, <1>2, <1>3 DEF AlarmInv, DeadlinesMet, Met
<1>6. QED
  BY <1>2, <1>4, <1>5 DEF AlarmInv

(* Settling a request keeps the earlier of the two deadlines, unless the     *)
(* alarm was already due. *)
LEMMA SetAlarmStep ==
  ASSUME AlarmInv, SetAlarm
  PROVE  AlarmInv'
<1>1. /\ queue # <<>> /\ queue[1].read /\ queue' = Tail(queue)
      /\ alarm' = IF Kept(queue[1]) THEN alarm ELSE queue[1].at
      /\ lost' = (lost \/ queue[1].existing = 0)
      /\ UNCHANGED <<vars, due, hour, ringing, nightly, cron>>
  BY DEF SetAlarm
<1>2. AggregatesInv' /\ Present' = Present /\ UNCHANGED <<building, pending>>
  BY <1>1, InvariantStep DEF AlarmInv, vars, Present
<1>3. /\ Len(queue) \in Nat \ {0} /\ DOMAIN queue = 1..Len(queue)
      /\ queue[1].at \in Nat /\ queue[1].existing = alarm
      /\ queue' \in Seq(Request)
      /\ DOMAIN queue' = 1..(Len(queue) - 1)
      /\ \A i \in 1..(Len(queue) - 1) : queue'[i] = queue[i + 1] /\ i + 1 \in DOMAIN queue
  <2>1. queue \in Seq(Request) /\ queue[1].existing = alarm
    BY <1>1, AlarmFacts
  <2>2. /\ Len(queue) \in Nat \ {0} /\ DOMAIN queue = 1..Len(queue) /\ queue[1] \in Request
        /\ Tail(queue) \in Seq(Request) /\ DOMAIN Tail(queue) = 1..(Len(queue) - 1)
        /\ \A i \in 1..(Len(queue) - 1) :
             Tail(queue)[i] = queue[i + 1] /\ i + 1 \in DOMAIN queue
    BY <1>1, <2>1, TailFacts
  <2>3. queue[1].at \in Nat
    BY <2>2 DEF Request
  <2>4. QED
    BY <1>1, <2>1, <2>2, <2>3
<1>4. \A i \in DOMAIN queue' : ~queue'[i].read
  <2>1. SUFFICES ASSUME NEW i \in 1..(Len(queue) - 1) PROVE ~queue[i + 1].read
    BY <1>3
  <2>2. i + 1 \in DOMAIN queue /\ i + 1 # 1
    BY <1>3
  <2>3. QED
    BY <2>2, AlarmFacts
<1>5. alarm' \in Nat \cup {NoAlarm} /\ lost' \in BOOLEAN
  BY <1>1, <1>3, AlarmFacts
<1>6. AlarmTypeOK' /\ QueueSound'
  BY <1>1, <1>3, <1>4, <1>5, AlarmFacts DEF AlarmTypeOK, QueueSound
<1>7. ASSUME ~lost', NEW t \in Nat, Met(t)
      PROVE  (alarm' # NoAlarm /\ alarm' <= t) \/ \E i \in DOMAIN queue' : queue'[i].at <= t
  <2>1. alarm # 0 /\ ~lost
    BY <1>1, <1>3, <1>7
  <2>2. /\ alarm' # NoAlarm /\ alarm' <= queue[1].at
        /\ alarm # NoAlarm => alarm' <= alarm
    BY <1>1, <1>3, <2>1, Ticks, AlarmFacts DEF Kept
  <2>3. CASE alarm # NoAlarm /\ alarm <= t
    BY <1>5, <2>2, <2>3, AlarmFacts
  <2>4. ASSUME NEW i \in DOMAIN queue, queue[i].at <= t
        PROVE  (alarm' # NoAlarm /\ alarm' <= t) \/ \E j \in DOMAIN queue' : queue'[j].at <= t
    <3>1. CASE i = 1
      BY <1>3, <1>5, <2>2, <2>4, <3>1, Ticks
    <3>2. CASE i # 1
      <4>1. i - 1 \in 1..(Len(queue) - 1) /\ (i - 1) + 1 = i
        BY <1>3, <3>2
      <4>2. i - 1 \in DOMAIN queue' /\ queue'[i - 1] = queue[i]
        BY <1>3, <4>1
      <4>3. QED
        BY <2>4, <4>2
    <3>3. QED
      BY <3>1, <3>2
  <2>5. QED
    BY <1>7, <2>3, <2>4 DEF Met
<1>8. DeadlinesMet'
  <2>1. SUFFICES ASSUME ~lost'
                 PROVE  /\ \A ip \in Present' : Met(AtLeastOne(due[ip]))'
                        /\ building' # NoGeneration /\ ~pending' /\ ringing' = 0 =>
                             Met(DayLength)'
    BY DEF DeadlinesMet
  <2>2. /\ \A ip \in Present : Met(AtLeastOne(due[ip]))
        /\ building # NoGeneration /\ ~pending /\ ringing = 0 => Met(DayLength)
    BY <1>1, <2>1 DEF AlarmInv, DeadlinesMet
  <2>3. ASSUME NEW ip \in Present
        PROVE  Met(AtLeastOne(due[ip]))'
    <3> DEFINE t == AtLeastOne(due[ip])
    <3>1. t \in Nat /\ due' = due /\ Met(t)
      BY <1>1, <2>2, AlarmFacts DEF AtLeastOne, Max2, Present
    <3>2. (alarm' # NoAlarm /\ alarm' <= t) \/ \E i \in DOMAIN queue' : queue'[i].at <= t
      BY <1>7, <2>1, <3>1
    <3>3. QED
      BY <3>1, <3>2 DEF Met
  <2>4. DayLength \in Nat
    BY Ticks
  <2>5. Met(DayLength) => Met(DayLength)'
    BY <1>7, <2>1, <2>4 DEF Met
  <2>6. QED
    BY <1>1, <1>2, <2>2, <2>3, <2>5
<1>9. QED
  BY <1>2, <1>6, <1>8 DEF AlarmInv

(* Deadlines come nearer no faster than the alarm does. *)
LEMMA TickStep ==
  ASSUME AlarmInv, Tick
  PROVE  AlarmInv'
<1>1. /\ queue = <<>> /\ ringing = 0 /\ cron = 0
      /\ hour' = (hour + 1) % DayLength
      /\ nightly' = (nightly \/ hour' = 0)
      /\ used' = IF hour' = 0 THEN 0 ELSE used
      /\ due' = [ip \in Addr |-> Max2(due[ip] - 1, 0)]
      /\ overdue' = {ip \in Present : due'[ip] = 0}
      /\ alarm' = IF alarm = NoAlarm \/ alarm = 0 THEN alarm ELSE alarm - 1
      /\ UNCHANGED <<hosts, building, published, fresh, deferred, pending>>
      /\ UNCHANGED <<queue, ringing, cron, lost>>
  BY DEF Tick, Gate
<1>2. /\ overdue' \subseteq Present /\ used' \in 0..WriteLimit
      /\ deferred' \in BOOLEAN /\ pending' \in BOOLEAN
  BY <1>1, Constants DEF AlarmInv, AggregatesInv, TypeOK
<1>3. AggregatesInv' /\ Present' = Present
  BY <1>1, <1>2, ElsewhereInvariant DEF AlarmInv, Present
<1>4. \A ip \in Present : ip \in Addr /\ hosts[ip] # NoHost
  BY DEF Present
<1>5. due' \in [Addr -> Nat]
  <2>1. \A ip \in Addr : due[ip] \in Nat /\ Max2(due[ip] - 1, 0) \in Nat
    BY AlarmFacts DEF Max2
  <2>2. QED
    BY <1>1, <2>1
<1>6. /\ hour' \in 0..(DayLength - 1)
      /\ alarm' \in Nat \cup {NoAlarm} /\ nightly' \in BOOLEAN
  BY <1>1, Ticks, AlarmFacts
<1>7. AlarmTypeOK' /\ QueueSound'
  BY <1>1, <1>5, <1>6, AlarmFacts DEF AlarmTypeOK, QueueSound
<1>8. DeadlinesMet'
  <2>1. SUFFICES ASSUME ~lost
                 PROVE  /\ \A ip \in Present : Met(AtLeastOne(due[ip]))'
                        /\ building # NoGeneration /\ ~pending => Met(DayLength)'
    BY <1>1, <1>3 DEF DeadlinesMet
  <2>2. /\ \A ip \in Present : alarm # NoAlarm /\ alarm <= AtLeastOne(due[ip])
        /\ building # NoGeneration /\ ~pending => alarm # NoAlarm /\ alarm <= DayLength
    BY <1>1, <2>1 DEF AlarmInv, DeadlinesMet, Met
  <2>3. ASSUME NEW ip \in Present
        PROVE  alarm' # NoAlarm /\ alarm' <= AtLeastOne(due'[ip])
    <3>1. /\ due[ip] \in Nat /\ alarm \in Nat /\ alarm <= AtLeastOne(due[ip])
          /\ due'[ip] = Max2(due[ip] - 1, 0)
          /\ alarm' = IF alarm = 0 THEN alarm ELSE alarm - 1
      BY <1>1, <1>4, <2>2, <2>3, AlarmFacts
    <3>2. QED
      BY <3>1, Ticks DEF AtLeastOne, Max2
  <2>4. building # NoGeneration /\ ~pending => alarm' # NoAlarm /\ alarm' <= DayLength
    BY <1>1, <2>2, Ticks, AlarmFacts
  <2>5. QED
    BY <2>3, <2>4 DEF Met
<1>9. QED
  BY <1>3, <1>7, <1>8 DEF AlarmInv

LEMMA RestartStep ==
  ASSUME AlarmInv, Restart
  PROVE  AlarmInv'
<1>1. /\ lost' = TRUE /\ queue' = <<>> /\ ringing' = 0
      /\ UNCHANGED <<vars, due, hour, alarm, nightly, cron>>
  BY DEF Restart
<1>2. AggregatesInv'
  BY <1>1, InvariantStep DEF AlarmInv
<1>3. AlarmTypeOK' /\ QueueSound'
  BY <1>1, AlarmFacts DEF AlarmTypeOK, QueueSound
<1>4. DeadlinesMet'
  BY <1>1 DEF DeadlinesMet
<1>5. QED
  BY <1>2, <1>3, <1>4 DEF AlarmInv

LEMMA AlarmInitial == AlarmInit => AlarmInv
<1> SUFFICES ASSUME AlarmInit PROVE AlarmInv
  OBVIOUS
<1>1. AggregatesInv
  BY InitialInvariant DEF AlarmInit
<1>2. AlarmTypeOK /\ QueueSound
  <2>1. /\ queue = <<>> /\ due = [ip \in Addr |-> 0] /\ hour = 0 /\ alarm = NoAlarm
        /\ ringing = 0 /\ cron = 0 /\ nightly = TRUE /\ lost = FALSE
    BY DEF AlarmInit
  <2>2. <<>> \in Seq(Request) /\ DOMAIN <<>> = {}
    OBVIOUS
  <2>3. due \in [Addr -> Nat] /\ 0 \in 0..(DayLength - 1)
    BY <2>1, Ticks
  <2>4. QED
    BY <2>1, <2>2, <2>3 DEF AlarmTypeOK, QueueSound
<1>3. Present = {} /\ building = NoGeneration
  BY DEF AlarmInit, Init, Present
<1>4. QED
  BY <1>1, <1>2, <1>3 DEF AlarmInv, DeadlinesMet

LEMMA AlarmStep == AlarmInv /\ [AlarmNext]_allVars => AlarmInv'
<1> SUFFICES ASSUME AlarmInv, [AlarmNext]_allVars PROVE AlarmInv'
  OBVIOUS
<1>1. CASE UNCHANGED allVars
  <2>1. UNCHANGED vars /\ UNCHANGED own
    BY <1>1 DEF allVars
  <2>2. AggregatesInv' /\ Present' = Present /\ UNCHANGED <<building, pending>>
    BY <2>1, InvariantStep DEF AlarmInv, vars, Present
  <2>3. AlarmTypeOK' /\ QueueSound'
    BY <2>1, AlarmFacts DEF own, AlarmTypeOK, QueueSound
  <2>4. DeadlinesMet'
    BY <2>1, <2>2 DEF AlarmInv, DeadlinesMet, Met, own
  <2>5. QED
    BY <2>2, <2>3, <2>4 DEF AlarmInv
<1>2. CASE AlarmNext
  BY <1>2, UpsertAlarm, RetireAlarm, FileAlarm, CompleteAlarm, PageAlarm, CronAlarm,
     RingAlarm, ReadAlarmStep, SetAlarmStep, TickStep, RestartStep
  DEF AlarmNext, Scheduling
<1>3. QED
  BY <1>1, <1>2

-----------------------------------------------------------------------------
(* Whatever the alarm, the cron, the callers and a maintainer interleave, the *)
(* figures stay exact and every deadline is met by the alarm or by a request  *)
(* still queued (scheduleEarliestAlarm and what calls it). *)
THEOREM AlarmInvariant == AlarmSpec => []AlarmInv
BY AlarmInitial, AlarmStep, PTL DEF AlarmSpec

(* Once requests are settled, the alarm is no later than the first expiry,   *)
(* and than a day if a recount is unfinished, unless a request was lost or    *)
(* put off an alarm already due (scheduleEarliestAlarm, alarm). *)
THEOREM AlarmIsSet == AlarmSpec => []AlarmSet
<1>1. AlarmInv => AlarmSet
  BY DEF AlarmInv, DeadlinesMet, Met, Gate, AlarmSet
<1>2. QED
  BY <1>1, AlarmInvariant, PTL
=============================================================================
