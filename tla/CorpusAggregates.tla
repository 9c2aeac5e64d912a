--------------------------- MODULE CorpusAggregates ---------------------------
(***************************************************************************)
(* The published figures of the control plane.  A generation recounts the  *)
(* host table page by page, at most so many writes a day, while upserts,   *)
(* retirements, expiry and purges go on changing the table; every change    *)
(* of a row the recount has passed is applied to the generation as well.    *)
(* Each call is one synchronous handler of the Durable Object, so one       *)
(* action.                                                                 *)
(*                                                                         *)
(* corpus_epoch and the epoch stored with a generation are only compared    *)
(* for equality, and the former only grows: a generation under              *)
(* construction is "maintained" when its epoch is the corpus's, and the     *)
(* current one is "fresh" when its epoch is.                               *)
(***************************************************************************)
EXTENDS Integers, FiniteSets, FiniteSetsExt

CONSTANTS
  Addr,           \* addresses, numbered in their text order; 0: empty cursor
  Asn,            \* values of the ASN dimension, AS-UNKNOWN among them
  Stack,          \* stacks a host can answer with
  Input,          \* bound: the records callers upsert
  BatchLimit,     \* bound: records in one upsert, retirement or purge page
  PageLimit,      \* bound: the page sizes callers ask for
  WriteLimit,     \* MAX_MAINTENANCE_DAILY_WRITES
  PageOverhead,   \* writes a page costs beside its buckets: 18
  AbortOverhead,  \* writes an abort costs beside the staged buckets: 8
  NoHost, NoGeneration

VARIABLES
  hosts,      \* the row of each address, or NoHost
  overdue,    \* addresses whose expires_at has passed
  building,   \* the generation under construction, or NoGeneration
  published,  \* what current_aggregate_generation points to, or NoGeneration
  fresh,      \* is the current generation's epoch the corpus's?
  used,       \* maintenance_budget: writes used today
  deferred,   \* maintenance_deferred
  pending     \* is a purge job incomplete?

vars ==
  <<hosts, overdue, building, published, fresh, used, deferred, pending>>

-----------------------------------------------------------------------------
Max2(m, n) == IF m < n THEN n ELSE m

(* last_seen (0: never answered) and the dimensions counted.  The country   *)
(* dimensions are counted like the ASN and are left out.                   *)
HostRecord == [seen : Nat, asn : Asn, stacks : SUBSET Stack]

Bucket ==
  {<<"corpus", "reverified_hosts">>} \cup ({"asn"} \X Asn) \cup
    ({"stack"} \X Stack)

(* aggregateBuckets: passive rows, which never answered, are not counted. *)
BucketsOf(record) ==
  IF record = NoHost \/ record.seen = 0 THEN {}
  ELSE {<<"corpus", "reverified_hosts">>, <<"asn", record.asn>>} \cup
         ({"stack"} \X record.stacks)

(* How many rows among ips fall into a bucket. *)
Tally(rows, ips, b) == Cardinality({ip \in ips : b \in BucketsOf(rows[ip])})

UpTo(cursor) == {ip \in Addr : ip <= cursor}

Present == {ip \in Addr : hosts[ip] # NoHost}

LatestSeen(rows) == Max({rows[ip].seen : ip \in {i \in Addr : rows[i] # NoHost}} \cup {0})

NoCounts == [b \in Bucket |-> 0]

Generation ==
  [cursor : Addr \cup {0}, counts : [Bucket -> Nat], maintained : BOOLEAN]

ASSUME AggregatesAssumption ==
  /\ Addr \subseteq Nat \ {0} /\ IsFiniteSet(Addr)
  /\ IsFiniteSet(Asn) /\ IsFiniteSet(Stack)
  /\ Input \subseteq HostRecord
  /\ PageLimit \subseteq Nat \ {0}
  /\ WriteLimit \in Nat /\ PageOverhead \in Nat /\ AbortOverhead \in Nat
  /\ NoHost \notin HostRecord
  /\ NoGeneration \notin Generation

NewGeneration == [cursor |-> 0, counts |-> NoCounts, maintained |-> TRUE]

(* A deployment may start on a generation an earlier release left behind,   *)
(* which moved the epoch on without maintaining it, and at any hour. *)
Init ==
  /\ hosts = [ip \in Addr |-> NoHost]
  /\ overdue = {}
  /\ building \in {NoGeneration} \cup
       {[NewGeneration EXCEPT !.maintained = FALSE,
                              !.counts = [b \in Bucket |-> n]] : n \in 0..1}
  /\ published = NoGeneration
  /\ fresh = FALSE
  /\ used \in 0..WriteLimit
  /\ deferred = FALSE
  /\ pending = FALSE

-----------------------------------------------------------------------------
(* Writes to the corpus.                                                   *)

(* Mutant: a row the recount has yet to reach is adjusted too. *)
AdjustedAll(g, after) ==
  [b \in Bucket |-> g.counts[b] - Tally(hosts, Addr, b) + Tally(after, Addr, b)]

(* adjustBuildingAggregates: rows up to the cursor, before and after. *)
Adjusted(g, after) ==
  LET passed == {ip \in UpTo(g.cursor) : hosts[ip] # after[ip]}
  IN  [b \in Bucket |->
         g.counts[b] - Tally(hosts, passed, b) + Tally(after, passed, b)]

(* Mutant: the generation's epoch is left behind. *)
BumpUnmaintained(after) ==
  /\ hosts' = after
  /\ fresh' = FALSE
  /\ building' = IF building = NoGeneration THEN building
                 ELSE [building EXCEPT !.maintained = FALSE]

(* Mutant: the epoch does not move. *)
WriteSilently(after) ==
  /\ hosts' = after
  /\ building' = building
  /\ fresh' = fresh

(* One transaction: the rows, the maintained generation and the epoch.  A   *)
(* bucket that would fall below 0 throws and rolls everything back. *)
WriteCorpus(after) ==
  /\ hosts' = after
  /\ fresh' = FALSE
  /\ IF building # NoGeneration /\ building.maintained
     THEN LET counts == Adjusted(building, after)
          IN  /\ \A b \in Bucket : counts[b] >= 0
              /\ building' = [building EXCEPT !.counts = counts]
     ELSE building' = building

Merged(prior, input) ==
  IF prior = NoHost THEN input
  ELSE [seen |-> Max2(prior.seen, input.seen), asn |-> input.asn,
        stacks |-> prior.stacks \cup input.stacks]

(* The records of one call that pass validation and the exclusion check.    *)
(* Dates are the caller's: a new row, or one that answered later than        *)
(* before, may be due at any time, at once included, and a row that never    *)
(* answered takes the earlier of two sightings.  A row may also change in    *)
(* fields left out here, so writing the same row again moves the epoch too. *)
UpsertHosts(ips, batch) ==
  LET after == [ip \in Addr |-> IF ip \in ips THEN Merged(hosts[ip], batch[ip])
                                ELSE hosts[ip]]
      renewed == {ip \in ips : hosts[ip] = NoHost \/ after[ip].seen > hosts[ip].seen}
      redated == renewed \cup {ip \in ips : after[ip].seen = 0}
  IN  /\ WriteCorpus(after)
      /\ \E late \in SUBSET redated : overdue' = (overdue \ renewed) \cup late
      /\ UNCHANGED <<published, used, deferred, pending>>

Without(ips) == [ip \in Addr |-> IF ip \in ips THEN NoHost ELSE hosts[ip]]

(* The addresses of one call that are there and have retirement evidence. *)
RetireHosts(ips) ==
  /\ WriteCorpus(Without(ips))
  /\ overdue' = overdue \ ips
  /\ UNCHANGED <<published, used, deferred, pending>>

(* Time passes 180 days after a host last answered. *)
Expire(ip) ==
  /\ ip \notin overdue
  /\ overdue' = overdue \cup {ip}
  /\ UNCHANGED <<hosts, building, published, fresh, used, deferred, pending>>

(* runRetention: the n rows overdue longest, all of them if there are fewer. *)
RunRetention(n) ==
  /\ overdue # {}
  /\ \E ips \in SUBSET overdue :
       /\ Cardinality(ips) <= n
       /\ Cardinality(ips) < n => ips = overdue
       /\ WriteCorpus(Without(ips))
       /\ overdue' = overdue \ ips
  /\ UNCHANGED <<published, used, deferred, pending>>

-----------------------------------------------------------------------------
(* Purges, as ExclusionPurge describes them, by what they do to the corpus. *)

FileExclusion ==
  /\ ~pending
  /\ pending' = TRUE
  /\ UNCHANGED <<hosts, overdue, building, published, fresh, used, deferred>>

PurgePage(ips) ==
  /\ pending
  /\ WriteCorpus(Without(ips))
  /\ overdue' = overdue \ ips
  /\ UNCHANGED <<published, used, deferred, pending>>

CompletePurges ==
  /\ pending
  /\ pending' = FALSE
  /\ UNCHANGED <<hosts, overdue, building, published, fresh, used, deferred>>

-----------------------------------------------------------------------------
(* runReconciliation.  It answers purge_pending while a job is incomplete,  *)
(* deletes overdue rows first (RunRetention, and nothing else in that call), *)
(* and answers "reused" while the current generation is fresh. *)

Stale == building # NoGeneration /\ ~building.maintained

AbortCost ==
  IF Stale THEN Cardinality({b \in Bucket : building.counts[b] > 0}) + AbortOverhead
  ELSE 0

(* The generation the call works on, once a stale one is aborted. *)
Base == IF building = NoGeneration \/ Stale THEN NewGeneration ELSE building

(* Mutant: an overdue row may be published. *)
RecountableOverdue == ~pending /\ ~fresh

Recountable == ~pending /\ overdue = {} /\ ~fresh

(* ORDER BY ip LIMIT n past the cursor. *)
PageAfter(page, cursor, n) ==
  LET rest == {ip \in Present : ip > cursor}
  IN  /\ page \subseteq rest
      /\ Cardinality(page) <= n
      /\ Cardinality(page) < n => page = rest
      /\ \A ip \in page, k \in rest : k <= ip => k \in page

CursorAfter(page, cursor, c) ==
  IF page = {} THEN c = cursor
  ELSE c \in page /\ \A k \in page : k <= c

PageCost(page) ==
  Cardinality(UNION {BucketsOf(hosts[ip]) : ip \in page}) + PageOverhead

(* Mutant: the page's counts replace the ones staged so far. *)
RecountReplaced(g, page) == [b \in Bucket |-> Tally(hosts, page, b)]

Recount(g, page) == [b \in Bucket |-> g.counts[b] + Tally(hosts, page, b)]

DeferMaintenance ==
  /\ deferred' = TRUE
  /\ UNCHANGED <<hosts, overdue, published, fresh, pending>>

(* Not even the abort fits into today's budget. *)
DeferAbort ==
  /\ Recountable
  /\ used + AbortCost > WriteLimit
  /\ DeferMaintenance
  /\ UNCHANGED <<building, used>>

(* The page does not fit; an abort done on the way to it stays done. *)
DeferPage(n) ==
  /\ Recountable
  /\ used + AbortCost <= WriteLimit
  /\ \E page \in SUBSET Addr :
       /\ PageAfter(page, Base.cursor, n)
       /\ used + AbortCost + PageCost(page) > WriteLimit
  /\ building' = Base
  /\ used' = used + AbortCost
  /\ DeferMaintenance

(* Counts and cursor in one transaction, and, after the last page, the       *)
(* switch of the current generation. *)
CommitPage(n) ==
  /\ Recountable
  /\ \E page \in SUBSET Addr, c \in Addr \cup {0} :
       LET counts == Recount(Base, page)
           cost == AbortCost + PageCost(page)
       IN  /\ PageAfter(page, Base.cursor, n)
           /\ CursorAfter(page, Base.cursor, c)
           /\ used + cost <= WriteLimit
           /\ used' = used + cost
           /\ \/ /\ Cardinality(page) = n
                 /\ building' = [cursor |-> c, counts |-> counts, maintained |-> TRUE]
                 /\ UNCHANGED <<published, fresh, deferred>>
              \/ /\ Cardinality(page) < n
                 /\ building' = NoGeneration
                 /\ published' = [counts |-> counts, lastSeen |-> LatestSeen(hosts)]
                 /\ fresh' = TRUE
                 /\ deferred' = FALSE
  /\ UNCHANGED <<hosts, overdue, pending>>

(* maintenance_budget is kept per UTC day. *)
NextDay ==
  /\ used # 0
  /\ used' = 0
  /\ UNCHANGED <<hosts, overdue, building, published, fresh, deferred, pending>>

-----------------------------------------------------------------------------
Batches == {ips \in SUBSET Addr : ips # {} /\ Cardinality(ips) <= BatchLimit}

Next ==
  \/ \E ips \in Batches : \E batch \in [ips -> Input] : UpsertHosts(ips, batch)
  \/ \E ips \in Batches : ips \subseteq Present /\ (RetireHosts(ips) \/ PurgePage(ips))
  \/ \E ip \in Present : Expire(ip)
  \/ \E n \in PageLimit : RunRetention(n) \/ DeferPage(n) \/ CommitPage(n)
  \/ FileExclusion \/ CompletePurges
  \/ DeferAbort
  \/ NextDay

Spec == Init /\ [][Next]_vars

-----------------------------------------------------------------------------
(* Properties.                                                             *)

(* State variables have their types. *)
TypeOK ==
  /\ hosts \in [Addr -> HostRecord \cup {NoHost}]
  /\ overdue \subseteq Present
  /\ building \in Generation \cup {NoGeneration}
  /\ published # NoGeneration => published.counts \in [Bucket -> Nat]
  /\ fresh \in BOOLEAN /\ deferred \in BOOLEAN /\ pending \in BOOLEAN
  /\ used \in 0..WriteLimit

(* Inductive: a maintained generation counts exactly the rows up to its     *)
(* cursor as they are now, whatever was written since they were read. *)
BuildingExact ==
  building # NoGeneration /\ building.maintained =>
    \A b \in Bucket : building.counts[b] = Tally(hosts, UpTo(building.cursor), b)

(* While the current generation is the corpus's, so that reconciliation     *)
(* answers "reused", the published figures are those of the corpus. *)
PublishedExact ==
  fresh =>
    /\ building = NoGeneration
    /\ published.lastSeen = LatestSeen(hosts)
    /\ \A b \in Bucket : published.counts[b] = Tally(hosts, Addr, b)

AggregatesInv == TypeOK /\ BuildingExact /\ PublishedExact

(* No set of rows can be deleted that makes a staged bucket negative: the   *)
(* exception that would roll back a retirement or a purge is never thrown. *)
NoUnderflow ==
  building # NoGeneration /\ building.maintained =>
    \A ips \in SUBSET Present : \A b \in Bucket :
      Adjusted(building, Without(ips))[b] >= 0

(* Figures are published for a corpus with no overdue and no partially      *)
(* purged host in it, and count exactly that corpus. *)
PublicationClean ==
  [][published' # published =>
       /\ overdue = {} /\ ~pending
       /\ \A b \in Bucket : published'.counts[b] = Tally(hosts', Addr, b)]_vars
=============================================================================
