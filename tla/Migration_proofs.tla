--------------------------- MODULE Migration_proofs ---------------------------
(***************************************************************************)
(* Proofs about ExclusionPurge and, over it, Migration.  For every set of   *)
(* addresses, rules and page sizes: the purge's inductive invariant, and    *)
(* that a receipt is sound.  For any number of overlapping calls, any       *)
(* content of KV and any bound: pages of rows keep the invariant of the     *)
(* purge, and what is owed is carried over.                                 *)
(***************************************************************************)
EXTENDS Migration, FiniteSetTheorems, TLAPS

USE RuleAssumption, PurgeAssumption, MigrationAssumption


-----------------------------------------------------------------------------
(* 0 comes before every address. *)
LEMMA PositiveAddress == \A ip \in Addr : ip \in Nat /\ ip > 0
<1> SUFFICES ASSUME NEW ip \in Addr PROVE ip \in Nat /\ ip > 0
  OBVIOUS
<1>1. ip \in Nat \ {0}
  OBVIOUS
<1>2. QED
  BY <1>1

(* No row written past the check matches an active rule. *)
LEMMA CheckedRow ==
  ASSUME NEW r \in Rule, NEW ip \in Addr, NEW asn \in AnyAsn,
         r \in exclusions, ~IsExcluded(exclusions, ip, asn)
  PROVE  ~RuleMatches(r, ip, asn)
BY DEF IsExcluded

(* An upsert that passes the check leaves a row that matches an active ASN  *)
(* rule only where the row before it matched. *)
LEMMA MergedRow ==
  ASSUME NEW r \in Rule, NEW ip \in Addr, NEW asn \in AnyAsn, NEW h \in Host,
         h.ip = ip, h.recordAsn \in {h.asn, UnknownAsn},
         ~RuleMatches(r, ip, asn), RuleMatches(r, ip, Merged(h, ip, asn).asn)
  PROVE  RuleMatches(r, h.ip, h.asn)
BY DEF RuleMatches, Merged, Host

LEMMA MergedType ==
  ASSUME NEW ip \in Addr, NEW asn \in AnyAsn, NEW h \in Host
  PROVE  /\ Merged(h, ip, asn) \in Host
         /\ Merged(h, ip, asn).ip = ip
         /\ Merged(h, ip, asn).recordAsn \in {Merged(h, ip, asn).asn, UnknownAsn}
BY DEF Merged, Host

-----------------------------------------------------------------------------
(* The steps that leave the jobs alone. *)

LEMMA UpsertInvariant ==
  ASSUME PurgeInv, NEW ip \in Addr, NEW asn \in AnyAsn, UpsertHost(ip, asn)
  PROVE  PurgeInv'
<1> DEFINE prior == {h \in hosts : h.ip = ip}
           fresh == [ip |-> ip, asn |-> asn, recordAsn |-> asn]
<1>1. /\ ~IsExcluded(exclusions, ip, asn)
      /\ attempts' = attempts /\ exclusions' = exclusions /\ jobs' = jobs
      /\ \A h \in hosts' :
           \/ h \in hosts
           \/ h = fresh
           \/ \E k \in hosts : k.ip = ip /\ h = Merged(k, ip, asn)
  BY DEF UpsertHost
<1>2. hosts \subseteq Host
  BY DEF PurgeInv, TypeOK
<1>3. TypeOK'
  <2>1. fresh \in Host
    BY DEF Host
  <2>2. hosts' \subseteq Host
    BY <1>1, <1>2, <2>1, MergedType
  <2>3. QED
    BY <1>1, <2>2 DEF PurgeInv, TypeOK
<1>4. JobsActive' /\ AttemptsSwept'
  BY <1>1 DEF PurgeInv, JobsActive, AttemptsSwept, Hits, KeyOf
<1>5. RecordsAgree'
  BY <1>1, <1>2, MergedType DEF PurgeInv, RecordsAgree
<1>6. HostsSwept'
  <2>1. SUFFICES ASSUME NEW j \in jobs, NEW h \in hosts',
                        RuleMatches(j.rule, h.ip, h.asn)
                 PROVE  j.status = "hosts" /\ h.ip > j.hostCursor
    BY <1>1 DEF HostsSwept, Hits
  <2>2. /\ j.rule \in Rule /\ j.rule \in exclusions
        /\ ~RuleMatches(j.rule, ip, asn)
    BY <1>1, CheckedRow DEF PurgeInv, JobsActive, TypeOK, Job
  <2>3. CASE h \in hosts
    BY <2>1, <2>3 DEF PurgeInv, HostsSwept, Hits
  <2>4. CASE h = fresh
    BY <2>1, <2>2, <2>4
  <2>5. ASSUME NEW k \in hosts, k.ip = ip, h = Merged(k, ip, asn)
        PROVE  j.status = "hosts" /\ h.ip > j.hostCursor
    <3>1. k \in Host /\ k.recordAsn \in {k.asn, UnknownAsn} /\ h.ip = ip
      BY <1>2, <2>5, MergedType DEF PurgeInv, RecordsAgree
    <3>2. RuleMatches(j.rule, k.ip, k.asn)
      BY <2>1, <2>2, <2>5, <3>1, MergedRow
    <3>3. QED
      BY <2>5, <3>1, <3>2 DEF PurgeInv, HostsSwept, Hits
  <2>6. QED
    BY <1>1, <2>3, <2>4, <2>5
<1>7. QED
  BY <1>3, <1>4, <1>5, <1>6 DEF PurgeInv

LEMMA RecordInvariant ==
  ASSUME PurgeInv, NEW ip \in Addr, NEW purpose \in AttemptPurpose,
         NEW asn \in AnyAsn, RecordAttempt(ip, purpose, asn)
  PROVE  PurgeInv'
<1> DEFINE fresh == [ip |-> ip, purpose |-> purpose, asn |-> asn]
<1>1. /\ ~IsExcluded(exclusions, ip, asn)
      /\ hosts' = hosts /\ exclusions' = exclusions /\ jobs' = jobs
      /\ attempts' \subseteq attempts \cup {fresh}
  BY DEF RecordAttempt
<1>2. fresh \in Attempt
  BY DEF Attempt
<1>3. TypeOK'
  BY <1>1, <1>2 DEF PurgeInv, TypeOK
<1>4. JobsActive' /\ RecordsAgree' /\ HostsSwept'
  BY <1>1 DEF PurgeInv, JobsActive, RecordsAgree, HostsSwept, Hits
<1>5. AttemptsSwept'
  <2>1. SUFFICES ASSUME NEW j \in jobs, NEW a \in attempts',
                        RuleMatches(j.rule, a.ip, a.asn)
                 PROVE  \/ j.status = "hosts"
                        \/ j.status = "attempts"
                             /\ KeyLess(j.attemptCursor, KeyOf(a))
    BY <1>1 DEF AttemptsSwept, Hits
  <2>2. ~RuleMatches(j.rule, ip, asn)
    BY <1>1, CheckedRow DEF PurgeInv, JobsActive, TypeOK, Job
  <2>3. a # fresh
    BY <2>1, <2>2
  <2>4. QED
    BY <1>1, <2>1, <2>3 DEF PurgeInv, AttemptsSwept, Hits
<1>6. QED
  BY <1>3, <1>4, <1>5 DEF PurgeInv

LEMMA RemoveInvariant ==
  ASSUME PurgeInv, hosts' \subseteq hosts, attempts' \subseteq attempts,
         exclusions' = exclusions, jobs' = jobs
  PROVE  PurgeInv'
BY DEF PurgeInv, TypeOK, JobsActive, RecordsAgree, HostsSwept, AttemptsSwept,
       Hits, KeyOf

LEMMA AddInvariant ==
  ASSUME PurgeInv, NEW r \in Rule, AddExclusion(r)
  PROVE  PurgeInv'
<1> DEFINE fresh == [rule |-> r, status |-> "hosts", hostCursor |-> 0,
                     attemptCursor |-> StartKey]
<1>1. /\ hosts' = hosts /\ attempts' = attempts
      /\ exclusions' = exclusions \cup {r}
      /\ jobs' \subseteq jobs \cup {fresh}
  BY DEF AddExclusion
<1>2. fresh \in Job
  BY DEF Job, Status
<1>3. TypeOK'
  BY <1>1, <1>2 DEF PurgeInv, TypeOK
<1>4. JobsActive' /\ RecordsAgree'
  BY <1>1 DEF PurgeInv, JobsActive, RecordsAgree
<1>5. HostsSwept'
  <2>1. \A h \in hosts : h.ip \in Nat /\ h.ip > 0
    BY PositiveAddress DEF PurgeInv, TypeOK, Host
  <2>2. QED
    BY <1>1, <2>1 DEF PurgeInv, HostsSwept, Hits
<1>6. AttemptsSwept'
  <2>1. SUFFICES ASSUME NEW k \in jobs', NEW a \in Hits(k.rule, attempts')
                 PROVE  \/ k.status = "hosts"
                        \/ /\ k.status = "attempts"
                           /\ KeyLess(k.attemptCursor, KeyOf(a))
    BY DEF AttemptsSwept, KeyLess, KeyOf
  <2>2. CASE k \in jobs
    BY <1>1, <2>1, <2>2 DEF PurgeInv, AttemptsSwept, Hits
  <2>3. CASE k = fresh
    BY <2>3
  <2>4. QED
    BY <1>1, <2>1, <2>2, <2>3
<1>7. QED
  BY <1>3, <1>4, <1>5, <1>6 DEF PurgeInv

-----------------------------------------------------------------------------
(* The steps of a job. *)

(* What a checkpoint has to establish: the other jobs keep their promise    *)
(* because rows only go, so the moved job's own is enough. *)
LEMMA CheckpointInvariant ==
  ASSUME PurgeInv, NEW j \in jobs, NEW s \in Status, NEW hc \in Addr \cup {0},
         NEW ac \in AttemptKey \cup {StartKey}, Checkpoint(j, s, hc, ac),
         hosts' \subseteq hosts, attempts' \subseteq attempts,
         exclusions' = exclusions,
         \A h \in Hits(j.rule, hosts') : s = "hosts" /\ h.ip > hc,
         \A a \in Hits(j.rule, attempts') :
           s = "hosts" \/ (s = "attempts" /\ KeyLess(ac, KeyOf(a)))
  PROVE  PurgeInv'
<1> DEFINE moved == [rule |-> j.rule, status |-> s, hostCursor |-> hc,
                     attemptCursor |-> ac]
<1>1. jobs' = (jobs \ {j}) \cup {moved}
  BY DEF Checkpoint
<1>2. j \in Job
  BY DEF PurgeInv, TypeOK
<1>3. moved \in Job
  BY <1>2 DEF Job
<1>4. TypeOK'
  BY <1>1, <1>3 DEF PurgeInv, TypeOK
<1>5. JobsActive' /\ RecordsAgree'
  BY <1>1 DEF PurgeInv, JobsActive, RecordsAgree
<1>6. HostsSwept'
  BY <1>1 DEF PurgeInv, HostsSwept, Hits
<1>7. AttemptsSwept'
  <2>1. SUFFICES ASSUME NEW k \in jobs', NEW a \in Hits(k.rule, attempts')
                 PROVE  \/ k.status = "hosts"
                        \/ /\ k.status = "attempts"
                           /\ KeyLess(k.attemptCursor, KeyOf(a))
    BY DEF AttemptsSwept, KeyLess, KeyOf
  <2>2. CASE k \in jobs
    BY <2>1, <2>2 DEF PurgeInv, AttemptsSwept, Hits
  <2>3. CASE k = moved
    BY <2>1, <2>3
  <2>4. QED
    BY <1>1, <2>1, <2>2, <2>3
<1>8. QED
  BY <1>4, <1>5, <1>6, <1>7 DEF PurgeInv

(* What a job in hand is. *)
LEMMA JobFacts ==
  ASSUME PurgeInv, NEW j \in jobs
  PROVE  /\ j.rule \in Rule /\ j.status \in Status
         /\ j.hostCursor \in Addr \cup {0}
         /\ j.attemptCursor \in AttemptKey \cup {StartKey}
BY DEF PurgeInv, TypeOK, Job

(* The rows a page leaves behind it: all that were not read come after the  *)
(* new checkpoint, and a page that is not full leaves none. *)
LEMMA HostPageSwept ==
  ASSUME hosts \subseteq Host, NEW cursor \in Addr \cup {0},
         NEW page \in SUBSET hosts, NEW c \in Addr \cup {0}, NEW n \in PageLimit,
         HostPage(page, cursor, n), HostCursorAfter(page, cursor, c),
         NEW h \in hosts, h \notin page, h.ip > cursor
  PROVE  h.ip > c /\ ~(Cardinality(page) < n)
<1>1. ~(Cardinality(page) < n)
  BY DEF HostPage
<1>2. CASE page = {}
  BY <1>1, <1>2 DEF HostCursorAfter
<1>3. CASE page # {}
  <2>1. PICK k \in page : c = k.ip
    BY <1>3 DEF HostCursorAfter, Ips
  <2>2. k.ip \in Nat /\ h.ip \in Nat
    BY DEF Host
  <2>3. ~(h.ip <= k.ip)
    BY DEF HostPage
  <2>4. QED
    BY <1>1, <2>1, <2>2, <2>3
<1>4. QED
  BY <1>2, <1>3

LEMMA AttemptPageSwept ==
  ASSUME NEW cursor, NEW page \in SUBSET attempts, NEW c, NEW n \in PageLimit,
         AttemptPage(page, cursor, n), AttemptCursorAfter(page, cursor, c),
         NEW a \in attempts, a \notin page, KeyLess(cursor, KeyOf(a))
  PROVE  KeyLess(c, KeyOf(a)) /\ ~(Cardinality(page) < n)
<1>1. ~(Cardinality(page) < n)
  BY DEF AttemptPage
<1>2. CASE page = {}
  BY <1>1, <1>2 DEF AttemptCursorAfter
<1>3. CASE page # {}
  <2>1. PICK k \in page : c = KeyOf(k)
    BY <1>3 DEF AttemptCursorAfter, Keys
  <2>2. KeyLess(KeyOf(k), KeyOf(a))
    BY DEF AttemptPage
  <2>3. QED
    BY <1>1, <2>1, <2>2
<1>4. QED
  BY <1>2, <1>3

LEMMA PurgeHostsInvariant ==
  ASSUME PurgeInv, NEW j \in jobs, NEW n \in PageLimit, PurgeHosts(j, n)
  PROVE  PurgeInv'
<1>1. /\ j.status \in {"hosts", "verify_hosts"}
      /\ attempts' = attempts /\ exclusions' = exclusions
  BY DEF PurgeHosts
<1>2. PICK page \in SUBSET hosts, c \in Addr \cup {0} :
        /\ HostPage(page, j.hostCursor, n)
        /\ HostCursorAfter(page, j.hostCursor, c)
        /\ hosts' = hosts \ Hits(j.rule, page)
        /\ \/ /\ ~(Cardinality(page) < n)
              /\ Checkpoint(j, j.status, c, j.attemptCursor)
           \/ /\ Cardinality(page) < n /\ j.status = "hosts"
              /\ Checkpoint(j, "attempts", c, StartKey)
           \/ /\ Cardinality(page) < n /\ j.status = "verify_hosts"
              /\ Checkpoint(j, "verify_attempts", c, j.attemptCursor)
  BY DEF PurgeHosts
<1>3. /\ hosts \subseteq Host /\ attempts \subseteq Attempt
      /\ hosts' \subseteq hosts /\ attempts' \subseteq attempts
  BY <1>1, <1>2 DEF PurgeInv, TypeOK
<1>4. \A h \in Hits(j.rule, hosts') :
        h \in hosts /\ h \notin page /\ j.status = "hosts" /\ h.ip > j.hostCursor
  BY <1>2, <1>3 DEF PurgeInv, HostsSwept, Hits
<1>5. \A h \in Hits(j.rule, hosts') : h.ip > c /\ ~(Cardinality(page) < n)
  BY <1>2, <1>3, <1>4, JobFacts, HostPageSwept
<1>6. \A a \in Hits(j.rule, attempts') :
        \/ j.status = "hosts"
        \/ j.status = "attempts" /\ KeyLess(j.attemptCursor, KeyOf(a))
  BY <1>1 DEF PurgeInv, AttemptsSwept, Hits
<1>7. CASE Checkpoint(j, j.status, c, j.attemptCursor)
  BY <1>1, <1>3, <1>4, <1>5, <1>6, <1>7, JobFacts, CheckpointInvariant
<1>8. CASE /\ Cardinality(page) < n /\ j.status = "hosts"
           /\ Checkpoint(j, "attempts", c, StartKey)
  <2>1. \A a \in Hits(j.rule, attempts') : KeyLess(StartKey, KeyOf(a))
    <3>1. \A a \in attempts : a.ip \in Nat /\ a.ip > 0
      BY <1>3, PositiveAddress DEF Attempt
    <3>2. QED
      BY <1>1, <3>1 DEF Hits, KeyLess, StartKey, KeyOf
  <2>2. Hits(j.rule, hosts') = {}
    BY <1>5, <1>8
  <2>3. "attempts" \in Status /\ StartKey \in AttemptKey \cup {StartKey}
    BY DEF Status
  <2>4. QED
    BY <1>1, <1>3, <1>8, <2>1, <2>2, <2>3, CheckpointInvariant
<1>9. CASE /\ Cardinality(page) < n /\ j.status = "verify_hosts"
           /\ Checkpoint(j, "verify_attempts", c, j.attemptCursor)
  <2>1. Hits(j.rule, attempts') = {} /\ Hits(j.rule, hosts') = {}
    BY <1>5, <1>6, <1>9
  <2>2. "verify_attempts" \in Status
    BY DEF Status
  <2>3. QED
    BY <1>1, <1>3, <1>9, <2>1, <2>2, JobFacts, CheckpointInvariant
<1>10. QED
  BY <1>2, <1>7, <1>8, <1>9

LEMMA PurgeAttemptsInvariant ==
  ASSUME PurgeInv, NEW j \in jobs, NEW n \in PageLimit, PurgeAttempts(j, n)
  PROVE  PurgeInv'
<1>1. /\ j.status \in {"attempts", "verify_attempts"}
      /\ hosts' = hosts /\ exclusions' = exclusions
  BY DEF PurgeAttempts
<1>2. PICK page \in SUBSET attempts, c \in AttemptKey \cup {StartKey} :
        /\ AttemptPage(page, j.attemptCursor, n)
        /\ AttemptCursorAfter(page, j.attemptCursor, c)
        /\ attempts' = attempts \ Hits(j.rule, page)
        /\ \/ ~(Cardinality(page) < n) /\ Checkpoint(j, j.status, j.hostCursor, c)
           \/ /\ Cardinality(page) < n
              /\ Checkpoint(j, "verify_hosts", 0, c)
           \/ /\ Cardinality(page) < n
              /\ Checkpoint(j, "complete", j.hostCursor, c)
  BY DEF PurgeAttempts
<1>3. /\ hosts' \subseteq hosts /\ attempts' \subseteq attempts
  BY <1>1, <1>2 DEF PurgeInv, TypeOK
<1>4. Hits(j.rule, hosts') = {}
  BY <1>1 DEF PurgeInv, HostsSwept
<1>5. \A a \in Hits(j.rule, attempts') :
        /\ a \in attempts /\ a \notin page /\ j.status = "attempts"
        /\ KeyLess(j.attemptCursor, KeyOf(a))
  BY <1>1, <1>2 DEF PurgeInv, AttemptsSwept, Hits
<1>6. \A a \in Hits(j.rule, attempts') :
        /\ j.status = "attempts" /\ KeyLess(c, KeyOf(a))
        /\ ~(Cardinality(page) < n)
  BY <1>2, <1>5, AttemptPageSwept
<1>7. {"verify_hosts", "complete"} \subseteq Status /\ 0 \in Addr \cup {0}
  BY DEF Status
<1>8. CASE Checkpoint(j, j.status, j.hostCursor, c)
  BY <1>1, <1>3, <1>4, <1>6, <1>8, JobFacts, CheckpointInvariant
<1>9. CASE Cardinality(page) < n /\ Checkpoint(j, "verify_hosts", 0, c)
  BY <1>1, <1>3, <1>4, <1>6, <1>7, <1>9, CheckpointInvariant
<1>10. CASE Cardinality(page) < n /\ Checkpoint(j, "complete", j.hostCursor, c)
  BY <1>1, <1>3, <1>4, <1>6, <1>7, <1>10, JobFacts, CheckpointInvariant
<1>11. QED
  BY <1>2, <1>8, <1>9, <1>10

(* The verification passes never find a row: the invariant leaves none. *)
LEMMA ResumeInvariant ==
  ASSUME PurgeInv, NEW j \in jobs, NEW n \in PageLimit, ResumePurge(j, n)
  PROVE  PurgeInv'
<1>1. ~RestartHosts(j, n)
  BY DEF RestartHosts, PurgeInv, HostsSwept, Hits
<1>2. ~RestartAttempts(j, n)
  BY DEF RestartAttempts, PurgeInv, AttemptsSwept, Hits
<1>3. QED
  BY <1>1, <1>2, PurgeHostsInvariant, PurgeAttemptsInvariant DEF ResumePurge

-----------------------------------------------------------------------------
LEMMA InitialInvariant == Init => PurgeInv
BY DEF Init, PurgeInv, TypeOK, JobsActive, RecordsAgree, HostsSwept,
       AttemptsSwept, Hits

LEMMA InvariantStep == PurgeInv /\ [Next]_vars => PurgeInv'
<1> SUFFICES ASSUME PurgeInv, [Next]_vars PROVE PurgeInv'
  OBVIOUS
<1>1. ASSUME NEW ip \in Addr, NEW asn \in AnyAsn, UpsertHost(ip, asn)
      PROVE  PurgeInv'
  BY <1>1, UpsertInvariant
<1>2. ASSUME NEW h \in hosts, RemoveHost(h)
      PROVE  PurgeInv'
  BY <1>2, RemoveInvariant DEF RemoveHost
<1>3. ASSUME NEW ip \in Addr, NEW purpose \in AttemptPurpose,
             NEW asn \in AnyAsn, RecordAttempt(ip, purpose, asn)
      PROVE  PurgeInv'
  BY <1>3, RecordInvariant
<1>4. ASSUME NEW a \in attempts, ForgetAttempt(a)
      PROVE  PurgeInv'
  BY <1>4, RemoveInvariant DEF ForgetAttempt
<1>5. ASSUME NEW r \in Rule, AddExclusion(r)
      PROVE  PurgeInv'
  BY <1>5, AddInvariant
<1>6. ASSUME NEW j \in jobs, NEW n \in PageLimit, ResumePurge(j, n)
      PROVE  PurgeInv'
  BY <1>6, ResumeInvariant
<1>7. CASE UNCHANGED vars
  BY <1>7, RemoveInvariant DEF vars
<1>8. QED
  BY <1>1, <1>2, <1>3, <1>4, <1>5, <1>6, <1>7 DEF Next, Write, Resume

(* The strengthening of ReceiptSound that the steps preserve: active rules  *)
(* admit no new row, and no matching row lies behind a cursor. *)
THEOREM PurgeInvariant == Spec => []PurgeInv
BY InitialInvariant, InvariantStep, PTL DEF Spec

(* For all rules, corpora, page sizes and interleaved writes, a purge that  *)
(* reports verified_zero_matches left nothing its rule matches. *)
THEOREM ReceiptIsSound == Spec => []ReceiptSound
<1>1. PurgeInv => ReceiptSound
  BY DEF PurgeInv, HostsSwept, AttemptsSwept, ReceiptSound
<1>2. QED
  BY <1>1, PurgeInvariant, PTL

-----------------------------------------------------------------------------
(* The invariant of the purge, under whole pages and lists of rules.       *)

LEMMA AddedRulesPurge ==
  ASSUME PurgeInv, NEW R \in SUBSET Rule, AddedRules(R)
  PROVE  PurgeInv'
<1>1. /\ hosts' = hosts /\ attempts' = attempts
      /\ exclusions' = exclusions \cup R
      /\ \A j \in jobs' : j \in jobs \/ \E r \in R : j = NewJob(r)
  BY DEF AddedRules
<1>2. \A r \in R : NewJob(r) \in Job
  BY DEF Job, Status, NewJob
<1>3. TypeOK'
  BY <1>1, <1>2 DEF PurgeInv, TypeOK
<1>4. JobsActive' /\ RecordsAgree'
  BY <1>1 DEF PurgeInv, JobsActive, RecordsAgree, NewJob
<1>5. HostsSwept'
  <2>1. \A h \in hosts : h.ip \in Nat /\ h.ip > 0
    BY PositiveAddress DEF PurgeInv, TypeOK, Host
  <2>2. QED
    BY <1>1, <2>1 DEF PurgeInv, HostsSwept, Hits, NewJob
<1>6. AttemptsSwept'
  <2>1. SUFFICES ASSUME NEW k \in jobs', NEW a \in Hits(k.rule, attempts')
                 PROVE  \/ k.status = "hosts"
                        \/ /\ k.status = "attempts"
                           /\ KeyLess(k.attemptCursor, KeyOf(a))
    BY DEF AttemptsSwept, KeyLess, KeyOf
  <2>2. CASE k \in jobs
    BY <1>1, <2>1, <2>2 DEF PurgeInv, AttemptsSwept, Hits
  <2>3. CASE \E r \in R : k = NewJob(r)
    BY <2>3 DEF NewJob
  <2>4. QED
    BY <1>1, <2>1, <2>2, <2>3
<1>7. QED
  BY <1>3, <1>4, <1>5, <1>6 DEF PurgeInv

(* A row after an upsert of a page is an old one, or one that passed. *)
LEMMA AddedHostRow ==
  ASSUME NEW page \in SUBSET KvRow, AddedHosts(page), NEW h \in hosts'
  PROVE  \/ h \in hosts
         \/ \E k \in Taken(page) :
              \/ h = [ip |-> k.ip, asn |-> k.asn, recordAsn |-> k.asn]
              \/ \E g \in hosts : g.ip = k.ip /\ h = Merged(g, k.ip, k.asn)
<1>1. CASE h \in hosts
  BY <1>1
<1>2. CASE h \notin hosts
  <2>1. PICK k \in Taken(page) : h \in Upserted(k)
    BY <1>2 DEF AddedHosts
  <2>2. QED
    BY <2>1 DEF Upserted
<1>3. QED
  BY <1>1, <1>2

LEMMA AddedHostsPurge ==
  ASSUME PurgeInv, NEW page \in SUBSET KvRow, AddedHosts(page)
  PROVE  PurgeInv'
<1>1. attempts' = attempts /\ exclusions' = exclusions /\ jobs' = jobs
  BY DEF AddedHosts
<1>2. hosts \subseteq Host
  BY DEF PurgeInv, TypeOK
<1>3. \A k \in Taken(page) :
        k.ip \in Addr /\ k.asn \in AnyAsn /\ ~IsExcluded(exclusions, k.ip, k.asn)
  BY DEF Taken, KvRow
<1>4. TypeOK'
  <2>1. ASSUME NEW h \in hosts' PROVE h \in Host
    <3>1. CASE h \in hosts
      BY <1>2, <3>1
    <3>2. ASSUME NEW k \in Taken(page),
                 h = [ip |-> k.ip, asn |-> k.asn, recordAsn |-> k.asn]
          PROVE  h \in Host
      BY <1>3, <3>2 DEF Host
    <3>3. ASSUME NEW k \in Taken(page), NEW g \in hosts,
                 h = Merged(g, k.ip, k.asn)
          PROVE  h \in Host
      BY <1>2, <1>3, <3>3, MergedType
    <3>4. QED
      BY <3>1, <3>2, <3>3, AddedHostRow
  <2>2. QED
    BY <1>1, <2>1 DEF PurgeInv, TypeOK
<1>5. JobsActive' /\ AttemptsSwept'
  BY <1>1 DEF PurgeInv, JobsActive, AttemptsSwept, Hits, KeyOf
<1>6. RecordsAgree'
  <2>1. ASSUME NEW h \in hosts' PROVE h.recordAsn \in {h.asn, UnknownAsn}
    <3>1. CASE h \in hosts
      BY <3>1 DEF PurgeInv, RecordsAgree
    <3>2. ASSUME NEW k \in Taken(page), NEW g \in hosts,
                 h = Merged(g, k.ip, k.asn)
          PROVE  h.recordAsn \in {h.asn, UnknownAsn}
      BY <1>2, <1>3, <3>2, MergedType
    <3>3. QED
      BY <3>1, <3>2, AddedHostRow
  <2>2. QED
    BY <2>1 DEF RecordsAgree
<1>7. HostsSwept'
  <2>1. SUFFICES ASSUME NEW j \in jobs, NEW h \in hosts',
                        RuleMatches(j.rule, h.ip, h.asn)
                 PROVE  j.status = "hosts" /\ h.ip > j.hostCursor
    BY <1>1 DEF HostsSwept, Hits
  <2>2. j.rule \in Rule /\ j.rule \in exclusions
    BY DEF PurgeInv, JobsActive, TypeOK, Job
  <2>3. \A k \in Taken(page) : ~RuleMatches(j.rule, k.ip, k.asn)
    BY <1>3, <2>2, CheckedRow
  <2>4. CASE h \in hosts
    BY <2>1, <2>4 DEF PurgeInv, HostsSwept, Hits
  <2>5. ASSUME NEW k \in Taken(page),
               h = [ip |-> k.ip, asn |-> k.asn, recordAsn |-> k.asn]
        PROVE  FALSE
    BY <2>1, <2>3, <2>5
  <2>6. ASSUME NEW k \in Taken(page), NEW g \in hosts, g.ip = k.ip,
               h = Merged(g, k.ip, k.asn)
        PROVE  j.status = "hosts" /\ h.ip > j.hostCursor
    <3>1. /\ g \in Host /\ g.recordAsn \in {g.asn, UnknownAsn}
          /\ k.ip \in Addr /\ k.asn \in AnyAsn /\ h.ip = k.ip
      BY <1>2, <1>3, <2>6, MergedType DEF PurgeInv, RecordsAgree
    <3>2. RuleMatches(j.rule, g.ip, g.asn)
      BY <2>1, <2>2, <2>3, <2>6, <3>1, MergedRow
    <3>3. QED
      BY <2>6, <3>1, <3>2 DEF PurgeInv, HostsSwept, Hits
  <2>7. QED
    BY <2>4, <2>5, <2>6, AddedHostRow
<1>8. QED
  BY <1>4, <1>5, <1>6, <1>7 DEF PurgeInv

(* What ImportPage does to the attempts. *)
LEMMA ImportedPurge ==
  ASSUME PurgeInv, NEW page \in SUBSET KvRow,
         hosts' = hosts, exclusions' = exclusions, jobs' = jobs,
         \A a \in attempts' :
           a \in attempts \/ \E k \in Taken(page) : a = ImportedRow(k)
  PROVE  PurgeInv'
<1>1. \A k \in Taken(page) :
        k.ip \in Addr /\ k.asn \in AnyAsn /\ ~IsExcluded(exclusions, k.ip, k.asn)
  BY DEF Taken, KvRow
<1>2. \A k \in Taken(page) : ImportedRow(k) \in Attempt
  BY <1>1 DEF ImportedRow, Attempt
<1>3. TypeOK'
  BY <1>2 DEF PurgeInv, TypeOK
<1>4. JobsActive' /\ RecordsAgree' /\ HostsSwept'
  BY DEF PurgeInv, JobsActive, RecordsAgree, HostsSwept, Hits
<1>5. AttemptsSwept'
  <2>1. SUFFICES ASSUME NEW j \in jobs, NEW a \in attempts',
                        RuleMatches(j.rule, a.ip, a.asn)
                 PROVE  \/ j.status = "hosts"
                        \/ j.status = "attempts"
                             /\ KeyLess(j.attemptCursor, KeyOf(a))
    BY DEF AttemptsSwept, Hits
  <2>2. j.rule \in Rule /\ j.rule \in exclusions
    BY DEF PurgeInv, JobsActive, TypeOK, Job
  <2>3. ASSUME NEW k \in Taken(page) PROVE a # ImportedRow(k)
    <3>1. ~RuleMatches(j.rule, k.ip, k.asn)
      BY <1>1, <2>2, CheckedRow
    <3>2. QED
      BY <2>1, <3>1 DEF ImportedRow
  <2>4. QED
    BY <2>1, <2>3 DEF PurgeInv, AttemptsSwept, Hits
<1>6. QED
  BY <1>3, <1>4, <1>5 DEF PurgeInv

-----------------------------------------------------------------------------
(* What every step leaves in place: nothing owed is given up, rules stay,   *)
(* rules keep their jobs, and complete jobs stay complete. *)
Frame ==
  /\ owed'.hosts \subseteq owed.hosts /\ owed'.attempts \subseteq owed.attempts
  /\ \A ip \in owed'.hosts :
       kv'.hosts[ip] = kv.hosts[ip] /\ (ip \in Ips(hosts) => ip \in Ips(hosts'))
  /\ \A ip \in owed'.attempts :
       <<ip, Discovery>> \in Keys(attempts) => <<ip, Discovery>> \in Keys(attempts')
  /\ kv'.rank = kv.rank /\ kv'.unfit = kv.unfit
  /\ exclusions \subseteq exclusions'
  /\ \A j \in jobs : \E k \in jobs' : k.rule = j.rule
  /\ \A j \in jobs : j.status = "complete" => j \in jobs'

LEMMA HostStaysCarried ==
  ASSUME Frame, NEW ip \in owed'.hosts, CarriedHost(ip)
  PROVE  CarriedHost(ip)'
BY DEF Frame, CarriedHost, IsExcluded

LEMMA AttemptStaysCarried ==
  ASSUME Frame, NEW ip \in owed'.attempts, CarriedAttempt(ip)
  PROVE  CarriedAttempt(ip)'
BY DEF Frame, CarriedAttempt, IsExcluded, Overtaken

LEMMA FrameCarries ==
  ASSUME Frame, NEW hc, NEW hd, NEW ac, NEW ad, CarriedTo(hc, hd, ac, ad)
  PROVE  CarriedTo(hc, hd, ac, ad)'
<1>1. owed'.hosts \subseteq owed.hosts /\ owed'.attempts \subseteq owed.attempts
  BY DEF Frame
<1>2. QED
  BY <1>1, HostStaysCarried, AttemptStaysCarried DEF CarriedTo

LEMMA FrameCall ==
  ASSUME Frame, NEW c, CallSound(c)
  PROVE  CallSound(c)'
<1>1. /\ owed'.hosts \subseteq owed.hosts /\ owed'.attempts \subseteq owed.attempts
      /\ \A ip \in owed'.hosts : kv'.hosts[ip] = kv.hosts[ip]
  BY DEF Frame
<1>2. ASSUME NEW ip \in owed'.hosts, ip <= c.hostCursor \/ c.hostsDone
      PROVE  CarriedHost(ip)' \/ HostInHand(c, ip)'
  <2>1. CarriedHost(ip) \/ HostInHand(c, ip)
    BY <1>1, <1>2 DEF CallSound
  <2>2. QED
    BY <1>1, <2>1, HostStaysCarried DEF HostInHand
<1>3. ASSUME NEW ip \in owed'.attempts, ip <= c.attemptCursor \/ c.attemptsDone
      PROVE  CarriedAttempt(ip)' \/ AttemptInHand(c, ip)'
  <2>1. CarriedAttempt(ip) \/ AttemptInHand(c, ip)
    BY <1>1, <1>3 DEF CallSound
  <2>2. QED
    BY <2>1, AttemptStaysCarried DEF AttemptInHand
<1>4. c.pc \notin {"mirror", "rules"} => \A r \in c.rules : HasJob(r)'
  BY DEF CallSound, HasJob, Frame
<1>5. QED
  BY <1>2, <1>3, <1>4 DEF CallSound

LEMMA FrameHonoured ==
  ASSUME Frame, HonouredComplete, honoured' = honoured
  PROVE  HonouredComplete'
BY DEF Frame, HonouredComplete

(* Steps that leave the calls alone. *)
LEMMA BesideInvariant ==
  ASSUME MigrationInv, PurgeInv', Frame, OwedHeld', calls' = calls,
         honoured' = honoured, marks' \in Marks, MarksSound',
         kv' \in Kv,
         owed' \in [hosts : SUBSET Addr, attempts : SUBSET Addr]
  PROVE  MigrationInv'
<1>1. MigrationTypeOK'
  BY DEF MigrationInv, MigrationTypeOK
<1>2. CallsSound'
  BY FrameCall DEF MigrationInv, CallsSound
<1>3. HonouredComplete'
  BY FrameHonoured DEF MigrationInv
<1>4. QED
  BY <1>1, <1>2, <1>3 DEF MigrationInv

(* Steps of one call. *)
LEMMA CallKeeps ==
  ASSUME MigrationInv, PurgeInv', Frame, NEW p \in Caller, NEW d,
         calls' = [calls EXCEPT ![p] = d],
         d = NoCall \/ (d \in Progress /\ CallSound(d)'),
         kv' = kv, marks' \in Marks, MarksSound', honoured' \subseteq Rule, HonouredComplete',
         owed' \in [hosts : SUBSET Addr, attempts : SUBSET Addr]
  PROVE  MigrationInv'
<1>1. MigrationTypeOK'
  BY DEF MigrationInv, MigrationTypeOK
<1>2. OwedHeld'
  BY DEF MigrationInv, OwedHeld, Frame
<1>3. CallsSound'
  <2>1. ASSUME NEW q \in Caller, q = p, calls'[q] # NoCall
        PROVE  d # NoCall /\ calls'[q] = d /\ CallSound(d)'
    BY <2>1 DEF MigrationInv, MigrationTypeOK
  <2>2. ASSUME NEW q \in Caller, q # p, calls'[q] # NoCall
        PROVE  calls'[q] = calls[q] /\ CallSound(calls[q])
    BY <2>2 DEF MigrationInv, MigrationTypeOK, CallsSound
  <2>3. \A q \in Caller : calls'[q] # NoCall =>
          \E e : e = calls'[q] /\ CallSound(e)'
    <3>1. SUFFICES ASSUME NEW q \in Caller, calls'[q] # NoCall
                   PROVE  \E e : e = calls'[q] /\ CallSound(e)'
      OBVIOUS
    <3>2. CASE q = p
      BY <2>1, <3>1, <3>2
    <3>3. CASE q # p
      <4>1. PICK e : e = calls[q]
        OBVIOUS
      <4>2. CallSound(e)
        BY <2>2, <3>1, <3>3, <4>1
      <4>3. CallSound(e)'
        BY <4>2, FrameCall
      <4>4. QED
        BY <2>2, <3>1, <3>3, <4>1, <4>3
    <3>4. QED
      BY <3>2, <3>3
  <2>4. QED
    BY <2>3 DEF CallsSound, CallSound, HostInHand, AttemptInHand
<1>4. QED
  BY <1>1, <1>2, <1>3 DEF MigrationInv

LEMMA CallInvariant ==
  ASSUME MigrationInv, PurgeInv', Frame, NEW p \in Caller, NEW d,
         calls' = [calls EXCEPT ![p] = d],
         d = NoCall \/ (d \in Progress /\ CallSound(d)'),
         kv' = kv, marks' \in Marks, MarksSound', honoured' = honoured,
         owed' \in [hosts : SUBSET Addr, attempts : SUBSET Addr]
  PROVE  MigrationInv'
<1>1. honoured' \subseteq Rule /\ HonouredComplete'
  BY FrameHonoured DEF MigrationInv, MigrationTypeOK
<1>2. QED
  BY <1>1, CallKeeps

-----------------------------------------------------------------------------
(* The object's own steps.                                                 *)

LEMMA CheckpointKeeps ==
  ASSUME PurgeInv, NEW j \in jobs, j.status # "complete", NEW s, NEW hc, NEW ac,
         Checkpoint(j, s, hc, ac)
  PROVE  /\ \A k \in jobs : \E m \in jobs' : m.rule = k.rule
         /\ \A k \in jobs : k.status = "complete" => k \in jobs'
<1> DEFINE moved == [rule |-> j.rule, status |-> s, hostCursor |-> hc,
                     attemptCursor |-> ac]
<1>1. jobs' = (jobs \ {j}) \cup {moved} /\ moved.rule = j.rule
  BY DEF Checkpoint
<1>2. QED
  BY <1>1

LEMMA ResumeKeeps ==
  ASSUME PurgeInv, NEW j \in jobs, NEW n \in PageLimit, ResumePurge(j, n)
  PROVE  /\ exclusions' = exclusions
         /\ \A k \in jobs : \E m \in jobs' : m.rule = k.rule
         /\ \A k \in jobs : k.status = "complete" => k \in jobs'
<1>1. j.status # "complete" /\ exclusions' = exclusions
  BY DEF ResumePurge, RestartHosts, PurgeHosts, RestartAttempts, PurgeAttempts
<1>2. \E s, hc, ac : Checkpoint(j, s, hc, ac)
  BY DEF ResumePurge, RestartHosts, PurgeHosts, RestartAttempts, PurgeAttempts
<1>3. QED
  BY <1>1, <1>2, CheckpointKeeps

LEMMA NextKeeps ==
  ASSUME PurgeInv, Next
  PROVE  /\ exclusions \subseteq exclusions'
         /\ \A k \in jobs : \E m \in jobs' : m.rule = k.rule
         /\ \A k \in jobs : k.status = "complete" => k \in jobs'
<1>1. ASSUME Write
      PROVE  exclusions \subseteq exclusions' /\ jobs \subseteq jobs'
  BY <1>1 DEF Write, UpsertHost, RemoveHost, RecordAttempt, ForgetAttempt, AddExclusion
<1>2. ASSUME NEW j \in jobs, NEW n \in PageLimit, ResumePurge(j, n)
      PROVE  /\ exclusions \subseteq exclusions'
             /\ \A k \in jobs : \E m \in jobs' : m.rule = k.rule
             /\ \A k \in jobs : k.status = "complete" => k \in jobs'
  BY <1>2, ResumeKeeps
<1>3. QED
  BY <1>1, <1>2 DEF Next, Resume

LEMMA OwedAfter ==
  ASSUME MigrationTypeOK, owed' = StillOwed
  PROVE  /\ owed' \in [hosts : SUBSET Addr, attempts : SUBSET Addr]
         /\ owed'.hosts \subseteq owed.hosts
         /\ owed'.attempts \subseteq owed.attempts
         /\ \A ip \in owed'.hosts : ip \in Ips(hosts) => ip \in Ips(hosts')
         /\ \A ip \in owed'.attempts :
              <<ip, Discovery>> \in Keys(attempts) => <<ip, Discovery>> \in Keys(attempts')
BY DEF StillOwed, MigrationTypeOK

LEMMA NextFrame ==
  ASSUME MigrationInv, Next, owed' = StillOwed, kv' = kv
  PROVE  Frame /\ PurgeInv' /\ owed' \in [hosts : SUBSET Addr, attempts : SUBSET Addr]
<1>1. PurgeInv /\ MigrationTypeOK
  BY DEF MigrationInv
<1>2. PurgeInv'
  BY <1>1, InvariantStep
<1>3. QED
  BY <1>1, <1>2, NextKeeps, OwedAfter DEF Frame

(* Nothing in the object changes. *)
LEMMA StillFrame ==
  ASSUME MigrationInv, UNCHANGED vars, owed' = owed, kv' = kv
  PROVE  Frame /\ PurgeInv' /\ owed' \in [hosts : SUBSET Addr, attempts : SUBSET Addr]
<1>1. PurgeInv'
  BY InvariantStep DEF MigrationInv
<1>2. QED
  BY <1>1 DEF Frame, vars, MigrationInv, MigrationTypeOK

LEMMA MarksStay ==
  ASSUME MigrationInv, Frame, marks' = marks
  PROVE  MarksSound' /\ marks' \in Marks
<1>1. CarriedTo(marks.hostCursor, marks.hostsDone, marks.attemptCursor, marks.attemptsDone)
  BY DEF MigrationInv, MarksSound
<1>2. \E hc, hd, ac, ad :
        /\ hc = marks.hostCursor /\ hd = marks.hostsDone
        /\ ac = marks.attemptCursor /\ ad = marks.attemptsDone
        /\ CarriedTo(hc, hd, ac, ad)'
  BY <1>1, FrameCarries
<1>3. QED
  BY <1>2 DEF MarksSound, CarriedTo, MigrationInv, MigrationTypeOK

LEMMA OtherStep ==
  ASSUME MigrationInv, Next, owed' = StillOwed, UNCHANGED <<kv, marks, calls, honoured>>
  PROVE  MigrationInv'
<1>1. Frame /\ PurgeInv' /\ owed' \in [hosts : SUBSET Addr, attempts : SUBSET Addr]
  BY NextFrame
<1>2. OwedHeld'
  BY <1>1 DEF MigrationInv, OwedHeld, Frame
<1>3. MarksSound' /\ marks' \in Marks
  BY <1>1, MarksStay
<1>4. QED
  BY <1>1, <1>2, <1>3, BesideInvariant DEF MigrationInv, MigrationTypeOK

LEMMA KvForgetStep ==
  ASSUME MigrationInv, NEW ip \in Addr, KvForget(ip)
  PROVE  MigrationInv'
<1>1. /\ UNCHANGED vars /\ marks' = marks /\ calls' = calls /\ honoured' = honoured
      /\ owed'.hosts = {a \in owed.hosts : kv'.hosts[a] # NoRecord}
      /\ owed'.attempts = owed.attempts \cap kv'.attempts
      /\ owed' = [hosts |-> owed'.hosts, attempts |-> owed'.attempts]
  BY DEF KvForget
<1>2. /\ kv' \in Kv
      /\ \A a \in Addr : kv'.hosts[a] \in {kv.hosts[a], NoRecord}
      /\ kv'.rank = kv.rank /\ kv'.unfit = kv.unfit
  <2>1. CASE kv' = [kv EXCEPT !.hosts[ip] = NoRecord]
    BY <2>1 DEF MigrationInv, MigrationTypeOK, KvHost, Kv
  <2>2. CASE kv' = [kv EXCEPT !.attempts = @ \ {ip}]
    BY <2>2 DEF MigrationInv, MigrationTypeOK, Kv
  <2>3. QED
    BY <2>1, <2>2 DEF KvForget
<1>3. /\ owed' \in [hosts : SUBSET Addr, attempts : SUBSET Addr]
      /\ owed.hosts \subseteq Addr
  BY <1>1 DEF MigrationInv, MigrationTypeOK
<1>4. Frame
  BY <1>1, <1>2, <1>3 DEF Frame, vars
<1>5. OwedHeld'
  BY <1>1 DEF OwedHeld
<1>6. PurgeInv'
  BY <1>1, InvariantStep DEF MigrationInv
<1>7. MarksSound' /\ marks' \in Marks
  BY <1>1, <1>4, MarksStay
<1>8. QED
  BY <1>1, <1>2, <1>3, <1>4, <1>5, <1>6, <1>7, BesideInvariant

LEMMA KvRecordStep ==
  ASSUME MigrationInv, NEW ip \in Addr, NEW asn \in AnyAsn, KvRecord(ip, asn)
  PROVE  MigrationInv'
<1>1. /\ UNCHANGED vars /\ marks' = marks /\ calls' = calls /\ honoured' = honoured
      /\ owed' = owed /\ kv.hosts[ip] = NoRecord
      /\ kv' = [kv EXCEPT !.hosts[ip] = asn, !.attempts = @ \cup {ip}]
  BY DEF KvRecord
<1>2. /\ kv' \in Kv
      /\ \A a \in Addr \ {ip} : kv'.hosts[a] = kv.hosts[a]
      /\ kv.attempts \subseteq kv'.attempts
      /\ kv'.rank = kv.rank /\ kv'.unfit = kv.unfit
  BY <1>1 DEF MigrationInv, MigrationTypeOK, KvHost, Kv
<1>3. ip \notin owed.hosts /\ owed.hosts \subseteq Addr
  BY <1>1 DEF MigrationInv, OwedHeld, MigrationTypeOK
<1>4. Frame
  BY <1>1, <1>2, <1>3 DEF Frame, vars
<1>5. OwedHeld'
  BY <1>1, <1>2, <1>3 DEF OwedHeld, MigrationInv
<1>6. PurgeInv'
  BY <1>1, InvariantStep DEF MigrationInv
<1>7. MarksSound' /\ marks' \in Marks
  BY <1>1, <1>4, MarksStay
<1>8. QED
  BY <1>1, <1>2, <1>4, <1>5, <1>6, <1>7, BesideInvariant DEF MigrationInv, MigrationTypeOK

LEMMA ReconciledMarks ==
  ASSUME MigrationInv, Frame, Reconciled
  PROVE  MarksSound' /\ marks' \in Marks
<1>1. /\ marks' \in Marks
      /\ marks'.hostCursor = marks.hostCursor /\ marks'.hostsDone = marks.hostsDone
      /\ marks'.attemptCursor = marks.attemptCursor
      /\ marks'.attemptsDone = marks.attemptsDone
  BY DEF Reconciled, MigrationInv, MigrationTypeOK, Marks
<1>2. \E hc, hd, ac, ad :
        /\ hc = marks.hostCursor /\ hd = marks.hostsDone
        /\ ac = marks.attemptCursor /\ ad = marks.attemptsDone
        /\ CarriedTo(hc, hd, ac, ad)'
  BY FrameCarries DEF MigrationInv, MarksSound
<1>3. QED
  BY <1>1, <1>2 DEF MarksSound, CarriedTo

LEMMA OtherReconciliationStep ==
  ASSUME MigrationInv, OtherReconciliation
  PROVE  MigrationInv'
<1>1. /\ UNCHANGED vars /\ kv' = kv /\ owed' = owed /\ Reconciled
      /\ calls' = calls /\ honoured' = honoured
  BY DEF OtherReconciliation
<1>2. Frame /\ PurgeInv' /\ owed' \in [hosts : SUBSET Addr, attempts : SUBSET Addr]
  BY <1>1, StillFrame
<1>3. MarksSound' /\ marks' \in Marks
  BY <1>1, <1>2, ReconciledMarks
<1>4. OwedHeld'
  BY <1>1 DEF OwedHeld, MigrationInv
<1>5. QED
  BY <1>1, <1>2, <1>3, <1>4, BesideInvariant DEF MigrationInv, MigrationTypeOK

-----------------------------------------------------------------------------
(* The steps of a call.                                                    *)

LEMMA CallFacts ==
  ASSUME MigrationInv, NEW p \in Caller, calls[p] # NoCall
  PROVE  calls[p] \in Progress /\ CallSound(calls[p])
BY DEF MigrationInv, MigrationTypeOK, CallsSound

(* Steps that read only: the object, KV and the marks stay. *)
LEMMA ReadingStep ==
  ASSUME MigrationInv, NEW p \in Caller, NEW d, Advance(p, d),
         UNCHANGED <<vars, kv, marks, owed, honoured>>,
         d = NoCall \/ (d \in Progress /\ CallSound(d))
  PROVE  MigrationInv'
<1>1. Frame /\ PurgeInv' /\ owed' \in [hosts : SUBSET Addr, attempts : SUBSET Addr]
  BY StillFrame
<1>2. MarksSound' /\ marks' \in Marks
  BY <1>1, MarksStay
<1>3. d = NoCall \/ (d \in Progress /\ CallSound(d)')
  BY <1>1, FrameCall
<1>4. QED
  BY <1>1, <1>2, <1>3, CallInvariant DEF Advance

LEMMA StartStep ==
  ASSUME MigrationInv, NEW p \in Caller, Start(p)
  PROVE  MigrationInv'
<1> DEFINE d == [pc |-> "mirror", hostCursor |-> marks.hostCursor,
              attemptCursor |-> marks.attemptCursor, hostsDone |-> marks.hostsDone,
              attemptsDone |-> marks.attemptsDone, rules |-> {}, todo |-> {},
              page |-> {}, counts |-> <<0, 0>>]
<1>1. Advance(p, d) /\ UNCHANGED <<vars, kv, marks, owed, honoured>>
  BY DEF Start
<1>2. <<0, 0>> \in Counts
  <2>1. Cardinality({}) = 0
    BY FS_EmptySet
  <2>2. {} \in SUBSET Host /\ {} \in SUBSET Attempt
    OBVIOUS
  <2>3. QED
    BY <2>1, <2>2 DEF Counts
<1>3. d \in Progress
  BY <1>2 DEF Progress, MigrationInv, MigrationTypeOK, Marks
<1>4. CallSound(d)
  BY DEF CallSound, MigrationInv, MarksSound, CarriedTo
<1>5. QED
  BY <1>1, <1>3, <1>4, ReadingStep

LEMMA AbandonStep ==
  ASSUME MigrationInv, NEW p \in Caller, Abandon(p), kv' = kv, honoured' = honoured
  PROVE  MigrationInv'
BY ReadingStep DEF Abandon

LEMMA ReadMirrorStep ==
  ASSUME MigrationInv, NEW p \in Caller, calls[p] # NoCall,
         ReadMirror(p, calls[p]), kv' = kv, honoured' = honoured
  PROVE  MigrationInv'
<1> DEFINE c == calls[p]
           d == [c EXCEPT !.pc = "rules", !.rules = kv.mirror]
<1>1. /\ c.pc = "mirror" /\ Advance(p, d)
      /\ UNCHANGED <<vars, kv, marks, owed, honoured>>
  BY DEF ReadMirror
<1>2. c \in Progress /\ CallSound(c)
  BY CallFacts
<1>3. d \in Progress
  BY <1>2 DEF Progress, MigrationInv, MigrationTypeOK, Kv
<1>4. CallSound(d)
  BY <1>1, <1>2 DEF CallSound, Progress, HostInHand, AttemptInHand
<1>5. QED
  BY <1>1, <1>3, <1>4, ReadingStep

LEMMA ReadHostsStep ==
  ASSUME MigrationInv, NEW p \in Caller, calls[p] # NoCall,
         ReadHosts(p, calls[p]), kv' = kv, honoured' = honoured
  PROVE  MigrationInv'
<1> DEFINE c == calls[p]
<1>1. c.pc = "hosts" /\ UNCHANGED <<vars, kv, marks, owed, honoured>>
  BY DEF ReadHosts
<1>2. c \in Progress /\ CallSound(c)
  BY CallFacts
<1>3. CASE c.hostsDone /\ Advance(p, [c EXCEPT !.pc = "attempts"])
  <2> DEFINE d == [c EXCEPT !.pc = "attempts"]
  <2>1. d \in Progress
    BY <1>2 DEF Progress
  <2>2. CallSound(d)
    BY <1>1, <1>2 DEF CallSound, Progress, HostInHand, AttemptInHand
  <2>3. QED
    BY <1>1, <1>3, <2>1, <2>2, ReadingStep
<1>4. ASSUME ~c.hostsDone, NEW page \in SUBSET Recorded, NEW past \in Addr \cup {0},
             IsPage(page, Recorded, c.hostCursor, Lexical), Past(page, c.hostCursor, past, Lexical),
             Advance(p, [c EXCEPT !.pc = "upsert", !.hostCursor = past,
                  !.page = {[ip |-> a, asn |-> kv.hosts[a]] : a \in page},
                  !.hostsDone = \A a \in Recorded : a > c.hostCursor => a \in page])
      PROVE  MigrationInv'
  <2> DEFINE rows == {[ip |-> a, asn |-> kv.hosts[a]] : a \in page}
             done == \A a \in Recorded : a > c.hostCursor => a \in page
             d == [c EXCEPT !.pc = "upsert", !.hostCursor = past,
                            !.page = rows, !.hostsDone = done]
  <2>1. rows \in SUBSET KvRow
    BY DEF Recorded, KvRow, KvHost, MigrationInv, MigrationTypeOK, Kv
  <2>2. done \in BOOLEAN
    OBVIOUS
  <2>3. d \in Progress
    BY <1>2, <2>1, <2>2 DEF Progress
  <2>4. /\ d.pc = "upsert" /\ d.hostCursor = past /\ d.page = rows
        /\ d.hostsDone = done /\ d.attemptCursor = c.attemptCursor
        /\ d.attemptsDone = c.attemptsDone /\ d.rules = c.rules
    BY <1>2, <2>2 DEF Progress
  <2>5. ASSUME NEW ip \in owed.hosts, ip <= past \/ done
        PROVE  CarriedHost(ip) \/ ip \in page
    <3>1. ip \in Recorded /\ ip \in Nat
      BY DEF Recorded, MigrationInv, OwedHeld, MigrationTypeOK, Kv
    <3>2. past \in Nat /\ c.hostCursor \in Nat
      BY <1>2, <1>4 DEF Progress
    <3>3. CASE ip <= c.hostCursor
      BY <1>1, <1>2, <3>3 DEF CallSound, HostInHand
    <3>4. CASE ip > c.hostCursor /\ done
      BY <3>1, <3>4
    <3>5. CASE ip > c.hostCursor /\ ip <= past
      <4>1. page # {} /\ past \in page
        BY <1>4, <3>1, <3>2, <3>5 DEF Past
      <4>2. QED
        BY <1>4, <3>1, <3>5, <4>1 DEF IsPage, Lexical, Recorded
    <3>6. QED
      BY <2>5, <3>1, <3>2, <3>3, <3>4, <3>5
  <2>6. CallSound(d)
    <3>1. \A ip \in owed.hosts :
            ip <= d.hostCursor \/ d.hostsDone => CarriedHost(ip) \/ HostInHand(d, ip)
      BY <2>4, <2>5 DEF HostInHand
    <3>2. \A ip \in owed.attempts :
            ip <= d.attemptCursor \/ d.attemptsDone =>
              CarriedAttempt(ip) \/ AttemptInHand(d, ip)
      BY <1>1, <1>2, <2>4 DEF CallSound, AttemptInHand
    <3>3. \A r \in d.rules : HasJob(r)
      BY <1>1, <1>2, <2>4 DEF CallSound
    <3>4. QED
      BY <3>1, <3>2, <3>3 DEF CallSound
  <2>7. QED
    BY <1>1, <1>4, <2>3, <2>6, ReadingStep
<1>5. QED
  BY <1>3, <1>4 DEF ReadHosts

LEMMA ReadAttemptsStep ==
  ASSUME MigrationInv, NEW p \in Caller, calls[p] # NoCall,
         ReadAttempts(p, calls[p]), kv' = kv, honoured' = honoured
  PROVE  MigrationInv'
<1> DEFINE c == calls[p]
<1>1. c.pc = "attempts" /\ UNCHANGED <<vars, kv, marks, owed, honoured>>
  BY DEF ReadAttempts
<1>2. c \in Progress /\ CallSound(c)
  BY CallFacts
<1>3. CASE c.attemptsDone /\ Advance(p, [c EXCEPT !.pc = "checkpoint"])
  <2> DEFINE d == [c EXCEPT !.pc = "checkpoint"]
  <2>1. d \in Progress
    BY <1>2 DEF Progress
  <2>2. CallSound(d)
    BY <1>1, <1>2 DEF CallSound, Progress, HostInHand, AttemptInHand
  <2>3. QED
    BY <1>1, <1>3, <2>1, <2>2, ReadingStep
<1>4. ASSUME ~c.attemptsDone, NEW page \in SUBSET kv.attempts, NEW past \in Addr \cup {0},
             IsPage(page, kv.attempts, c.attemptCursor, kv.rank), Past(page, c.attemptCursor, past, kv.rank),
             Advance(p, [c EXCEPT !.pc = "import", !.attemptCursor = past,
                  !.page = {[ip |-> a, asn |-> UnknownAsn] : a \in page},
                  !.attemptsDone =
                    \A a \in kv.attempts : a > c.attemptCursor => a \in page])
      PROVE  MigrationInv'
  <2> DEFINE rows == {[ip |-> a, asn |-> UnknownAsn] : a \in page}
             done == \A a \in kv.attempts : a > c.attemptCursor => a \in page
             d == [c EXCEPT !.pc = "import", !.attemptCursor = past,
                            !.page = rows, !.attemptsDone = done]
  <2>1. rows \in SUBSET KvRow
    BY DEF KvRow, AnyAsn, MigrationInv, MigrationTypeOK, Kv
  <2>2. done \in BOOLEAN
    OBVIOUS
  <2>3. d \in Progress
    BY <1>2, <2>1, <2>2 DEF Progress
  <2>4. /\ d.pc = "import" /\ d.attemptCursor = past /\ d.page = rows
        /\ d.attemptsDone = done /\ d.hostCursor = c.hostCursor
        /\ d.hostsDone = c.hostsDone /\ d.rules = c.rules
    BY <1>2, <2>2 DEF Progress
  <2>5. ASSUME NEW ip \in owed.attempts, ip <= past \/ done
        PROVE  CarriedAttempt(ip) \/ ip \in page
    <3>1. ip \in kv.attempts /\ ip \in Nat
      BY DEF MigrationInv, OwedHeld, MigrationTypeOK, Kv
    <3>2. past \in Nat /\ c.attemptCursor \in Nat
      BY <1>2, <1>4 DEF Progress
    <3>3. CASE ip <= c.attemptCursor
      BY <1>1, <1>2, <3>3 DEF CallSound, AttemptInHand
    <3>4. CASE ip > c.attemptCursor /\ done
      BY <3>1, <3>4
    <3>5. CASE ip > c.attemptCursor /\ ip <= past /\ ip \notin page
      <4>1. page # {} /\ past \in page
        BY <1>4, <3>1, <3>2, <3>5 DEF Past
      <4>2. past > ip
        BY <3>1, <3>2, <3>5, <4>1
      <4>3. ~(kv.rank[ip] <= kv.rank[past])
        BY <1>4, <3>1, <3>5, <4>1 DEF IsPage
      <4>4. past \in Addr /\ ip \in Addr /\ kv.rank \in [Addr -> Nat]
        BY <4>1 DEF MigrationInv, MigrationTypeOK, Kv
      <4>5. kv.rank[ip] \in Nat /\ kv.rank[past] \in Nat
        BY <4>4
      <4>6. kv.rank[past] < kv.rank[ip]
        BY <4>3, <4>5
      <4>7. Overtaken(ip)
        BY <4>2, <4>4, <4>6 DEF Overtaken
      <4>8. QED
        BY <4>7 DEF CarriedAttempt
    <3>6. QED
      BY <2>5, <3>1, <3>2, <3>3, <3>4, <3>5
  <2>6. CallSound(d)
    <3>1. \A ip \in owed.attempts :
            ip <= d.attemptCursor \/ d.attemptsDone =>
              CarriedAttempt(ip) \/ AttemptInHand(d, ip)
      BY <2>4, <2>5 DEF AttemptInHand
    <3>2. \A ip \in owed.hosts :
            ip <= d.hostCursor \/ d.hostsDone => CarriedHost(ip) \/ HostInHand(d, ip)
      BY <1>1, <1>2, <2>4 DEF CallSound, HostInHand
    <3>3. \A r \in d.rules : HasJob(r)
      BY <1>1, <1>2, <2>4 DEF CallSound
    <3>4. QED
      BY <3>1, <3>2, <3>3 DEF CallSound
  <2>7. QED
    BY <1>1, <1>4, <2>3, <2>6, ReadingStep
<1>5. QED
  BY <1>3, <1>4 DEF ReadAttempts

LEMMA ReadHealthStep ==
  ASSUME MigrationInv, NEW p \in Caller, calls[p] # NoCall,
         ReadHealth(p, calls[p]), kv' = kv, honoured' = honoured
  PROVE  MigrationInv'
<1> DEFINE c == calls[p]
           n == <<Cardinality(hosts), Cardinality(attempts)>>
           d == [c EXCEPT !.pc = "complete", !.counts = n]
<1>1. /\ c.pc = "health"
      /\ Advance(p, NoCall) \/ Advance(p, d)
      /\ UNCHANGED <<vars, kv, marks, owed, honoured>>
  BY DEF ReadHealth
<1>2. c \in Progress /\ CallSound(c)
  BY CallFacts
<1>3. n \in Counts
  BY DEF Counts, MigrationInv, PurgeInv, TypeOK
<1>4. d \in Progress
  BY <1>2, <1>3 DEF Progress
<1>5. CallSound(d) \/ c.pc # "health"
  BY <1>2 DEF CallSound, Progress, HostInHand, AttemptInHand
<1>6. c.pc = "health"
  BY DEF ReadHealth
<1>7. QED
  BY <1>1, <1>4, <1>5, <1>6, ReadingStep

-----------------------------------------------------------------------------
(* The steps that change the object or the marks.                          *)

LEMMA AnsweredInvariant ==
  ASSUME MigrationInv, PurgeInv', Frame, NEW p \in Caller, NEW d, Answered(p, d),
         d = NoCall \/ (d \in Progress /\ CallSound(d)'),
         kv' = kv, marks' \in Marks, MarksSound', honoured' = honoured,
         owed' \in [hosts : SUBSET Addr, attempts : SUBSET Addr]
  PROVE  MigrationInv'
<1>1. CASE calls' = [calls EXCEPT ![p] = d]
  BY <1>1, CallInvariant
<1>2. CASE calls' = [calls EXCEPT ![p] = NoCall]
  BY <1>2, CallInvariant
<1>3. QED
  BY <1>1, <1>2 DEF Answered, Advance

(* A call that moves on, with the page it had in hand carried over. *)
LEMMA MovedCall ==
  ASSUME Frame, NEW c, CallSound(c), NEW d,
         d.hostCursor = c.hostCursor, d.hostsDone = c.hostsDone,
         d.attemptCursor = c.attemptCursor, d.attemptsDone = c.attemptsDone,
         \A ip \in owed'.hosts : HostInHand(c, ip) => CarriedHost(ip)',
         \A ip \in owed'.attempts : AttemptInHand(c, ip) => CarriedAttempt(ip)',
         \A r \in d.rules : HasJob(r) \/ HasJob(r)'
  PROVE  CallSound(d)'
<1>1. owed'.hosts \subseteq owed.hosts /\ owed'.attempts \subseteq owed.attempts
  BY DEF Frame
<1>2. ASSUME NEW ip \in owed'.hosts, ip <= d.hostCursor \/ d.hostsDone
      PROVE  CarriedHost(ip)'
  <2>1. CarriedHost(ip) \/ HostInHand(c, ip)
    BY <1>1, <1>2 DEF CallSound
  <2>2. QED
    BY <2>1, HostStaysCarried
<1>3. ASSUME NEW ip \in owed'.attempts, ip <= d.attemptCursor \/ d.attemptsDone
      PROVE  CarriedAttempt(ip)'
  <2>1. CarriedAttempt(ip) \/ AttemptInHand(c, ip)
    BY <1>1, <1>3 DEF CallSound
  <2>2. QED
    BY <2>1, AttemptStaysCarried
<1>4. \A r \in d.rules : HasJob(r)'
  BY DEF HasJob, Frame
<1>5. QED
  BY <1>2, <1>3, <1>4 DEF CallSound

LEMMA AddRulesStep ==
  ASSUME MigrationInv, NEW p \in Caller, calls[p] # NoCall,
         AddRules(p, calls[p]), kv' = kv, honoured' = honoured
  PROVE  MigrationInv'
<1> DEFINE c == calls[p]
<1>1. PICK d : d = [c EXCEPT !.pc = "resume", !.todo = Unfinished(c.rules)]
  OBVIOUS
<1>2. /\ c.pc = "rules" /\ AddedRules(c.rules) /\ Answered(p, d)
      /\ marks' = marks /\ owed' = owed
  BY <1>1 DEF AddRules
<1>3. c \in Progress /\ CallSound(c)
  BY CallFacts
<1>4. /\ c.rules \subseteq Rule /\ Unfinished(c.rules) \subseteq Rule
      /\ d \in Progress
      /\ d.hostCursor = c.hostCursor /\ d.hostsDone = c.hostsDone
      /\ d.attemptCursor = c.attemptCursor /\ d.attemptsDone = c.attemptsDone
      /\ d.rules = c.rules
  BY <1>1, <1>3 DEF Progress, Unfinished
<1>5. PurgeInv'
  BY <1>2, <1>4, AddedRulesPurge DEF MigrationInv
<1>6. Frame
  BY <1>2 DEF AddedRules, Frame
<1>7. \A r \in c.rules : HasJob(r)'
  <2>1. SUFFICES ASSUME NEW r \in c.rules PROVE HasJob(r)'
    OBVIOUS
  <2>2. CASE \A j \in jobs : j.rule # r
    <3>1. NewJob(r) \in jobs' /\ NewJob(r).rule = r
      BY <1>2, <2>2 DEF AddedRules, NewJob
    <3>2. QED
      BY <3>1 DEF HasJob
  <2>3. CASE \E j \in jobs : j.rule = r
    BY <1>2, <2>3 DEF AddedRules, HasJob
  <2>4. QED
    BY <2>2, <2>3
<1>8. \A ip : ~HostInHand(c, ip) /\ ~AttemptInHand(c, ip)
  BY <1>2 DEF HostInHand, AttemptInHand
<1>9. CallSound(d)'
  BY <1>3, <1>4, <1>6, <1>7, <1>8, MovedCall
<1>10. MarksSound' /\ marks' \in Marks
  BY <1>2, <1>6, MarksStay
<1>11. owed' \in [hosts : SUBSET Addr, attempts : SUBSET Addr]
  BY <1>2 DEF MigrationInv, MigrationTypeOK
<1>12. QED
  BY <1>2, <1>4, <1>5, <1>6, <1>9, <1>10, <1>11, AnsweredInvariant

(* The object as it was, or one step of a job. *)
LEMMA JobFrame ==
  ASSUME MigrationInv, Next \/ UNCHANGED vars, owed' = StillOwed, kv' = kv
  PROVE  Frame /\ PurgeInv' /\ owed' \in [hosts : SUBSET Addr, attempts : SUBSET Addr]
<1>1. CASE Next
  BY <1>1, NextFrame
<1>2. CASE UNCHANGED vars
  <2>1. PurgeInv'
    BY <1>2, InvariantStep DEF MigrationInv
  <2>2. QED
    BY <1>2, <2>1, OwedAfter DEF Frame, vars, MigrationInv
<1>3. QED
  BY <1>1, <1>2

LEMMA ResumeJobStep ==
  ASSUME MigrationInv, NEW p \in Caller, calls[p] # NoCall,
         ResumeJob(p, calls[p]), kv' = kv, honoured' = honoured
  PROVE  MigrationInv'
<1> DEFINE c == calls[p]
<1>1. c.pc = "resume" /\ marks' = marks
  BY DEF ResumeJob
<1>2. c \in Progress /\ CallSound(c)
  BY CallFacts
<1>3. CASE Advance(p, [c EXCEPT !.pc = "hosts"]) /\ UNCHANGED <<vars, owed>>
  <2> DEFINE d == [c EXCEPT !.pc = "hosts"]
  <2>1. d \in Progress
    BY <1>2 DEF Progress
  <2>2. CallSound(d)
    BY <1>1, <1>2 DEF CallSound, Progress, HostInHand, AttemptInHand
  <2>3. QED
    BY <1>1, <1>3, <2>1, <2>2, ReadingStep
<1>4. ASSUME NEW r \in c.todo,
             Next \/ UNCHANGED vars, owed' = StillOwed,
             Advance(p, [c EXCEPT !.todo = @ \ {r}])
      PROVE  MigrationInv'
  <2>1. PICK d : d = [c EXCEPT !.todo = @ \ {r}]
    OBVIOUS
  <2>2. /\ d \in Progress
        /\ d.hostCursor = c.hostCursor /\ d.hostsDone = c.hostsDone
        /\ d.attemptCursor = c.attemptCursor /\ d.attemptsDone = c.attemptsDone
        /\ d.rules = c.rules
    BY <1>2, <2>1 DEF Progress
  <2>3. Frame /\ PurgeInv' /\ owed' \in [hosts : SUBSET Addr, attempts : SUBSET Addr]
    BY <1>4, JobFrame
  <2>4. \A ip : ~HostInHand(c, ip) /\ ~AttemptInHand(c, ip)
    BY <1>1 DEF HostInHand, AttemptInHand
  <2>5. \A s \in d.rules : HasJob(s)
    BY <1>1, <1>2, <2>2 DEF CallSound
  <2>6. CallSound(d)'
    BY <1>2, <2>2, <2>3, <2>4, <2>5, MovedCall
  <2>7. MarksSound' /\ marks' \in Marks
    BY <1>1, <2>3, MarksStay
  <2>8. calls' = [calls EXCEPT ![p] = d]
    BY <1>4, <2>1 DEF Advance
  <2>9. QED
    BY <2>2, <2>3, <2>6, <2>7, <2>8, CallInvariant
<1>5. QED
  BY <1>3, <1>4 DEF ResumeJob, Next, Resume

(* Every row taken is there afterwards, and no other is lost. *)
LEMMA AddedIps ==
  ASSUME NEW page \in SUBSET KvRow, AddedHosts(page)
  PROVE  /\ Ips(hosts) \subseteq Ips(hosts')
         /\ \A k \in Taken(page) : k.ip \in Ips(hosts')
<1>1. ASSUME NEW k \in Taken(page)
      PROVE  \E h \in Upserted(k) : h.ip = k.ip
  <2>1. CASE k.ip \in Ips(hosts)
    <3>1. PICK g \in hosts : g.ip = k.ip
      BY <2>1 DEF Ips
    <3>2. Merged(g, k.ip, k.asn) \in Upserted(k) /\ Merged(g, k.ip, k.asn).ip = k.ip
      BY <2>1, <3>1 DEF Upserted, Merged
    <3>3. QED
      BY <3>2
  <2>2. CASE k.ip \notin Ips(hosts)
    BY <2>2 DEF Upserted
  <2>3. QED
    BY <2>1, <2>2
<1>2. \A k \in Taken(page) : k.ip \in Ips(hosts')
  <2>1. SUFFICES ASSUME NEW k \in Taken(page) PROVE k.ip \in Ips(hosts')
    OBVIOUS
  <2>2. PICK h \in Upserted(k) : h.ip = k.ip
    BY <1>1
  <2>3. h \in hosts'
    BY DEF AddedHosts
  <2>4. QED
    BY <2>2, <2>3 DEF Ips
<1>3. ASSUME NEW h \in hosts PROVE h.ip \in Ips(hosts')
  <2>1. CASE h.ip \in Ips(Taken(page))
    BY <1>2, <2>1 DEF Ips
  <2>2. CASE h.ip \notin Ips(Taken(page))
    BY <2>2 DEF AddedHosts, Ips
  <2>3. QED
    BY <2>1, <2>2
<1>4. QED
  BY <1>2, <1>3 DEF Ips

LEMMA UpsertPageStep ==
  ASSUME MigrationInv, NEW p \in Caller, calls[p] # NoCall,
         UpsertPage(p, calls[p]), kv' = kv, honoured' = honoured
  PROVE  MigrationInv'
<1> DEFINE c == calls[p]
<1>1. PICK d : d = [c EXCEPT !.pc = "attempts", !.page = {}]
  OBVIOUS
<1>2. /\ c.pc = "upsert" /\ AddedHosts(c.page) /\ Answered(p, d)
      /\ marks' = marks /\ owed' = owed
  BY <1>1 DEF UpsertPage
<1>3. c \in Progress /\ CallSound(c)
  BY CallFacts
<1>4. /\ c.page \in SUBSET KvRow /\ d \in Progress
      /\ d.hostCursor = c.hostCursor /\ d.hostsDone = c.hostsDone
      /\ d.attemptCursor = c.attemptCursor /\ d.attemptsDone = c.attemptsDone
      /\ d.rules = c.rules
  BY <1>1, <1>3 DEF Progress
<1>5. /\ attempts' = attempts /\ exclusions' = exclusions /\ jobs' = jobs
      /\ Ips(hosts) \subseteq Ips(hosts')
      /\ \A k \in Taken(c.page) : k.ip \in Ips(hosts')
  BY <1>2, <1>4, AddedIps DEF AddedHosts
<1>6. PurgeInv'
  BY <1>2, <1>4, AddedHostsPurge DEF MigrationInv
<1>7. Frame
  BY <1>2, <1>5 DEF Frame
<1>8. \A ip \in owed'.hosts : HostInHand(c, ip) => CarriedHost(ip)'
  <2>1. SUFFICES ASSUME NEW ip \in owed'.hosts, HostInHand(c, ip)
                 PROVE  CarriedHost(ip)'
    OBVIOUS
  <2>2. PICK k \in c.page : k.ip = ip /\ k.asn = kv.hosts[ip]
    BY <2>1 DEF HostInHand
  <2>3. CASE ip \in kv.unfit \/ IsExcluded(exclusions, ip, kv.hosts[ip])
    BY <1>5, <2>3 DEF CarriedHost, IsExcluded
  <2>4. CASE ~(ip \in kv.unfit \/ IsExcluded(exclusions, ip, kv.hosts[ip]))
    BY <1>5, <2>2, <2>4 DEF CarriedHost, Taken
  <2>5. QED
    BY <2>3, <2>4
<1>9. \A ip : ~AttemptInHand(c, ip)
  BY <1>2 DEF AttemptInHand
<1>10. \A r \in d.rules : HasJob(r)
  BY <1>2, <1>3, <1>4 DEF CallSound
<1>11. CallSound(d)'
  BY <1>3, <1>4, <1>7, <1>8, <1>9, <1>10, MovedCall
<1>12. MarksSound' /\ marks' \in Marks
  BY <1>2, <1>7, MarksStay
<1>13. owed' \in [hosts : SUBSET Addr, attempts : SUBSET Addr]
  BY <1>2 DEF MigrationInv, MigrationTypeOK
<1>14. QED
  BY <1>2, <1>4, <1>6, <1>7, <1>11, <1>12, <1>13, AnsweredInvariant

LEMMA ImportPageStep ==
  ASSUME MigrationInv, NEW p \in Caller, calls[p] # NoCall,
         ImportPage(p, calls[p]), kv' = kv, honoured' = honoured
  PROVE  MigrationInv'
<1> DEFINE c == calls[p]
<1>1. PICK d : d = [c EXCEPT !.pc = "checkpoint", !.page = {}]
  OBVIOUS
<1>2. /\ c.pc = "import" /\ Answered(p, d) /\ marks' = marks /\ owed' = owed
      /\ hosts' = hosts /\ exclusions' = exclusions /\ jobs' = jobs
  BY <1>1 DEF ImportPage
<1>3. PICK rows \in SUBSET Taken(c.page) :
        /\ \A k \in Taken(c.page) \ rows : <<k.ip, Discovery>> \in Keys(attempts)
        /\ attempts' = {a \in attempts : ~(a.purpose = Discovery /\ a.ip \in Ips(rows))}
                         \cup {ImportedRow(k) : k \in rows}
  <2>1. PICK older \in SUBSET Taken(c.page) :
          attempts' =
            {a \in attempts : ~(a.purpose = Discovery /\
               a.ip \in Ips({k \in Taken(c.page) :
                 k \in older \/ <<k.ip, Discovery>> \notin Keys(attempts)}))}
            \cup {ImportedRow(k) : k \in {k \in Taken(c.page) :
                    k \in older \/ <<k.ip, Discovery>> \notin Keys(attempts)}}
    BY DEF ImportPage
  <2> DEFINE new == {k \in Taken(c.page) :
                 k \in older \/ <<k.ip, Discovery>> \notin Keys(attempts)}
  <2>2. \A k \in Taken(c.page) \ new : <<k.ip, Discovery>> \in Keys(attempts)
    OBVIOUS
  <2>3. new \in SUBSET Taken(c.page)
    OBVIOUS
  <2>4. QED
    BY <2>1, <2>2, <2>3
<1>4. c \in Progress /\ CallSound(c)
  BY CallFacts
<1>5. /\ c.page \in SUBSET KvRow /\ d \in Progress
      /\ d.hostCursor = c.hostCursor /\ d.hostsDone = c.hostsDone
      /\ d.attemptCursor = c.attemptCursor /\ d.attemptsDone = c.attemptsDone
      /\ d.rules = c.rules
  BY <1>1, <1>4 DEF Progress
<1>6. PurgeInv'
  <2>1. \A a \in attempts' :
          a \in attempts \/ \E k \in Taken(c.page) : a = ImportedRow(k)
    BY <1>3
  <2>2. QED
    BY <1>2, <1>5, <2>1, ImportedPurge DEF MigrationInv
<1>7. \A k \in rows : <<k.ip, Discovery>> \in Keys(attempts')
  <2>1. SUFFICES ASSUME NEW k \in rows PROVE <<k.ip, Discovery>> \in Keys(attempts')
    OBVIOUS
  <2>2. ImportedRow(k) \in attempts' /\ KeyOf(ImportedRow(k)) = <<k.ip, Discovery>>
    BY <1>3 DEF ImportedRow, KeyOf
  <2>3. QED
    BY <2>2 DEF Keys
<1>8. \A ip : <<ip, Discovery>> \in Keys(attempts) => <<ip, Discovery>> \in Keys(attempts')
  <2>1. SUFFICES ASSUME NEW ip, <<ip, Discovery>> \in Keys(attempts)
                 PROVE  <<ip, Discovery>> \in Keys(attempts')
    OBVIOUS
  <2>2. PICK a \in attempts : a.ip = ip /\ a.purpose = Discovery
    BY <2>1 DEF Keys, KeyOf
  <2>3. CASE ip \in Ips(rows)
    BY <1>7, <2>3 DEF Ips
  <2>4. CASE ip \notin Ips(rows)
    <3>1. a \in attempts' /\ KeyOf(a) = <<ip, Discovery>>
      BY <1>3, <2>2, <2>4 DEF KeyOf
    <3>2. QED
      BY <3>1 DEF Keys
  <2>5. QED
    BY <2>3, <2>4
<1>9. Frame
  BY <1>2, <1>8 DEF Frame
<1>10. \A ip \in owed'.attempts : AttemptInHand(c, ip) => CarriedAttempt(ip)'
  <2>1. SUFFICES ASSUME NEW ip \in owed'.attempts, AttemptInHand(c, ip)
                 PROVE  CarriedAttempt(ip)'
    OBVIOUS
  <2>2. PICK k \in c.page : k.ip = ip /\ k.asn = UnknownAsn
    BY <2>1 DEF AttemptInHand
  <2>3. CASE ip \in kv.unfit \/ IsExcluded(exclusions, ip, UnknownAsn)
    BY <1>2, <2>3 DEF CarriedAttempt, IsExcluded
  <2>4. CASE ~(ip \in kv.unfit \/ IsExcluded(exclusions, ip, UnknownAsn))
    <3>1. k \in Taken(c.page)
      BY <2>2, <2>4 DEF Taken
    <3>2. <<ip, Discovery>> \in Keys(attempts')
      BY <1>3, <1>7, <1>8, <2>2, <3>1
    <3>3. QED
      BY <3>2 DEF CarriedAttempt
  <2>5. QED
    BY <2>3, <2>4
<1>11. \A ip : ~HostInHand(c, ip)
  BY <1>2 DEF HostInHand
<1>12. \A r \in d.rules : HasJob(r)
  BY <1>2, <1>4, <1>5 DEF CallSound
<1>13. CallSound(d)'
  BY <1>4, <1>5, <1>9, <1>10, <1>11, <1>12, MovedCall
<1>14. MarksSound' /\ marks' \in Marks
  BY <1>2, <1>9, MarksStay
<1>15. owed' \in [hosts : SUBSET Addr, attempts : SUBSET Addr]
  BY <1>2 DEF MigrationInv, MigrationTypeOK
<1>16. QED
  BY <1>2, <1>5, <1>6, <1>9, <1>13, <1>14, <1>15, AnsweredInvariant

(* Nothing is in hand at a checkpoint, and a flag once set stays. *)
LEMMA CheckpointedMarks ==
  ASSUME MigrationInv, Frame, NEW p \in Caller, calls[p] # NoCall,
         calls[p].pc = "checkpoint", marks' = Checkpointed(calls[p])
  PROVE  MarksSound' /\ marks' \in Marks
<1> DEFINE c == calls[p]
<1>1. c \in Progress /\ CallSound(c)
  BY CallFacts
<1>2. PICK hc, hd, ac, ad : /\ hc = c.hostCursor /\ hd = (marks.hostsDone \/ c.hostsDone)
                            /\ ac = c.attemptCursor
                            /\ ad = (marks.attemptsDone \/ c.attemptsDone)
  OBVIOUS
<1>3. marks \in Marks
  BY DEF MigrationInv, MigrationTypeOK
<1>4. /\ marks' \in Marks
      /\ marks'.hostCursor = hc /\ marks'.hostsDone = hd
      /\ marks'.attemptCursor = ac /\ marks'.attemptsDone = ad
  BY <1>1, <1>2, <1>3 DEF Checkpointed, Marks, Progress
<1>5. CarriedTo(hc, hd, ac, ad)
  <2>1. \A ip \in owed.hosts : ip <= hc \/ hd => CarriedHost(ip)
    BY <1>1, <1>2 DEF CallSound, HostInHand, MigrationInv, MarksSound, CarriedTo
  <2>2. \A ip \in owed.attempts : ip <= ac \/ ad => CarriedAttempt(ip)
    BY <1>1, <1>2 DEF CallSound, AttemptInHand, MigrationInv, MarksSound, CarriedTo
  <2>3. QED
    BY <2>1, <2>2 DEF CarriedTo
<1>6. CarriedTo(hc, hd, ac, ad)'
  BY <1>5, FrameCarries
<1>7. QED
  BY <1>4, <1>6 DEF MarksSound, CarriedTo

LEMMA WriteMarksStep ==
  ASSUME MigrationInv, NEW p \in Caller, calls[p] # NoCall,
         WriteMarks(p, calls[p]), kv' = kv, honoured' = honoured
  PROVE  MigrationInv'
<1> DEFINE c == calls[p]
<1>1. /\ c.pc = "checkpoint" /\ marks' = Checkpointed(c)
      /\ UNCHANGED vars /\ owed' = owed
      /\ \/ Answered(p, [c EXCEPT !.pc = "reconcile"])
         \/ Answered(p, NoCall)
  BY DEF WriteMarks
<1>2. PICK d : d = [c EXCEPT !.pc = "reconcile"]
  OBVIOUS
<1>3. c \in Progress /\ CallSound(c)
  BY CallFacts
<1>4. /\ d \in Progress
      /\ d.hostCursor = c.hostCursor /\ d.hostsDone = c.hostsDone
      /\ d.attemptCursor = c.attemptCursor /\ d.attemptsDone = c.attemptsDone
      /\ d.rules = c.rules
  BY <1>2, <1>3 DEF Progress
<1>5. Frame /\ PurgeInv' /\ owed' \in [hosts : SUBSET Addr, attempts : SUBSET Addr]
  BY <1>1, StillFrame
<1>6. MarksSound' /\ marks' \in Marks
  BY <1>1, <1>5, CheckpointedMarks
<1>7. \A ip : ~HostInHand(c, ip) /\ ~AttemptInHand(c, ip)
  BY <1>1 DEF HostInHand, AttemptInHand
<1>8. \A r \in d.rules : HasJob(r)
  BY <1>1, <1>3, <1>4 DEF CallSound
<1>9. CallSound(d)'
  BY <1>3, <1>4, <1>5, <1>7, <1>8, MovedCall
<1>10. CASE Answered(p, [c EXCEPT !.pc = "reconcile"])
  BY <1>2, <1>4, <1>5, <1>6, <1>9, <1>10, AnsweredInvariant
<1>11. CASE Answered(p, NoCall)
  BY <1>5, <1>6, <1>11, AnsweredInvariant
<1>12. QED
  BY <1>1, <1>10, <1>11

LEMMA ReconcileStep ==
  ASSUME MigrationInv, NEW p \in Caller, calls[p] # NoCall,
         Reconcile(p, calls[p]), kv' = kv, honoured' = honoured
  PROVE  MigrationInv'
<1> DEFINE c == calls[p]
<1>1. c.pc = "reconcile"
  BY DEF Reconcile
<1>2. c \in Progress /\ CallSound(c)
  BY CallFacts
<1>3. CASE /\ Reconciled /\ Answered(p, [c EXCEPT !.pc = "health"])
           /\ UNCHANGED <<vars, owed>>
  <2>1. PICK d : d = [c EXCEPT !.pc = "health"]
    OBVIOUS
  <2>2. Answered(p, d)
    BY <1>3, <2>1
  <2>3. /\ d \in Progress
        /\ d.hostCursor = c.hostCursor /\ d.hostsDone = c.hostsDone
        /\ d.attemptCursor = c.attemptCursor /\ d.attemptsDone = c.attemptsDone
        /\ d.rules = c.rules
    BY <2>1, <1>2 DEF Progress
  <2>4. Frame /\ PurgeInv' /\ owed' \in [hosts : SUBSET Addr, attempts : SUBSET Addr]
    BY <1>3, StillFrame
  <2>5. MarksSound' /\ marks' \in Marks
    BY <1>3, <2>4, ReconciledMarks
  <2>6. \A ip : ~HostInHand(c, ip) /\ ~AttemptInHand(c, ip)
    BY <1>1 DEF HostInHand, AttemptInHand
  <2>7. \A r \in d.rules : HasJob(r)
    BY <1>1, <1>2, <2>3 DEF CallSound
  <2>8. CallSound(d)'
    BY <1>2, <2>3, <2>4, <2>6, <2>7, MovedCall
  <2>9. QED
    BY <2>2, <2>3, <2>4, <2>5, <2>8, AnsweredInvariant
<1>4. CASE /\ Next /\ owed' = StillOwed /\ Advance(p, NoCall) /\ marks' = marks
  <2>1. Frame /\ PurgeInv' /\ owed' \in [hosts : SUBSET Addr, attempts : SUBSET Addr]
    BY <1>4, JobFrame
  <2>2. MarksSound' /\ marks' \in Marks
    BY <1>4, <2>1, MarksStay
  <2>3. QED
    BY <1>4, <2>1, <2>2, CallInvariant DEF Advance
<1>5. QED
  BY <1>3, <1>4 DEF Reconcile, Next, Write

(* No job is pending, so every rule the call began with has been purged. *)
LEMMA CompleteStep ==
  ASSUME MigrationInv, NEW p \in Caller, calls[p] # NoCall,
         Complete(p, calls[p]), kv' = kv
  PROVE  MigrationInv'
<1> DEFINE c == calls[p]
<1>1. /\ c.pc = "complete" /\ ~Pending /\ marks' = [marks EXCEPT !.complete = TRUE]
      /\ honoured' = honoured \cup c.rules /\ calls' = [calls EXCEPT ![p] = NoCall]
      /\ UNCHANGED vars /\ owed' = owed
  BY DEF Complete, Verified, Advance
<1>2. c \in Progress /\ CallSound(c)
  BY CallFacts
<1>3. Frame /\ PurgeInv' /\ owed' \in [hosts : SUBSET Addr, attempts : SUBSET Addr]
  BY <1>1, StillFrame
<1>4. MarksSound' /\ marks' \in Marks
  <2>1. marks \in Marks
    BY DEF MigrationInv, MigrationTypeOK
  <2>2. /\ marks' \in Marks
        /\ marks'.hostCursor = marks.hostCursor /\ marks'.hostsDone = marks.hostsDone
        /\ marks'.attemptCursor = marks.attemptCursor
        /\ marks'.attemptsDone = marks.attemptsDone
    BY <1>1, <2>1 DEF Marks
  <2>3. \E hc, hd, ac, ad :
          /\ hc = marks.hostCursor /\ hd = marks.hostsDone
          /\ ac = marks.attemptCursor /\ ad = marks.attemptsDone
          /\ CarriedTo(hc, hd, ac, ad)'
    BY <1>3, FrameCarries DEF MigrationInv, MarksSound
  <2>4. QED
    BY <2>2, <2>3 DEF MarksSound, CarriedTo
<1>5. honoured' \subseteq Rule
  BY <1>1, <1>2 DEF MigrationInv, MigrationTypeOK, Progress
<1>6. HonouredComplete'
  <2>1. SUFFICES ASSUME NEW r \in honoured'
                 PROVE  \E j \in jobs' : j.rule = r /\ j.status = "complete"
    BY DEF HonouredComplete
  <2>2. CASE r \in honoured
    BY <1>3, <2>2 DEF MigrationInv, HonouredComplete, Frame
  <2>3. CASE r \in c.rules
    <3>1. PICK j \in jobs : j.rule = r
      BY <1>1, <1>2, <2>3 DEF CallSound, HasJob
    <3>2. j.status = "complete"
      BY <1>1 DEF Pending
    <3>3. QED
      BY <1>3, <3>1, <3>2 DEF Frame
  <2>4. QED
    BY <1>1, <2>1, <2>2, <2>3
<1>7. QED
  BY <1>1, <1>3, <1>4, <1>5, <1>6, CallKeeps

LEMMA MigrateStep ==
  ASSUME MigrationInv, NEW p \in Caller, Migrate(p)
  PROVE  MigrationInv'
<1>1. calls[p] # NoCall /\ kv' = kv
  BY DEF Migrate
<1>2. CASE Complete(p, calls[p])
  BY <1>1, <1>2, CompleteStep
<1>3. ASSUME honoured' = honoured
      PROVE  /\ ReadMirror(p, calls[p]) => MigrationInv'
             /\ AddRules(p, calls[p]) => MigrationInv'
             /\ ResumeJob(p, calls[p]) => MigrationInv'
             /\ ReadHosts(p, calls[p]) => MigrationInv'
             /\ UpsertPage(p, calls[p]) => MigrationInv'
             /\ ReadAttempts(p, calls[p]) => MigrationInv'
             /\ ImportPage(p, calls[p]) => MigrationInv'
             /\ WriteMarks(p, calls[p]) => MigrationInv'
             /\ Reconcile(p, calls[p]) => MigrationInv'
             /\ ReadHealth(p, calls[p]) => MigrationInv'
             /\ Abandon(p) => MigrationInv'
  BY <1>1, <1>3, ReadMirrorStep, AddRulesStep, ResumeJobStep, ReadHostsStep,
     UpsertPageStep, ReadAttemptsStep, ImportPageStep, WriteMarksStep,
     ReconcileStep, ReadHealthStep, AbandonStep
<1>4. QED
  BY <1>2, <1>3 DEF Migrate

-----------------------------------------------------------------------------
LEMMA MigrationInitial == MigrationInit => MigrationInv
<1> SUFFICES ASSUME MigrationInit PROVE MigrationInv
  OBVIOUS
<1>1. PurgeInv
  BY InitialInvariant DEF MigrationInit
<1>2. PICK w \in Worlds :
        /\ kv = [hosts |-> w.hosts, attempts |-> w.attempts, mirror |-> w.mirror,
                 rank |-> w.rank, unfit |-> w.unfit]
        /\ owed = [hosts |-> {ip \in Addr : w.hosts[ip] # NoRecord},
                   attempts |-> w.attempts]
  BY DEF MigrationInit
<1>3. w \in World
  OBVIOUS
<1>4. MigrationTypeOK
  BY <1>2, <1>3 DEF MigrationInit, MigrationTypeOK, Marks, World, Kv
<1>5. OwedHeld
  BY <1>2 DEF OwedHeld
<1>6. MarksSound
  <2>1. owed.hosts \subseteq Addr /\ owed.attempts \subseteq Addr
    BY <1>4 DEF MigrationTypeOK
  <2>2. \A ip \in Addr : ~(ip <= 0)
    <3>1. \A n \in Nat \ {0} : ~(n <= 0)
      OBVIOUS
    <3>2. QED
      BY <3>1
  <2>3. /\ marks.hostCursor = 0 /\ ~marks.hostsDone
        /\ marks.attemptCursor = 0 /\ ~marks.attemptsDone
    BY DEF MigrationInit
  <2>4. QED
    BY <2>1, <2>2, <2>3 DEF MarksSound, CarriedTo
<1>7. CallsSound /\ HonouredComplete
  BY DEF MigrationInit, CallsSound, HonouredComplete
<1>8. QED
  BY <1>1, <1>4, <1>5, <1>6, <1>7 DEF MigrationInv

LEMMA MigrationStutter == MigrationInv /\ UNCHANGED allVars => MigrationInv'
<1> SUFFICES ASSUME MigrationInv, UNCHANGED allVars PROVE MigrationInv'
  OBVIOUS
<1>1. /\ UNCHANGED vars /\ kv' = kv /\ owed' = owed /\ marks' = marks
      /\ calls' = calls /\ honoured' = honoured
  BY DEF allVars, moves
<1>2. Frame /\ PurgeInv' /\ owed' \in [hosts : SUBSET Addr, attempts : SUBSET Addr]
  BY <1>1, StillFrame
<1>3. MarksSound' /\ marks' \in Marks
  BY <1>1, <1>2, MarksStay
<1>4. OwedHeld'
  BY <1>1 DEF OwedHeld, MigrationInv
<1>5. QED
  BY <1>1, <1>2, <1>3, <1>4, BesideInvariant DEF MigrationInv, MigrationTypeOK

LEMMA MigrationStep == MigrationInv /\ [MigrationNext]_allVars => MigrationInv'
<1> SUFFICES ASSUME MigrationInv, [MigrationNext]_allVars PROVE MigrationInv'
  OBVIOUS
<1>1. CASE OtherWrite
  <2>1. Next /\ owed' = StillOwed /\ UNCHANGED <<kv, marks, calls, honoured>>
    BY <1>1 DEF OtherWrite, Next
  <2>2. QED
    BY <2>1, OtherStep
<1>2. ASSUME NEW r \in Rule, OtherResume(r)
      PROVE  MigrationInv'
  <2>1. Next /\ owed' = StillOwed /\ UNCHANGED <<kv, marks, calls, honoured>>
    BY <1>2 DEF OtherResume, Resumed, Next, Resume
  <2>2. QED
    BY <2>1, OtherStep
<1>3. CASE OtherReconciliation
  BY <1>3, OtherReconciliationStep
<1>4. ASSUME NEW ip \in Addr, KvForget(ip)
      PROVE  MigrationInv'
  BY <1>4, KvForgetStep
<1>5. ASSUME NEW ip \in Addr, NEW asn \in AnyAsn, KvRecord(ip, asn)
      PROVE  MigrationInv'
  BY <1>5, KvRecordStep
<1>6. ASSUME NEW p \in Caller, Start(p)
      PROVE  MigrationInv'
  BY <1>6, StartStep
<1>7. ASSUME NEW p \in Caller, Migrate(p)
      PROVE  MigrationInv'
  BY <1>7, MigrateStep
<1>8. CASE UNCHANGED allVars
  BY <1>8, MigrationStutter
<1>9. QED
  BY <1>1, <1>2, <1>3, <1>4, <1>5, <1>6, <1>7, <1>8 DEF MigrationNext

(* What the steps of the migration preserve: nothing owed lies behind a     *)
(* cursor, in the marks or in a call under way, without being in the object *)
(* or in the page that call has in hand. *)
THEOREM MigrationInvariant == MigrationSpec => []MigrationInv
BY MigrationInitial, MigrationStep, PTL DEF MigrationSpec

(* For any KV, page size and number of overlapping and failing calls, what  *)
(* migration_hosts_complete and migration_attempts_complete claim is true. *)
THEOREM MigrationCarriesOver == MigrationSpec => []CarriedOver
<1>1. MigrationInv => CarriedOver
  BY DEF MigrationInv, MarksSound, CarriedTo, CarriedOver
<1>2. QED
  BY <1>1, MigrationInvariant, PTL

(* A completed migration left, and leaves, nothing a rule of the mirror it  *)
(* began with covers. *)
THEOREM MigrationCompletesClean == MigrationSpec => []CompletedClean
<1>1. MigrationInv => CompletedClean
  BY DEF MigrationInv, HonouredComplete, PurgeInv, HostsSwept, AttemptsSwept,
         CompletedClean
<1>2. QED
  BY <1>1, MigrationInvariant, PTL

(* Pages of imported rows change nothing about the purge: its receipts stay  *)
(* true while a migration runs beside it. *)
THEOREM MigrationKeepsReceipts == MigrationSpec => []ReceiptSound
<1>1. MigrationInv => ReceiptSound
  BY DEF MigrationInv, PurgeInv, HostsSwept, AttemptsSwept, ReceiptSound
<1>2. QED
  BY <1>1, MigrationInvariant, PTL
=============================================================================
