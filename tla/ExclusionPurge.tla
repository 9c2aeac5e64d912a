---------------------------- MODULE ExclusionPurge ----------------------------
(***************************************************************************)
(* The resumable purge of the control plane: an exclusion becomes active   *)
(* together with its purge job, and the job walks hosts, attempts, hosts    *)
(* again and attempts again, one page per call, while the corpus keeps      *)
(* changing.  Each call is one transaction of the Durable Object, so each   *)
(* is one action.                                                           *)
(*                                                                         *)
(* Addresses are numbered in the text order of their canonical form, the   *)
(* purposes in that of their names; 0 stands for the empty cursor.         *)
(***************************************************************************)
EXTENDS ExclusionRules, Integers, FiniteSets

CONSTANTS
  AttemptPurpose,  \* the purposes an attempts row can carry, as numbers
  PageLimit        \* bound: the page sizes callers ask for

ASSUME PurgeAssumption ==
  /\ Addr \subseteq Nat \ {0}
  /\ AttemptPurpose \subseteq Nat
  /\ PageLimit \subseteq Nat \ {0}

VARIABLES
  hosts,       \* one row per address
  attempts,    \* one row per address and purpose
  exclusions,  \* active rules
  jobs         \* one purge job per rule that was ever added

vars == <<hosts, attempts, exclusions, jobs>>

-----------------------------------------------------------------------------
(* A host's ASN is kept twice: in the column rules are matched against, and *)
(* in record_json, which the next upsert falls back on.                    *)
Host == [ip : Addr, asn : AnyAsn, recordAsn : AnyAsn]

Attempt == [ip : Addr, purpose : AttemptPurpose, asn : AnyAsn]

AttemptKey == Addr \X AttemptPurpose

StartKey == <<0, 0>>

Status == {"hosts", "attempts", "verify_hosts", "verify_attempts", "complete"}

Job ==
  [rule : Rule, status : Status,
   hostCursor : Addr \cup {0}, attemptCursor : AttemptKey \cup {StartKey}]

KeyOf(a) == <<a.ip, a.purpose>>

Keys(rows) == {KeyOf(a) : a \in rows}

Ips(rows) == {h.ip : h \in rows}

KeyLess(k, m) == k[1] < m[1] \/ (k[1] = m[1] /\ k[2] < m[2])

Init ==
  /\ hosts = {}
  /\ attempts = {}
  /\ exclusions = {}
  /\ jobs = {}

-----------------------------------------------------------------------------
(* What else writes the two tables.                                        *)

(* The row an upsert leaves.  "AS-UNKNOWN" is a value like any other to the *)
(* merge of the records; only the column falls back on the older record.   *)
Merged(prior, ip, asn) ==
  [ip |-> ip,
   asn |-> IF asn = UnknownAsn THEN prior.recordAsn ELSE asn,
   recordAsn |-> asn]

(* Mutant: the late corpus write does not look at the rules. *)
UpsertHostUnchecked(ip, asn) ==
  LET prior == {h \in hosts : h.ip = ip}
  IN  /\ hosts' = (hosts \ prior) \cup
           (IF prior = {} THEN {[ip |-> ip, asn |-> asn, recordAsn |-> asn]}
            ELSE {Merged(h, ip, asn) : h \in prior})
      /\ UNCHANGED <<attempts, exclusions, jobs>>

UpsertHost(ip, asn) ==
  LET prior == {h \in hosts : h.ip = ip}
  IN  /\ ~IsExcluded(exclusions, ip, asn)
      /\ hosts' = (hosts \ prior) \cup
           (IF prior = {} THEN {[ip |-> ip, asn |-> asn, recordAsn |-> asn]}
            ELSE {Merged(h, ip, asn) : h \in prior})
      /\ UNCHANGED <<attempts, exclusions, jobs>>

(* Retirement, and expiry in runRetention. *)
RemoveHost(h) ==
  /\ hosts' = hosts \ {h}
  /\ UNCHANGED <<attempts, exclusions, jobs>>

(* Mutant: an attempt is recorded for an excluded address. *)
RecordAttemptUnchecked(ip, purpose, asn) ==
  /\ attempts' = {a \in attempts : ~(a.ip = ip /\ a.purpose = purpose)} \cup
       {[ip |-> ip, purpose |-> purpose, asn |-> asn]}
  /\ UNCHANGED <<hosts, exclusions, jobs>>

(* acquireLease and importAttempts, both behind the same check. *)
RecordAttempt(ip, purpose, asn) ==
  /\ ~IsExcluded(exclusions, ip, asn)
  /\ attempts' = {a \in attempts : ~(a.ip = ip /\ a.purpose = purpose)} \cup
       {[ip |-> ip, purpose |-> purpose, asn |-> asn]}
  /\ UNCHANGED <<hosts, exclusions, jobs>>

ForgetAttempt(a) ==
  /\ attempts' = attempts \ {a}
  /\ UNCHANGED <<hosts, exclusions, jobs>>

(* A rule filed again finds its job, complete or not, and starts no other. *)
AddExclusion(r) ==
  /\ exclusions' = exclusions \cup {r}
  /\ jobs' = jobs \cup
       (IF \E j \in jobs : j.rule = r THEN {}
        ELSE {[rule |-> r, status |-> "hosts", hostCursor |-> 0,
               attemptCursor |-> StartKey]})
  /\ UNCHANGED <<hosts, attempts>>

-----------------------------------------------------------------------------
(* resumePurgeTransaction.                                                 *)

Hits(r, rows) == {x \in rows : RuleMatches(r, x.ip, x.asn)}

(* ORDER BY ... LIMIT n over the rows past a cursor: the smallest n, or all *)
(* of them if there are fewer. *)
HostPage(page, cursor, n) ==
  LET rest == {h \in hosts : h.ip > cursor}
  IN  /\ page \subseteq rest
      /\ Cardinality(page) <= n
      /\ Cardinality(page) < n => page = rest
      /\ \A h \in page, k \in rest : k.ip <= h.ip => k \in page

AttemptPage(page, cursor, n) ==
  LET rest == {a \in attempts : KeyLess(cursor, KeyOf(a))}
  IN  /\ page \subseteq rest
      /\ Cardinality(page) <= n
      /\ Cardinality(page) < n => page = rest
      /\ \A a \in page, b \in rest : ~KeyLess(KeyOf(a), KeyOf(b)) => b \in page

(* Mutant: the checkpoint is not advanced. *)
HostCursorStuck(page, cursor, c) == c = cursor

(* The key of a page's last row, or the cursor as it was. *)
HostCursorAfter(page, cursor, c) ==
  IF page = {} THEN c = cursor
  ELSE c \in Ips(page) /\ \A k \in Ips(page) : k <= c

AttemptCursorAfter(page, cursor, c) ==
  IF page = {} THEN c = cursor
  ELSE c \in Keys(page) /\ \A k \in Keys(page) : ~KeyLess(c, k)

Checkpoint(j, status, hostCursor, attemptCursor) ==
  jobs' = (jobs \ {j}) \cup
    {[rule |-> j.rule, status |-> status,
      hostCursor |-> hostCursor, attemptCursor |-> attemptCursor]}

(* A row found by the verification of hosts starts the job over; the row    *)
(* itself is left to the deleting pass. *)
RestartHosts(j, n) ==
  /\ j.status = "verify_hosts"
  /\ \E page \in SUBSET hosts :
       HostPage(page, j.hostCursor, n) /\ Hits(j.rule, page) # {}
  /\ Checkpoint(j, "hosts", 0, j.attemptCursor)
  /\ UNCHANGED <<hosts, attempts, exclusions>>

PurgeHosts(j, n) ==
  /\ j.status \in {"hosts", "verify_hosts"}
  /\ \E page \in SUBSET hosts, c \in Addr \cup {0} :
       LET hits == Hits(j.rule, page)
           done == Cardinality(page) < n
       IN  /\ HostPage(page, j.hostCursor, n)
           /\ HostCursorAfter(page, j.hostCursor, c)
           /\ j.status = "verify_hosts" => hits = {}
           /\ hosts' = hosts \ hits
           /\ \/ /\ ~done
                 /\ Checkpoint(j, j.status, c, j.attemptCursor)
              \/ /\ done /\ j.status = "hosts"
                 /\ Checkpoint(j, "attempts", c, StartKey)
              \/ /\ done /\ j.status = "verify_hosts"
                 /\ Checkpoint(j, "verify_attempts", c, j.attemptCursor)
  /\ UNCHANGED <<attempts, exclusions>>

RestartAttempts(j, n) ==
  /\ j.status = "verify_attempts"
  /\ \E page \in SUBSET attempts :
       AttemptPage(page, j.attemptCursor, n) /\ Hits(j.rule, page) # {}
  /\ Checkpoint(j, "attempts", j.hostCursor, StartKey)
  /\ UNCHANGED <<hosts, attempts, exclusions>>

(* The second pass over hosts starts from the first row; the second pass    *)
(* over attempts starts where the first one ended. *)
PurgeAttempts(j, n) ==
  /\ j.status \in {"attempts", "verify_attempts"}
  /\ \E page \in SUBSET attempts, c \in AttemptKey \cup {StartKey} :
       LET hits == Hits(j.rule, page)
           done == Cardinality(page) < n
       IN  /\ AttemptPage(page, j.attemptCursor, n)
           /\ AttemptCursorAfter(page, j.attemptCursor, c)
           /\ j.status = "verify_attempts" => hits = {}
           /\ attempts' = attempts \ hits
           /\ \/ ~done /\ Checkpoint(j, j.status, j.hostCursor, c)
              \/ /\ done /\ j.status = "attempts"
                 /\ Checkpoint(j, "verify_hosts", 0, c)
              \/ /\ done /\ j.status = "verify_attempts"
                 /\ Checkpoint(j, "complete", j.hostCursor, c)
  /\ UNCHANGED <<hosts, exclusions>>

ResumePurge(j, n) ==
  \/ RestartHosts(j, n)
  \/ PurgeHosts(j, n)
  \/ RestartAttempts(j, n)
  \/ PurgeAttempts(j, n)

-----------------------------------------------------------------------------
Write ==
  \/ \E ip \in Addr, asn \in AnyAsn : UpsertHost(ip, asn)
  \/ \E h \in hosts : RemoveHost(h)
  \/ \E ip \in Addr, purpose \in AttemptPurpose, asn \in AnyAsn :
       RecordAttempt(ip, purpose, asn)
  \/ \E a \in attempts : ForgetAttempt(a)
  \/ \E r \in Rule : AddExclusion(r)

Resume == \E j \in jobs, n \in PageLimit : ResumePurge(j, n)

Next == Write \/ Resume

Spec == Init /\ [][Next]_vars

(* A job moves only when somebody calls: the request that filed the rule,   *)
(* one that files any rule later, or a maintainer; no alarm makes them. *)
Resumed(r) == \E j \in jobs, n \in PageLimit : j.rule = r /\ ResumePurge(j, n)

-----------------------------------------------------------------------------
(* Properties.                                                             *)

(* Rows and jobs have their types. *)
TypeOK ==
  /\ hosts \subseteq Host
  /\ attempts \subseteq Attempt
  /\ exclusions \subseteq Rule
  /\ jobs \subseteq Job

(* Whatever is written while the purge pages along, a job that reports      *)
(* verified_zero_matches has left no host and no attempt its rule matches,  *)
(* and none appears afterwards. *)
ReceiptSound ==
  \A j \in jobs : j.status = "complete" =>
    Hits(j.rule, hosts) = {} /\ Hits(j.rule, attempts) = {}

(* The inductive invariant behind it: no matching row lies behind a cursor, *)
(* because no row that enters the tables matches an active rule. *)
JobsActive == \A j \in jobs : j.rule \in exclusions

(* The record knows the column's ASN or none. *)
RecordsAgree == \A h \in hosts : h.recordAsn \in {h.asn, UnknownAsn}

HostsSwept ==
  \A j \in jobs : \A h \in Hits(j.rule, hosts) :
    j.status = "hosts" /\ h.ip > j.hostCursor

AttemptsSwept ==
  \A j \in jobs : \A a \in Hits(j.rule, attempts) :
    \/ j.status = "hosts"
    \/ j.status = "attempts" /\ KeyLess(j.attemptCursor, KeyOf(a))

PurgeInv ==
  /\ TypeOK
  /\ JobsActive
  /\ RecordsAgree
  /\ HostsSwept
  /\ AttemptsSwept

(* However the corpus changes under it, a purge that keeps being resumed    *)
(* finishes. *)
PurgeFinishes ==
  \A r \in Rule :
    r \in exclusions ~> \E j \in jobs : j.rule = r /\ j.status = "complete"
=============================================================================
