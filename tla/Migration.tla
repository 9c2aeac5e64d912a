------------------------------- MODULE Migration -------------------------------
(***************************************************************************)
(* The move of the corpus from Workers KV into the Durable Object while    *)
(* both are in use: handleControlMigration, called again and again, carries *)
(* one page of hosts and one of attempts per call and keeps its cursors in  *)
(* the object.  Every call it makes may fail before or after its effect,    *)
(* the Worker may be gone at any time, and two calls may overlap.           *)
(*                                                                         *)
(* The object is that of ExclusionPurge, whose writers go on meanwhile.  KV *)
(* keeps, as far as the migration reads it, an ASN per host, the hosts that *)
(* were contacted, and the exclusions mirror.  Hosts are paged in the order *)
(* of their text, the order of Addr; attempts are sorted in that of the     *)
(* locale, which agrees with it for IPv4 but not for all IPv6 addresses.    *)
(***************************************************************************)
EXTENDS ExclusionPurge

CONSTANTS
  Caller,      \* concurrent migration calls
  Discovery,   \* the purpose of imported attempts
  KvPageSize,  \* hosts and attempts one call carries
  Worlds,      \* bound: what KV holds, and how many calls and other writes happen
  Endless, NoRecord, NoCall

KvHost == AnyAsn \cup {NoRecord}

(* rank: the place of each address in the order of the locale; unfit: keys   *)
(* of KV that the object does not take for public unicast addresses. *)
World == [hosts : [Addr -> KvHost], attempts : SUBSET Addr, mirror : SUBSET Rule,
          rank : [Addr -> Nat], unfit : SUBSET Addr,
          calls : Nat, writes : Nat \cup {Endless}]

ASSUME MigrationAssumption ==
  /\ Discovery \in AttemptPurpose
  /\ KvPageSize \in Nat \ {0}
  /\ NoRecord \notin AnyAsn
  /\ Endless \notin Nat
  /\ Worlds \subseteq World

VARIABLES
  kv,        \* discovery:hit:<ip>, the attempt ledger, the exclusions mirror
  marks,     \* the meta rows migration_*, and whether figures were ever published
  calls,     \* migration calls under way
  left,      \* bound: calls and other writes that may still happen
  owed,      \* history: what KV has held all along and the object has not deleted
  honoured   \* history: the rules KV held when a call that completed began

moves == <<kv, marks, calls, left, owed, honoured>>
allVars == <<vars, moves>>

Marks ==
  [hostCursor : Addr \cup {0}, attemptCursor : Addr \cup {0}, hostsDone : BOOLEAN,
   attemptsDone : BOOLEAN, published : BOOLEAN, complete : BOOLEAN]

Kv == [hosts : [Addr -> KvHost], attempts : SUBSET Addr, mirror : SUBSET Rule,
       rank : [Addr -> Nat], unfit : SUBSET Addr]

KvRow == [ip : Addr, asn : AnyAsn]

(* What /health may count. *)
Counts ==
  {<<Cardinality(H), Cardinality(A)>> : H \in SUBSET Host, A \in SUBSET Attempt}

Progress ==
  [pc : {"mirror", "rules", "resume", "hosts", "upsert", "attempts", "import",
         "checkpoint", "reconcile", "health", "complete"},
   hostCursor : Addr \cup {0}, attemptCursor : Addr \cup {0},
   hostsDone : BOOLEAN, attemptsDone : BOOLEAN,
   rules : SUBSET Rule, todo : SUBSET Rule, page : SUBSET KvRow, counts : Counts]

MigrationInit ==
  /\ Init
  /\ \E w \in Worlds :
       /\ kv = [hosts |-> w.hosts, attempts |-> w.attempts, mirror |-> w.mirror,
               rank |-> w.rank, unfit |-> w.unfit]
       /\ left = [calls |-> w.calls, writes |-> w.writes]
       /\ owed = [hosts |-> {ip \in Addr : w.hosts[ip] # NoRecord},
                  attempts |-> w.attempts]
  /\ marks = [hostCursor |-> 0, attemptCursor |-> 0, hostsDone |-> FALSE,
              attemptsDone |-> FALSE, published |-> FALSE, complete |-> FALSE]
  /\ calls = [p \in Caller |-> NoCall]
  /\ honoured = {}

-----------------------------------------------------------------------------
(* What goes on beside the migration.                                      *)

Spend(kind) ==
  /\ left[kind] # 0
  /\ left' = [left EXCEPT ![kind] = IF @ = Endless THEN @ ELSE @ - 1]

(* Bound: KV and the figures only move while calls are made or to come. *)
Migrating == left.calls # 0 \/ \E p \in Caller : calls[p] # NoCall

(* Rows the object gives up are owed no longer. *)
StillOwed ==
  [hosts |-> owed.hosts \ (Ips(hosts) \ Ips(hosts')),
   attempts |-> {ip \in owed.attempts :
     <<ip, Discovery>> \in Keys(attempts) => <<ip, Discovery>> \in Keys(attempts')}]

OtherWrite ==
  /\ Spend("writes") /\ Write
  /\ owed' = StillOwed
  /\ UNCHANGED <<kv, marks, calls, honoured>>

OtherResume(r) ==
  /\ Resumed(r)
  /\ owed' = StillOwed
  /\ UNCHANGED <<kv, marks, calls, left, honoured>>

(* KV forgets a host, with its record or only the note of its contact. *)
KvForget(ip) ==
  /\ Migrating /\ Spend("writes")
  /\ kv' \in {[kv EXCEPT !.hosts[ip] = NoRecord], [kv EXCEPT !.attempts = @ \ {ip}]}
  /\ owed' = [hosts |-> {a \in owed.hosts : kv'.hosts[a] # NoRecord},
              attempts |-> owed.attempts \cap kv'.attempts]
  /\ UNCHANGED <<vars, marks, calls, honoured>>

(* A host KV did not hold, recorded behind or ahead of the cursors. *)
KvRecord(ip, asn) ==
  /\ Migrating /\ Spend("writes")
  /\ kv.hosts[ip] = NoRecord
  /\ kv' = [kv EXCEPT !.hosts[ip] = asn, !.attempts = @ \cup {ip}]
  /\ UNCHANGED <<vars, marks, calls, owed, honoured>>

Pending == \E j \in jobs : j.status # "complete"

(* runReconciliation, by the cron or by the migration, publishes figures. *)
Reconciled == ~Pending /\ marks' = [marks EXCEPT !.published = TRUE]

OtherReconciliation ==
  /\ Migrating
  /\ ~marks.published /\ Reconciled
  /\ UNCHANGED <<vars, kv, calls, left, owed, honoured>>

-----------------------------------------------------------------------------
(* handleControlMigration.                                                 *)

Advance(p, c) == calls' = [calls EXCEPT ![p] = c]

(* The object has done its part; its answer arrives or is lost. *)
Answered(p, c) == Advance(p, c) \/ Advance(p, NoCall)

(* The first call reads how far earlier ones have come. *)
Start(p) ==
  /\ calls[p] = NoCall /\ Spend("calls")
  /\ Advance(p, [pc |-> "mirror", hostCursor |-> marks.hostCursor,
       attemptCursor |-> marks.attemptCursor, hostsDone |-> marks.hostsDone,
       attemptsDone |-> marks.attemptsDone, rules |-> {}, todo |-> {},
       page |-> {}, counts |-> <<0, 0>>])
  /\ UNCHANGED <<vars, kv, marks, owed, honoured>>

ReadMirror(p, c) ==
  /\ c.pc = "mirror"
  /\ Advance(p, [c EXCEPT !.pc = "rules", !.rules = kv.mirror])
  /\ UNCHANGED <<vars, marks, owed>>

NewJob(r) ==
  [rule |-> r, status |-> "hosts", hostCursor |-> 0, attemptCursor |-> StartKey]

(* addExclusions; every rule has its job, and those not complete are told. *)
AddedRules(R) ==
  /\ exclusions' = exclusions \cup R
  /\ jobs' = jobs \cup {NewJob(r) : r \in {s \in R : \A j \in jobs : j.rule # s}}
  /\ UNCHANGED <<hosts, attempts>>

Unfinished(R) ==
  {r \in R : \A j \in jobs : j.rule = r => j.status # "complete"}

(* Mutant: a failure to activate the rules is ignored. *)
AddRulesAnyway(p, c) ==
  /\ c.pc = "rules"
  /\ \/ AddedRules(c.rules) \/ UNCHANGED vars
  /\ Advance(p, [c EXCEPT !.pc = "resume", !.todo = Unfinished(c.rules)])
  /\ UNCHANGED <<marks, owed>>

AddRules(p, c) ==
  /\ c.pc = "rules"
  /\ AddedRules(c.rules)
  /\ Answered(p, [c EXCEPT !.pc = "resume", !.todo = Unfinished(c.rules)])
  /\ UNCHANGED <<marks, owed>>

(* One step for each of these jobs; whether it failed is not looked at. *)
ResumeJob(p, c) ==
  /\ c.pc = "resume"
  /\ \/ /\ c.todo = {}
        /\ Advance(p, [c EXCEPT !.pc = "hosts"])
        /\ UNCHANGED <<vars, owed>>
     \/ \E r \in c.todo :
          /\ \/ \E j \in jobs, n \in PageLimit : j.rule = r /\ ResumePurge(j, n)
             \/ UNCHANGED vars
          /\ owed' = StillOwed
          /\ Advance(p, [c EXCEPT !.todo = @ \ {r}])
  /\ UNCHANGED marks

Lexical == [a \in Addr |-> a]

(* Of the keys whose text is past the cursor, the first KvPageSize. *)
IsPage(page, keys, cursor, rank) ==
  LET rest == {a \in keys : a > cursor}
  IN  /\ page \subseteq rest
      /\ Cardinality(page) <= KvPageSize
      /\ Cardinality(page) < KvPageSize => page = rest
      /\ \A a \in page, b \in rest : rank[b] <= rank[a] => b \in page

(* The last key of a page, or the cursor as it was. *)
Past(page, cursor, c, rank) ==
  IF page = {} THEN c = cursor ELSE c \in page /\ \A a \in page : rank[a] <= rank[c]

Recorded == {ip \in Addr : kv.hosts[ip] # NoRecord}

(* migrationHostPage. *)
ReadHosts(p, c) ==
  /\ c.pc = "hosts"
  /\ \/ c.hostsDone /\ Advance(p, [c EXCEPT !.pc = "attempts"])
     \/ /\ ~c.hostsDone
        /\ \E page \in SUBSET Recorded, past \in Addr \cup {0} :
             /\ IsPage(page, Recorded, c.hostCursor, Lexical)
             /\ Past(page, c.hostCursor, past, Lexical)
             /\ Advance(p, [c EXCEPT !.pc = "upsert", !.hostCursor = past,
                  !.page = {[ip |-> a, asn |-> kv.hosts[a]] : a \in page},
                  !.hostsDone = \A a \in Recorded : a > c.hostCursor => a \in page])
  /\ UNCHANGED <<vars, marks, owed>>

(* Rows that do not normalise or that a rule covers are refused one by one; *)
(* the page counts as taken all the same.  Times always read: the ledger's  *)
(* writer drops those that do not, and a host without one is dated now. *)
Taken(page) ==
  {k \in page : k.ip \notin kv.unfit /\ ~IsExcluded(exclusions, k.ip, k.asn)}

Upserted(k) ==
  IF k.ip \in Ips(hosts)
  THEN {Merged(h, k.ip, k.asn) : h \in {g \in hosts : g.ip = k.ip}}
  ELSE {[ip |-> k.ip, asn |-> k.asn, recordAsn |-> k.asn]}

AddedHosts(page) ==
  /\ hosts' = {h \in hosts : h.ip \notin Ips(Taken(page))}
                \cup UNION {Upserted(k) : k \in Taken(page)}
  /\ UNCHANGED <<attempts, exclusions, jobs>>

(* Mutant: the cursor advances although the page was not taken. *)
UpsertPageAnyway(p, c) ==
  /\ c.pc = "upsert"
  /\ \/ AddedHosts(c.page) \/ UNCHANGED vars
  /\ Advance(p, [c EXCEPT !.pc = "attempts", !.page = {}])
  /\ UNCHANGED <<marks, owed>>

UpsertPage(p, c) ==
  /\ c.pc = "upsert"
  /\ AddedHosts(c.page)
  /\ Answered(p, [c EXCEPT !.pc = "attempts", !.page = {}])
  /\ UNCHANGED <<marks, owed>>

(* migrationAttemptPage: the ledger knows no system. *)
ReadAttempts(p, c) ==
  /\ c.pc = "attempts"
  /\ \/ c.attemptsDone /\ Advance(p, [c EXCEPT !.pc = "checkpoint"])
     \/ /\ ~c.attemptsDone
        /\ \E page \in SUBSET kv.attempts, past \in Addr \cup {0} :
             /\ IsPage(page, kv.attempts, c.attemptCursor, kv.rank)
             /\ Past(page, c.attemptCursor, past, kv.rank)
             /\ Advance(p, [c EXCEPT !.pc = "import", !.attemptCursor = past,
                  !.page = {[ip |-> a, asn |-> UnknownAsn] : a \in page},
                  !.attemptsDone =
                    \A a \in kv.attempts : a > c.attemptCursor => a \in page])
  /\ UNCHANGED <<vars, marks, owed>>

ImportedRow(k) == [ip |-> k.ip, purpose |-> Discovery, asn |-> k.asn]

(* importAttempts: of two attempts at a host the younger stays. *)
ImportPage(p, c) ==
  /\ c.pc = "import"
  /\ \E older \in SUBSET Taken(c.page) :
       LET rows == {k \in Taken(c.page) :
                      k \in older \/ <<k.ip, Discovery>> \notin Keys(attempts)}
       IN  attempts' = {a \in attempts : ~(a.purpose = Discovery /\ a.ip \in Ips(rows))}
                         \cup {ImportedRow(k) : k \in rows}
  /\ UNCHANGED <<hosts, exclusions, jobs>>
  /\ Answered(p, [c EXCEPT !.pc = "checkpoint", !.page = {}])
  /\ UNCHANGED <<marks, owed>>

(* Mutant: the end of the attempts is taken for that of the hosts. *)
CheckpointedEarly(c) ==
  [marks EXCEPT !.hostCursor = c.hostCursor, !.attemptCursor = c.attemptCursor,
                !.hostsDone = @ \/ c.attemptsDone, !.attemptsDone = @ \/ c.attemptsDone]

(* What is done stays done; a cursor may go back when calls overlap.  The   *)
(* call goes on for the figures if nothing is left to carry. *)
Checkpointed(c) ==
  [marks EXCEPT !.hostCursor = c.hostCursor, !.attemptCursor = c.attemptCursor,
                !.hostsDone = @ \/ c.hostsDone, !.attemptsDone = @ \/ c.attemptsDone]

WriteMarks(p, c) ==
  /\ c.pc = "checkpoint"
  /\ marks' = Checkpointed(c)
  /\ Answered(p, IF marks'.hostsDone /\ marks'.attemptsDone
                 THEN [c EXCEPT !.pc = "reconcile"] ELSE NoCall)
  /\ UNCHANGED <<vars, owed>>

(* Overdue hosts go first, and then there are no figures yet. *)
Reconcile(p, c) ==
  /\ c.pc = "reconcile"
  /\ \/ /\ Reconciled
        /\ Answered(p, [c EXCEPT !.pc = "health"])
        /\ UNCHANGED <<vars, owed>>
     \/ /\ \E h \in hosts : RemoveHost(h)
        /\ owed' = StillOwed
        /\ Advance(p, NoCall)
        /\ UNCHANGED marks

ReadHealth(p, c) ==
  /\ c.pc = "health"
  /\ Advance(p, IF Pending THEN NoCall
                ELSE [c EXCEPT !.pc = "complete",
                        !.counts = <<Cardinality(hosts), Cardinality(attempts)>>])
  /\ UNCHANGED <<vars, marks, owed>>

(* completeMigration: the numbers it expects are those of /health. *)
Verified(c) ==
  /\ marks.hostsDone /\ marks.attemptsDone /\ marks.published
  /\ ~Pending
  /\ c.counts = <<Cardinality(hosts), Cardinality(attempts)>>

Complete(p, c) ==
  /\ c.pc = "complete"
  /\ Verified(c)
  /\ marks' = [marks EXCEPT !.complete = TRUE]
  /\ honoured' = honoured \cup c.rules
  /\ Advance(p, NoCall)
  /\ UNCHANGED <<vars, owed>>

(* Refused, failed, or the Worker is gone. *)
Abandon(p) == Advance(p, NoCall) /\ UNCHANGED <<vars, marks, owed>>

Migrate(p) ==
  /\ calls[p] # NoCall
  /\ LET c == calls[p]
     IN  \/ /\ \/ ReadMirror(p, c) \/ AddRules(p, c) \/ ResumeJob(p, c)
               \/ ReadHosts(p, c) \/ UpsertPage(p, c)
               \/ ReadAttempts(p, c) \/ ImportPage(p, c)
               \/ WriteMarks(p, c) \/ Reconcile(p, c) \/ ReadHealth(p, c)
               \/ Abandon(p)
            /\ UNCHANGED honoured
         \/ Complete(p, c)
  /\ UNCHANGED <<kv, left>>

MigrationNext ==
  \/ OtherWrite \/ OtherReconciliation
  \/ \E r \in Rule : OtherResume(r)
  \/ \E ip \in Addr : KvForget(ip) \/ \E asn \in AnyAsn : KvRecord(ip, asn)
  \/ \E p \in Caller : Start(p) \/ Migrate(p)

MigrationSpec == MigrationInit /\ [][MigrationNext]_allVars

(* For every rule, calls that resume its job keep coming, migrations or not. *)
FairMigrationSpec == MigrationSpec /\ \A r \in Rule : WF_allVars(OtherResume(r))

-----------------------------------------------------------------------------
(* Properties.                                                             *)

CarriedHost(ip) ==
  \/ ip \in Ips(hosts)
  \/ ip \in kv.unfit
  \/ IsExcluded(exclusions, ip, kv.hosts[ip])

(* The page and the cursor disagree: an address sorted before this one has  *)
(* the greater text. *)
Overtaken(ip) == \E a \in Addr : a > ip /\ kv.rank[a] < kv.rank[ip]

CarriedAttempt(ip) ==
  \/ <<ip, Discovery>> \in Keys(attempts)
  \/ ip \in kv.unfit
  \/ IsExcluded(exclusions, ip, UnknownAsn)
  \/ Overtaken(ip)

(* However calls fail, repeat and overlap, once hosts (attempts) are marked  *)
(* complete the object has every host (every contact, with its cooldown) KV  *)
(* has held all along, unless it is no public address, a rule keeps it out,  *)
(* it was deleted since, or (attempts of IPv6 addresses only) the two orders *)
(* put it behind a cursor. *)
CarriedOver ==
  /\ marks.hostsDone => \A ip \in owed.hosts : CarriedHost(ip)
  /\ marks.attemptsDone => \A ip \in owed.attempts : CarriedAttempt(ip)

(* A completed migration has brought nothing into the object that a rule of  *)
(* the mirror it began with covers, and nothing comes in later. *)
CompletedClean ==
  \A r \in honoured : Hits(r, hosts) = {} /\ Hits(r, attempts) = {}

-----------------------------------------------------------------------------
(* The inductive invariant behind both. *)

MigrationTypeOK ==
  /\ kv \in Kv
  /\ marks \in Marks
  /\ calls \in [Caller -> Progress \cup {NoCall}]
  /\ owed \in [hosts : SUBSET Addr, attempts : SUBSET Addr]
  /\ honoured \subseteq Rule

(* What is owed is in KV. *)
OwedHeld ==
  /\ \A ip \in owed.hosts : kv.hosts[ip] # NoRecord
  /\ owed.attempts \subseteq kv.attempts

(* What lies behind a cursor has been carried over. *)
CarriedTo(hostCursor, hostsDone, attemptCursor, attemptsDone) ==
  /\ \A ip \in owed.hosts : ip <= hostCursor \/ hostsDone => CarriedHost(ip)
  /\ \A ip \in owed.attempts :
       ip <= attemptCursor \/ attemptsDone => CarriedAttempt(ip)

MarksSound ==
  CarriedTo(marks.hostCursor, marks.hostsDone, marks.attemptCursor, marks.attemptsDone)

(* A page in hand is ahead of what has been carried, and its rows are KV's. *)
HostInHand(c, ip) == c.pc = "upsert" /\ [ip |-> ip, asn |-> kv.hosts[ip]] \in c.page

AttemptInHand(c, ip) == c.pc = "import" /\ [ip |-> ip, asn |-> UnknownAsn] \in c.page

HasJob(r) == \E j \in jobs : j.rule = r

CallSound(c) ==
  /\ \A ip \in owed.hosts :
       ip <= c.hostCursor \/ c.hostsDone => CarriedHost(ip) \/ HostInHand(c, ip)
  /\ \A ip \in owed.attempts :
       ip <= c.attemptCursor \/ c.attemptsDone => CarriedAttempt(ip) \/ AttemptInHand(c, ip)
  /\ c.pc \notin {"mirror", "rules"} => \A r \in c.rules : HasJob(r)

CallsSound == \A p \in Caller : calls[p] # NoCall => CallSound(calls[p])

HonouredComplete ==
  \A r \in honoured : \E j \in jobs : j.rule = r /\ j.status = "complete"

MigrationInv ==
  /\ PurgeInv
  /\ MigrationTypeOK
  /\ OwedHeld
  /\ MarksSound
  /\ CallsSound
  /\ HonouredComplete
=============================================================================
