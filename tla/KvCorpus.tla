------------------------------ MODULE KvCorpus ------------------------------
(***************************************************************************)
(* The corpus kept in Workers KV (lib/discovery.js): one record per host,  *)
(* an index of the hosts, the counts the site publishes, and the cursors   *)
(* of the two jobs that walk the index.  KV has no transactions: every     *)
(* value is read, changed and written back with awaits between, while      *)
(* self-checks, ingests, retirements, purges, the nightly sweep and the    *)
(* recount overlap.  Beside it the ledger of the hosts contacted.          *)
(*                                                                         *)
(* A request is the list of what it still has to do.  A task that updates  *)
(* a value takes two steps, between which others move.  `geo` stands for   *)
(* the country, ASN, stack and country-by-stack maps, which the code keeps *)
(* in the same way; `corpus` is reverified_hosts.  So a label is the       *)
(* country of a host and its system, and a rule may name either a host or  *)
(* a label.                                                                *)
(***************************************************************************)
EXTENDS Integers, Sequences, FiniteSets

CONSTANTS
    Address,        \* hosts
    Label,          \* buckets of a count, Unlabelled among them
    Unlabelled,     \* "ZZ"
    Client,         \* callers of the Worker
    Cron,           \* the scheduled handler
    Legacy,         \* hosts that may have been recorded before there were markers
    Contacts,       \* what an ingest may carry: sequences of contacts
    Ruled,          \* hosts and systems somebody may ask to have removed
    ScanLimit,      \* SWEEP_MAX_SCAN
    DeleteLimit,    \* SWEEP_MAX_DELETE
    PageSize,       \* RECONCILE_MAX_SCAN
    AdminPage,      \* RECONCILE_ADMIN_MAX_SCAN
    MaxIndex,       \* MAX_INDEX
    MaxReads,       \* maxReads of a purge
    EventLimit      \* bound of the model: requests callers make, KV errors, legacy hosts

Request == Client \cup {Cron}

(* A contact is one exposed result; an unanswered one is a listing only.   *)
Contact == [a: Address, label: Label, answered: BOOLEAN]

ASSUME KvAssumption ==
    /\ IsFiniteSet(Address)
    /\ Unlabelled \in Label
    /\ Label \cap {"absent", "none", "legacy"} = {} /\ Address \cap Label = {}
    /\ Cron \notin Client
    /\ Legacy \subseteq Address
    /\ Ruled \subseteq Address \cup (Label \ {Unlabelled})
    /\ Contacts \subseteq Seq(Contact)
    /\ {ScanLimit, DeleteLimit, PageSize, AdminPage, MaxIndex, MaxReads} \subseteq Nat \ {0}
    /\ EventLimit \in Nat

VARIABLES
    records,    \* discovery:hit:<ip>
    kv,         \* the index, the counts, the sweep's cursor, the staged recount, the ledger;
                \* and whether the deployment has CONTROL_PLANE_READY, as production does
    overdue,    \* hosts silent for the retention period
    rules,      \* hosts and systems of the stored exclusions
    requests,   \* the handlers
    events,     \* requests callers made, KV errors and legacy hosts so far
    clean,      \* history: nothing has made the counts drift
    lossless    \* history: no two requests overlapped and none broke off

vars == <<records, kv, overdue, rules, requests, events, clean, lossless>>

-----------------------------------------------------------------------------
(* Records and markers.  `marker` is the bucket the record was counted in: *)
(* a label; "none" if it never was; "legacy" if it has no marker at all.   *)

NoRecord == [label |-> Unlabelled, marker |-> "absent"]
Record == [label: Label, marker: Label \cup {"none", "legacy"}]
Held == {a \in Address : records[a] # NoRecord}
Counted(r) == r.marker \in Label

Entries(s) == {s[i] : i \in DOMAIN s}

(* filter: the entries of s at some of its places, in their order: the kth *)
(* place is the one that k of them do not exceed.                          *)
Picked(s, places) ==
    LET rank(i) == Cardinality({j \in places : j <= i})
    IN  [k \in 1..Cardinality(places) |-> s[CHOOSE i \in places : rank(i) = k]]
Less(s, A) == Picked(s, {i \in DOMAIN s : s[i] \notin A})

Clamp(n) == IF n > 0 THEN n ELSE 0

(* slice(-MAX_INDEX): the oldest entries fall out of a full index.         *)
Newest(s) == SubSeq(s, Clamp(Len(s) - MaxIndex) + 1, Len(s))
Add(s, a) == IF a \in Entries(s) THEN s ELSE Append(s, a)

NoDelta == [l \in Label |-> 0]
One(l, n) == [NoDelta EXCEPT ![l] = n]

NoAddress == "start"

(* A recount keeps counts of what its pages found; here, what they found.  *)
LabelOf(a) == IF records[a] = NoRecord THEN "absent" ELSE records[a].label
NoStaged == [ips |-> <<>>, cursor |-> 0, found |-> [a \in Address |-> "absent"]]
Fresh(index) == [NoStaged EXCEPT !.ips = index]
FoundWith(st, l) == {a \in Address : st.found[a] = l}
FoundAny(st) == {a \in Address : st.found[a] # "absent"}

(* The records of some hosts, by their own fields and not by marker.       *)
Tally(A) == [l \in Label |-> Cardinality({a \in A : records[a].label = l})]

(* Every record is counted where it now belongs, and listed.               *)
MarkersAgree ==
    \A a \in Held : records[a].marker = records[a].label /\ a \in Entries(kv.index)

-----------------------------------------------------------------------------
(* Tasks.                                                                  *)

Do(op) == [op |-> op]
Touch(c) == [op |-> "contact", contact |-> c]
Put(a, r, seen) == [op |-> "put", a |-> a, record |-> r, seen |-> seen]
Update(key, change) == [op |-> "update", key |-> key, change |-> change]
Set(key, value) == [op |-> "set", key |-> key, value |-> value]
Publish(key, value, whole) ==
    [op |-> "publish", key |-> key, value |-> value, whole |-> whole]
Forget(a) == [op |-> "forget", a |-> a]
Attempted(hosts) == Update("attempts", [add |-> hosts, drop |-> {}])
DropAttempts(hosts) == Update("attempts", [add |-> {}, drop |-> hosts])

(* recordExposedHost with no batch: every count is written before the      *)
(* record that carries its marker, and the index last.                     *)
CountTasks(old, new) ==
    IF Counted(old)
    THEN <<Update("geo", One(old.marker, -1)), Update("geo", One(new.marker, 1))>>
    ELSE <<Update("geo", One(new.marker, 1)), Update("corpus", 1)>>

(* forgetRecord: the record goes first, then what its marker says it was   *)
(* counted in; without a marker the country it carries, and no host count. *)
ForgetTasks(a, r) ==
    CASE Counted(r) -> <<Put(a, NoRecord, TRUE),
                         Update("geo", One(r.marker, -1)), Update("corpus", -1)>>
      [] r.marker = "legacy" -> <<Put(a, NoRecord, TRUE), Update("geo", One(r.label, -1))>>
      [] OTHER -> <<Put(a, NoRecord, TRUE)>>

(* Mutant: hosts are appended although the index has them.                 *)
ChangedAppending(key, value, change) ==
    CASE key = "geo" -> [l \in Label |-> Clamp(value[l] + change[l])]
      [] key = "corpus" -> Clamp(value + change)
      [] key = "index" -> Newest(value \o change)
      [] key = "attempts" -> (value \cup change.add) \ change.drop

Changed(key, value, change) ==
    CASE key = "geo" -> [l \in Label |-> Clamp(value[l] + change[l])]
      [] key = "corpus" -> Clamp(value + change)
      [] key = "index" -> Newest(value \o Less(change, Entries(value)))
      [] key = "attempts" -> (value \cup change.add) \ change.drop

(* The index is written if it grows, the ledger unless nothing is dropped. *)
Skipped(key, value, change) ==
    \/ key = "index" /\ Entries(change) \subseteq Entries(value)
    \/ key = "attempts" /\ change.add = {} /\ value \cap change.drop = {}

-----------------------------------------------------------------------------
Nothing == <<>>
NoBatch == [open |-> FALSE, geo |-> NoDelta, rekeyed |-> FALSE, corpus |-> 0,
            adds |-> <<>>, hits |-> 0]
OpenBatch == [NoBatch EXCEPT !.open = TRUE]
NoWalk == [on |-> FALSE, base |-> <<>>, start |-> 1, pos |-> 1, kept |-> <<>>, deleted |-> 0]
Idle == [todo |-> <<>>, read |-> Nothing, batch |-> NoBatch, walk |-> NoWalk, alone |-> TRUE]

Active == {p \in Request : requests[p].todo # <<>>}
Head1(p) == Head(requests[p].todo)
Rest(p) == Tail(requests[p].todo)
At(p, op) == p \in Active /\ Head1(p).op = op

Init ==
    /\ \E L \in SUBSET Legacy :
         /\ records = [a \in Address |-> IF a \in L
                                        THEN [label |-> Unlabelled, marker |-> "legacy"]
                                        ELSE NoRecord]
         /\ \E s \in [1..Cardinality(L) -> L] : \E ready \in BOOLEAN :
              /\ Entries(s) = L
              /\ kv = [index |-> s, geo |-> One(Unlabelled, Cardinality(L)), corpus |-> 0,
                       cursor |-> NoAddress, staged |-> NoStaged, attempts |-> L,
                       ready |-> ready]
         /\ clean = (L = {})
         /\ events = Cardinality(L)
    /\ overdue = {}
    /\ rules = {}
    /\ requests = [p \in Request |-> Idle]
    /\ lossless = TRUE

-----------------------------------------------------------------------------
(* Requests begin.                                                         *)

Begin(p, todo, batch) ==
    /\ p \notin Active
    /\ requests' = [q \in Request |->
                      IF q = p THEN [Idle EXCEPT !.todo = todo, !.batch = batch,
                                                 !.alone = (Active = {})]
                               ELSE [requests[q] EXCEPT !.alone = FALSE]]
    /\ clean' = (clean /\ Active = {})
    /\ lossless' = (lossless /\ Active = {})

Call(p, todo, batch) ==
    /\ events < EventLimit
    /\ events' = events + 1
    /\ Begin(p, todo, batch)
    /\ UNCHANGED <<records, kv, overdue>>

(* handleCheck stores an exposed caller once the control plane has taken   *)
(* the host, which it refuses for an excluded one.  It needs the control   *)
(* plane to be ready.                                                      *)
StartCheck(p) ==
    kv.ready /\ \E a \in Address \ rules :
      /\ Call(p, <<Touch([a |-> a, label |-> Unlabelled, answered |-> TRUE])>>, NoBatch)
      /\ UNCHANGED rules

StartIngest(p) ==
    \E batch \in Contacts :
      /\ Call(p, <<[op |-> "screen", batch |-> batch]>>, OpenBatch)
      /\ UNCHANGED rules

StartRetire(p) ==
    \E a \in Address :
      /\ Call(p, <<[op |-> "forgetHosts", ips |-> <<a>>]>>, NoBatch)
      /\ UNCHANGED rules

(* handleAdminExclusions stores the rule, then purges what is excluded.    *)
StartPurge(p) ==
    \E a \in Ruled :
      /\ Call(p, <<Do("purge")>>, NoBatch)
      /\ rules' = rules \cup {a}

StartSweep(p) ==
    Call(p, <<Do("sweep")>>, NoBatch) /\ UNCHANGED rules

StartReconcile(p) ==
    Call(p, <<[op |-> "recount", limit |-> AdminPage]>>, NoBatch) /\ UNCHANGED rules

(* The cron: a sweep, then a recount page.  Once the control plane is      *)
(* ready the cron leaves KV alone and looks after the Durable Object only. *)
Scheduled ==
    /\ ~kv.ready
    /\ Begin(Cron, <<Do("sweep"), [op |-> "recount", limit |-> PageSize]>>, NoBatch)
    /\ UNCHANGED <<records, kv, overdue, rules, events>>

-----------------------------------------------------------------------------
(* Steps.  Continue replaces the first task by what it leads to.           *)

Continue(p, tasks) ==
    LET todo == tasks \o Rest(p)
    IN requests' = [requests EXCEPT
                      ![p] = IF todo = <<>> THEN Idle
                             ELSE [@ EXCEPT !.todo = todo, !.read = Nothing]]

(* ingestDiscoveryBatch: the stored exclusions are read once, before       *)
(* anything is written; what they leave enters the ledger, answered or     *)
(* not, and is then recorded into one batch.                               *)
Screen(p) ==
    /\ At(p, "screen")
    /\ LET given == Head1(p).batch
           results == Picked(given, {i \in DOMAIN given :
                                       given[i].a \notin rules /\ given[i].label \notin rules})
       IN Continue(p, (IF results = <<>> THEN <<>>
                       ELSE <<Attempted({c.a : c \in Entries(results)})>>)
                      \o [i \in DOMAIN results |-> Touch(results[i])] \o <<Do("flush")>>)
    /\ UNCHANGED <<records, kv, overdue, rules, events, clean, lossless>>

(* The host's record as a contact leaves it.  Only an answer counts it.    *)
Merged(old, c) ==
    [label |-> IF c.label # Unlabelled \/ old = NoRecord THEN c.label ELSE old.label,
     marker |-> CASE c.answered -> IF c.label # Unlabelled \/ old = NoRecord
                                   THEN c.label ELSE old.label
                  [] ~c.answered /\ Counted(old) -> old.marker
                  [] OTHER -> "none"]

(* Mutant: the bucket the host was counted in is not given back.           *)
RekeyedOneWay(geo, old, new) ==
    [l \in Label |-> geo[l] + (IF l = new.marker THEN 1 ELSE 0)]

(* What a batch stages for a host that moves to another bucket.            *)
Rekeyed(geo, old, new) ==
    [l \in Label |-> geo[l] + (IF l = new.marker THEN 1 ELSE 0)
                            - (IF l = old.marker THEN 1 ELSE 0)]

RecordExposedHost(p) ==
    /\ At(p, "contact")
    /\ LET c == Head1(p).contact
           old == records[c.a]
           new == Merged(old, c)
           moved == c.answered /\ old.marker # new.marker
           batch == requests[p].batch
       IN  IF batch.open
           THEN requests' =
                  [requests EXCEPT
                     ![p].todo = <<Put(c.a, new, c.answered)>> \o Rest(p),
                     ![p].batch =
                       [open |-> TRUE,
                        geo |-> IF moved THEN Rekeyed(batch.geo, old, new) ELSE batch.geo,
                        rekeyed |-> batch.rekeyed \/ moved,
                        corpus |-> batch.corpus
                                   + (IF c.answered /\ ~Counted(old) THEN 1 ELSE 0),
                        adds |-> Add(batch.adds, c.a),
                        hits |-> batch.hits + 1]]
           ELSE Continue(p, (IF moved THEN CountTasks(old, new) ELSE <<>>)
                            \o <<Put(c.a, new, c.answered), Update("index", <<c.a>>)>>)
    /\ UNCHANGED <<records, kv, overdue, rules, events, clean, lossless>>

(* flushWriteBatch: one write per value touched, even if what was staged   *)
(* cancels out; the host count is written whenever something was exposed,  *)
(* for its timestamp.                                                      *)
FlushWriteBatch(p) ==
    /\ At(p, "flush")
    /\ LET b == requests[p].batch
       IN Continue(p, (IF b.rekeyed THEN <<Update("geo", b.geo)>> ELSE <<>>)
                      \o (IF b.hits > 0 THEN <<Update("corpus", b.corpus)>> ELSE <<>>)
                      \o (IF b.adds # <<>> THEN <<Update("index", b.adds)>> ELSE <<>>))
    /\ UNCHANGED <<records, kv, overdue, rules, events, clean, lossless>>

(* A record is written or deleted.  Writing one after contact restarts its *)
(* retention; a listing keeps last_seen.                                   *)
PutRecord(p) ==
    /\ At(p, "put")
    /\ LET t == Head1(p)
       IN /\ records' = [records EXCEPT ![t.a] = t.record]
          /\ overdue' = IF t.seen THEN overdue \ {t.a} ELSE overdue
    /\ Continue(p, <<>>)
    /\ UNCHANGED <<kv, rules, events, clean, lossless>>

ReadKey(p) ==
    /\ At(p, "update")
    /\ requests[p].read = Nothing
    /\ requests' = [requests EXCEPT ![p].read = <<kv[Head1(p).key]>>]
    /\ UNCHANGED <<records, kv, overdue, rules, events, clean, lossless>>

WriteKey(p) ==
    /\ At(p, "update")
    /\ requests[p].read # Nothing
    /\ LET t == Head1(p)
           value == requests[p].read[1]
       IN kv' = IF Skipped(t.key, value, t.change) THEN kv
                ELSE [kv EXCEPT ![t.key] = Changed(t.key, value, t.change)]
    /\ Continue(p, <<>>)
    /\ UNCHANGED <<records, overdue, rules, events, clean, lossless>>

(* forgetHosts reads the index once, deletes what it holds of each target, *)
(* writes the index it read, less the targets, and drops their attempts.   *)
ForgetHosts(p) ==
    /\ At(p, "forgetHosts")
    /\ LET ips == Head1(p).ips
           kept == Less(kv.index, Entries(ips))
       IN Continue(p, [i \in DOMAIN ips |-> Forget(ips[i])]
                      \o (IF kept = kv.index THEN <<>> ELSE <<Set("index", kept)>>)
                      \o <<DropAttempts(Entries(ips))>>)
    /\ UNCHANGED <<records, kv, overdue, rules, events, clean, lossless>>

ForgetHost(p) ==
    /\ At(p, "forget")
    /\ LET a == Head1(p).a
       IN Continue(p, IF records[a] = NoRecord THEN <<>> ELSE ForgetTasks(a, records[a]))
    /\ UNCHANGED <<records, kv, overdue, rules, events, clean, lossless>>

FirstOf(s, n) == SubSeq(s, 1, IF Len(s) < n THEN Len(s) ELSE n)
Match(rest, doomed, entries, whole) ==
    [op |-> "match", rest |-> rest, doomed |-> doomed, entries |-> entries, whole |-> whole]

(* Mutant: the purge does not own up to the records it did not read.       *)
PurgeExcludedBlindly(p) ==
    /\ At(p, "purge")
    /\ LET doomed == Picked(kv.index, {i \in DOMAIN kv.index : kv.index[i] \in rules})
           others == IF rules \cap Label = {} THEN <<>> ELSE Less(kv.index, rules)
       IN Continue(p, <<Match(FirstOf(others, MaxReads), doomed, rules, TRUE)>>)
    /\ UNCHANGED <<records, kv, overdue, rules, events, clean, lossless>>

(* purgeExcluded matches the whole list of rules: hosts against the index, *)
(* systems against the records of the other hosts listed, so many of them. *)
PurgeExcluded(p) ==
    /\ At(p, "purge")
    /\ LET doomed == Picked(kv.index, {i \in DOMAIN kv.index : kv.index[i] \in rules})
           others == IF rules \cap Label = {} THEN <<>> ELSE Less(kv.index, rules)
       IN Continue(p, <<Match(FirstOf(others, MaxReads), doomed, rules, Len(others) <= MaxReads)>>)
    /\ UNCHANGED <<records, kv, overdue, rules, events, clean, lossless>>

MatchRecord(p) ==
    /\ At(p, "match")
    /\ LET t == Head1(p)
       IN Continue(p,
            IF t.rest = <<>>
            THEN (IF t.doomed = <<>> THEN <<>>
                  ELSE <<[op |-> "forgetHosts", ips |-> t.doomed]>>)
                 \o <<[op |-> "purgeAttempts", entries |-> t.entries \cap Address],
                      [op |-> "answer", whole |-> t.whole]>>
            ELSE <<Match(Tail(t.rest),
                         IF records[Head(t.rest)].label \in t.entries
                         THEN Add(t.doomed, Head(t.rest)) ELSE t.doomed,
                         t.entries, t.whole)>>)
    /\ UNCHANGED <<records, kv, overdue, rules, events, clean, lossless>>

(* The ledger, which knows no systems.                                     *)
PurgeAttempts(p) ==
    /\ At(p, "purgeAttempts")
    /\ LET stale == kv.attempts \cap Head1(p).entries
       IN Continue(p, IF stale = {} THEN <<>> ELSE <<DropAttempts(stale)>>)
    /\ UNCHANGED <<records, kv, overdue, rules, events, clean, lossless>>

(* The purge answers whether it has matched all there was: `complete`.     *)
AnswerPurge(p) ==
    /\ At(p, "answer")
    /\ Continue(p, <<>>)
    /\ UNCHANGED <<records, kv, overdue, rules, events, clean, lossless>>

SetKey(p) ==
    /\ At(p, "set")
    /\ kv' = [kv EXCEPT ![Head1(p).key] = Head1(p).value]
    /\ Continue(p, <<>>)
    /\ UNCHANGED <<records, overdue, rules, events, clean, lossless>>

(* A recount replaces a count, which takes drift back or brings it: it     *)
(* counts what is listed by the fields its pages found.  That is what the  *)
(* markers say if no host changed since (`whole`) and MarkersAgree.        *)
PublishKey(p) ==
    /\ At(p, "publish")
    /\ LET t == Head1(p)
       IN /\ kv' = [kv EXCEPT ![t.key] = t.value]
          /\ clean' = (/\ t.whole /\ MarkersAgree
                       /\ clean \/ (requests[p].alone /\ t.key = "geo"))
    /\ Continue(p, <<>>)
    /\ UNCHANGED <<records, overdue, rules, events, lossless>>

-----------------------------------------------------------------------------
(* sweepExpiredHosts: a window of the index from the cursor on.  `kept` is *)
(* what stays of it; whatever happens, the index is rewritten from what    *)
(* the walk has seen, and the cursor is the first host not reached.        *)

SweepStart(p) ==
    /\ At(p, "sweep")
    /\ IF kv.index = <<>>
       THEN Continue(p, <<Set("cursor", NoAddress)>>)
       ELSE requests' = [requests EXCEPT
                           ![p].todo = <<Do("resume")>> \o Rest(p),
                           ![p].walk = [NoWalk EXCEPT !.on = TRUE, !.base = kv.index]]
    /\ UNCHANGED <<records, kv, overdue, rules, events, clean, lossless>>

(* The cursor is an address; one that has gone restarts the walk.          *)
SweepResume(p) ==
    /\ At(p, "resume")
    /\ LET base == requests[p].walk.base
           at == {i \in DOMAIN base : base[i] = kv.cursor}
           start == IF at = {} THEN 1 ELSE CHOOSE i \in at : TRUE
       IN requests' = [requests EXCEPT
                         ![p].todo = <<[op |-> "scan", step |-> 0]>> \o Rest(p),
                         ![p].walk = [@ EXCEPT !.start = start, !.pos = start]]
    /\ UNCHANGED <<records, kv, overdue, rules, events, clean, lossless>>

(* Mutants: the host not reached is lost from the index; the cursor stays  *)
(* where the walk began.                                                   *)
SweepEndHasty(w, i) ==
    LET next == SubSeq(w.base, 1, w.start - 1) \o w.kept \o SubSeq(w.base, i + 1, Len(w.base))
    IN  (IF Len(next) # Len(w.base) THEN <<Set("index", next)>> ELSE <<>>)
        \o <<Set("cursor", IF i > Len(w.base) THEN NoAddress ELSE w.base[i])>>
SweepEndStuck(w, i) ==
    LET next == SubSeq(w.base, 1, w.start - 1) \o w.kept \o SubSeq(w.base, i, Len(w.base))
    IN  (IF Len(next) # Len(w.base) THEN <<Set("index", next)>> ELSE <<>>)
        \o <<Set("cursor", w.base[w.start])>>

(* The `finally` block of the sweep, when the walk has got to entry i.     *)
SweepEnd(w, i) ==
    LET next == SubSeq(w.base, 1, w.start - 1) \o w.kept \o SubSeq(w.base, i, Len(w.base))
    IN  (IF Len(next) # Len(w.base) THEN <<Set("index", next)>> ELSE <<>>)
        \o <<Set("cursor", IF i > Len(w.base) THEN NoAddress ELSE w.base[i])>>

SweepScan(p) ==
    /\ At(p, "scan")
    /\ LET w == requests[p].walk
           i == w.pos + Head1(p).step
           next == <<[op |-> "scan", step |-> 1]>>
       IN IF i > Len(w.base) \/ i - w.start >= ScanLimit \/ w.deleted >= DeleteLimit
          THEN requests' = [requests EXCEPT ![p].todo = SweepEnd(w, i) \o Rest(p),
                                            ![p].walk = NoWalk]
          ELSE LET a == w.base[i]
                   r == records[a]
               IN requests' =
                    [requests EXCEPT
                       ![p].todo = (IF r # NoRecord /\ a \in overdue
                                    THEN ForgetTasks(a, r) ELSE <<>>) \o next \o Rest(p),
                       ![p].walk = [w EXCEPT
                          !.pos = i,
                          !.kept = IF r # NoRecord /\ a \notin overdue
                                   THEN Append(@, a) ELSE @,
                          !.deleted = IF r # NoRecord /\ a \in overdue THEN @ + 1 ELSE @]]
    /\ UNCHANGED <<records, kv, overdue, rules, events, clean, lossless>>

-----------------------------------------------------------------------------
(* reconcileCorpusCounts: a page of the snapshot, staged until the last    *)
(* page replaces the counts.  A snapshot that is no longer the index is    *)
(* dropped.                                                                *)

RecountIndex(p) ==
    /\ At(p, "recount")
    /\ Continue(p, <<[op |-> "compare", limit |-> Head1(p).limit, index |-> kv.index]>>)
    /\ UNCHANGED <<records, kv, overdue, rules, events, clean, lossless>>

RecountResume(p) ==
    /\ At(p, "compare")
    /\ LET t == Head1(p)
       IN Continue(p, <<[op |-> "page", limit |-> t.limit,
                         staged |-> IF kv.staged.ips = t.index THEN kv.staged
                                    ELSE Fresh(t.index)]>>)
    /\ UNCHANGED <<records, kv, overdue, rules, events, clean, lossless>>

Page(st, limit) == {st.ips[i] : i \in (st.cursor + 1)..(st.cursor + limit) \cap DOMAIN st.ips}

RecountPage(p) ==
    /\ At(p, "page")
    /\ LET st == Head1(p).staged
           page == Page(st, Head1(p).limit)
           new == [st EXCEPT !.cursor = @ + Cardinality(page),
                             !.found = [a \in Address |-> IF a \in page THEN LabelOf(a)
                                                          ELSE st.found[a]]]
           whole == \A a \in Entries(st.ips) : new.found[a] = LabelOf(a)
       IN Continue(p, IF new.cursor < Len(st.ips) THEN <<Set("staged", new)>>
                      ELSE <<Publish("corpus", Cardinality(FoundAny(new)), whole),
                             Publish("geo", [l \in Label |-> Cardinality(FoundWith(new, l))],
                                     whole),
                             Set("staged", NoStaged)>>)
    /\ UNCHANGED <<records, kv, overdue, rules, events, clean, lossless>>

-----------------------------------------------------------------------------
(* A KV operation fails.  Inside the walk of a sweep the index and cursor  *)
(* are still written, and the recount that would follow is skipped; any    *)
(* other request, or those writes, just break off.                         *)

SweepThrows(p) ==
    /\ requests[p].walk.on
    /\ Head1(p).op # "resume"
    /\ events < EventLimit
    /\ events' = events + 1
    /\ LET w == requests[p].walk
           i == IF Head1(p).op = "scan" THEN w.pos + Head1(p).step ELSE w.pos
       IN requests' = [requests EXCEPT ![p].todo = SweepEnd(w, i), ![p].read = Nothing,
                                       ![p].walk = NoWalk]
    /\ clean' = FALSE
    /\ UNCHANGED <<records, kv, overdue, rules, lossless>>

BreaksOff(p) ==
    /\ p \in Active
    /\ events < EventLimit
    /\ events' = events + 1
    /\ requests' = [requests EXCEPT ![p] = Idle]
    /\ clean' = FALSE
    /\ lossless' = FALSE
    /\ UNCHANGED <<records, kv, overdue, rules>>

(* Silence for the retention period, and KV's own expiry a week later.     *)
Silent(a) ==
    /\ Active = {}
    /\ a \in Held \ overdue
    /\ overdue' = overdue \cup {a}
    /\ UNCHANGED <<records, kv, rules, requests, events, clean, lossless>>

Expire(a) ==
    /\ a \in Held \cap overdue
    /\ records' = [records EXCEPT ![a] = NoRecord]
    /\ overdue' = overdue \ {a}
    /\ requests' = [q \in Request |-> [requests[q] EXCEPT !.alone = FALSE]]
    /\ clean' = FALSE
    /\ UNCHANGED <<kv, rules, events, lossless>>

Start(p) == StartCheck(p) \/ StartIngest(p) \/ StartRetire(p) \/ StartPurge(p)
            \/ StartSweep(p) \/ StartReconcile(p)

Step(p) ==
    \/ Screen(p) \/ RecordExposedHost(p) \/ FlushWriteBatch(p) \/ PutRecord(p)
    \/ ReadKey(p) \/ WriteKey(p) \/ SetKey(p) \/ PublishKey(p)
    \/ ForgetHosts(p) \/ ForgetHost(p)
    \/ PurgeExcluded(p) \/ MatchRecord(p) \/ PurgeAttempts(p) \/ AnswerPurge(p)
    \/ SweepStart(p) \/ SweepResume(p) \/ SweepScan(p)
    \/ RecountIndex(p) \/ RecountResume(p) \/ RecountPage(p)

Next ==
    \/ \E p \in Client : Start(p)
    \/ Scheduled
    \/ \E p \in Request : Step(p) \/ SweepThrows(p) \/ BreaksOff(p)
    \/ \E a \in Address : Silent(a) \/ Expire(a)

Spec == Init /\ [][Next]_vars

(* Requests that have begun go on, and the cron comes back every night, to *)
(* do what it does for KV in this deployment.                              *)
FairSpec == Spec /\ WF_vars(Scheduled) /\ \A p \in Request : WF_vars(Step(p))

-----------------------------------------------------------------------------
(* What there may be in KV and in the hands of a request.                  *)

Index == {s \in Seq(Address) : \A i, j \in DOMAIN s : s[i] = s[j] => i = j}

Staged ==
    {st \in [ips : Index, cursor : Nat, found : [Address -> Label \cup {"absent"}]] :
       /\ st.cursor <= Len(st.ips)
       /\ FoundAny(st) \subseteq Entries(st.ips)}

Store == [index : Index, geo : [Label -> Nat], corpus : Nat,
          cursor : Address \cup {NoAddress}, staged : Staged, attempts : SUBSET Address,
          ready : BOOLEAN]

Batch == [open : BOOLEAN, geo : [Label -> Int], rekeyed : BOOLEAN, corpus : Int,
          adds : Index, hits : Nat]

Walk == [on : BOOLEAN, base : Index, start : Nat, pos : Nat, kept : Index, deleted : Nat]

Change(t) ==
    \/ t.key = "geo" /\ t.change \in [Label -> Int]
    \/ t.key = "corpus" /\ t.change \in Int
    \/ t.key = "index" /\ t.change \in Index
    \/ t.key = "attempts" /\ t.change \in [add : SUBSET Address, drop : SUBSET Address]

(* The tasks of requests that record hosts, that forget hosts, of a sweep  *)
(* and of a recount; a sweep of the cron is followed by its recount.       *)
Deleting(t) ==
    \/ t.op = "put" /\ t.a \in Address /\ t.record = NoRecord /\ t.seen = TRUE
    \/ t.op = "update" /\ t.key \in {"geo", "corpus"} /\ Change(t)

Recording(t) ==
    \/ t.op = "flush"
    \/ t.op = "screen" /\ t.batch \in Seq(Contact)
    \/ t.op = "contact" /\ t.contact \in Contact
    \/ /\ t.op = "put" /\ t.a \in Address /\ t.seen \in BOOLEAN
       /\ t.record \in [label : Label, marker : Label \cup {"none"}]
    \/ t.op = "update" /\ Change(t)

Forgetting(t) ==
    \/ Deleting(t)
    \/ t.op = "purge"
    \/ /\ t.op = "match" /\ t.rest \in Index /\ t.doomed \in Index
       /\ t.entries \subseteq Ruled /\ t.whole \in BOOLEAN
    \/ t.op = "forgetHosts" /\ t.ips \in Index
    \/ t.op = "forget" /\ t.a \in Address
    \/ t.op = "purgeAttempts" /\ t.entries \subseteq Address
    \/ t.op = "answer" /\ t.whole \in BOOLEAN
    \/ t.op = "update" /\ t.key = "attempts" /\ Change(t) /\ t.change.add = {}
    \/ t.op = "set" /\ t.key = "index" /\ t.value \in Index

Sweeping(t) ==
    \/ Deleting(t)
    \/ t.op \in {"sweep", "resume"}
    \/ t.op = "scan" /\ t.step \in {0, 1}
    \/ t.op = "set" /\ t.key = "index" /\ t.value \in Index
    \/ t.op = "set" /\ t.key = "cursor" /\ t.value \in Address \cup {NoAddress}
    \/ t.op = "recount" /\ t.limit \in Nat \ {0}

Recounting(t) ==
    \/ t.op = "recount" /\ t.limit \in Nat \ {0}
    \/ t.op = "compare" /\ t.limit \in Nat \ {0} /\ t.index \in Index
    \/ t.op = "page" /\ t.limit \in Nat \ {0} /\ t.staged \in Staged
    \/ t.op = "publish" /\ t.key = "corpus" /\ t.value \in Nat /\ t.whole \in BOOLEAN
    \/ t.op = "publish" /\ t.key = "geo" /\ t.value \in [Label -> Nat] /\ t.whole \in BOOLEAN
    \/ t.op = "set" /\ t.key = "staged" /\ t.value \in Staged

Kind == {"recording", "forgetting", "sweeping", "recounting"}
Fits(kind, t) ==
    CASE kind = "recording" -> Recording(t)
      [] kind = "forgetting" -> Forgetting(t)
      [] kind = "sweeping" -> Sweeping(t)
      [] kind = "recounting" -> Recounting(t)

Has(todo, ops) == \E t \in Entries(todo) : t.op \in ops

(* Tasks that change a record or a count.                                  *)
Loud(t) == t.op = "put" \/ (t.op = "update" /\ t.key \in {"geo", "corpus"})

(* The order of what is left: the changes of one record and its counts     *)
(* come first, an index is written after the hosts it leaves out are gone, *)
(* and some tasks are the last ones.                                       *)
MayPrecede(t, u) ==
    /\ t.op \notin {"flush", "screen", "purge", "match", "answer", "recount", "compare", "page"}
    /\ Loud(u) => Loud(t)
    /\ t.op = "set" => u.op \notin {"forget", "put", "resume", "scan"}
    /\ t.op = "forgetHosts" => u.op \in {"purgeAttempts", "answer"}
    /\ t.op \in {"sweep", "resume", "scan"} => u.op = "recount"

InOrder(todo) == \A i, j \in DOMAIN todo : i < j => MayPrecede(todo[i], todo[j])

Front(todo) == \A i \in DOMAIN todo : Loud(todo[i]) => i <= 3

Published(todo) ==
    Has(todo, {"publish"}) =>
      \/ todo = <<Publish("corpus", todo[1].value, todo[1].whole),
                  Publish("geo", todo[2].value, todo[1].whole), Set("staged", NoStaged)>>
      \/ todo = <<Publish("geo", todo[1].value, todo[1].whole), Set("staged", NoStaged)>>

TodoOK(todo) ==
    /\ todo \in Seq(Entries(todo))
    /\ \E kind \in Kind : \A t \in Entries(todo) : Fits(kind, t)
    /\ InOrder(todo) /\ Front(todo) /\ Published(todo)

(* What has been read is what the task at hand asked for.                  *)
ReadOK(q) ==
    q.read # Nothing =>
      /\ q.todo # <<>> /\ Head(q.todo).op = "update" /\ q.read = <<q.read[1]>>
      /\ q.read[1] \in CASE Head(q.todo).key = "geo" -> [Label -> Nat]
                         [] Head(q.todo).key = "corpus" -> Nat
                         [] Head(q.todo).key = "index" -> Index
                         [] OTHER -> SUBSET Address

BatchOK(q) ==
    /\ q.batch \in Batch
    /\ q.batch.hits = 0 => q.batch.corpus = 0
    /\ ~q.batch.rekeyed => q.batch.geo = NoDelta
    /\ Has(q.todo, {"flush"}) => q.batch.open
    /\ Has(q.todo, {"screen"}) => q.batch = OpenBatch
    /\ Has(q.todo, {"contact"}) /\ q.batch.open => Has(q.todo, {"flush"})

(* The first entry a walk has not settled.                                 *)
Reached(q) == q.walk.pos + (IF Head(q.todo).op = "scan" THEN Head(q.todo).step ELSE 0)

WalkOK(q) ==
    LET w == q.walk
    IN  /\ w \in Walk
        /\ w.on = Has(q.todo, {"resume", "scan"})
        /\ w.on => /\ w.start \in DOMAIN w.base /\ w.pos \in w.start..Len(w.base)
                   /\ Entries(w.kept) \subseteq {w.base[j] : j \in w.start..(Reached(q) - 1)}
                   /\ Has(q.todo, {"resume"}) => w.kept = <<>>

HandlerOK(q) ==
    /\ DOMAIN q = {"todo", "read", "batch", "walk", "alone"}
    /\ TodoOK(q.todo) /\ ReadOK(q) /\ BatchOK(q) /\ WalkOK(q)
    /\ q.alone \in BOOLEAN

TypeOK ==
    /\ records \in [Address -> Record \cup {NoRecord}]
    /\ kv \in Store
    /\ overdue \subseteq Held /\ rules \subseteq Ruled
    /\ DOMAIN requests = Request
    /\ \A p \in Request : HandlerOK(requests[p])
    /\ events \in Nat /\ clean \in BOOLEAN /\ lossless \in BOOLEAN

(* "Marking on contact heals", "a decrement lands on the bucket the        *)
(* increment hit": whatever complete requests follow one another, counts   *)
(* say what the markers of the records say, but for these causes.  Requests *)
(* overlapped or one broke off; KV expired a record; rows without a marker *)
(* were there; or a recount counted a record by fields its marker does not *)
(* agree with (a host only listed, or listed anew elsewhere), left out one *)
(* the full index had dropped, or met a host again that had changed since  *)
(* an earlier page counted it.  An undisturbed recount that meets none of  *)
(* these takes all of that back.                                           *)
DriftHasACause ==
    clean /\ Active = {} =>
      /\ kv.geo = [l \in Label |-> Cardinality({a \in Address : records[a].marker = l})]
      /\ kv.corpus = Cardinality({a \in Address : Counted(records[a])})

(* The sweep, the purge and the recount only see what the index lists.  As *)
(* long as requests follow one another, whatever a sweep meets, every      *)
(* record is listed and so no record of a host excluded by its address     *)
(* outlives a purge, nor the note of when it was last contacted.           *)
IndexComplete ==
    lossless /\ Active = {} /\ Cardinality(Address) <= MaxIndex =>
      /\ Held \subseteq Entries(kv.index)
      /\ (Held \cup kv.attempts) \cap rules = {}

(* "The caller must be able to tell 'nothing matched' from 'we ran out of  *)
(* budget before we knew'": a removal answered as complete has left no     *)
(* record of an excluded host or system, and no contact noted of a host.   *)
DeletionComplete ==
    \A p \in Request :
      /\ At(p, "answer") /\ Head1(p).whole
      /\ lossless /\ Cardinality(Address) <= MaxIndex
      => /\ \A a \in Held : a \notin rules /\ records[a].label \notin rules
         /\ kv.attempts \cap rules = {}

(* The invariant behind them.  First, who is alone, and that what such a   *)
(* request has read is still so.                                           *)
Undisturbed(p) == lossless \/ requests[p].alone

AloneInv ==
    /\ clean => \A p \in Active : requests[p].alone
    /\ \A p \in Active : Undisturbed(p) =>
         /\ Active = {p}
         /\ requests[p].read # Nothing => requests[p].read[1] = kv[Head1(p).key]

(* Counts and records as the changes at the head of a request will leave   *)
(* them, with its batch when it is to be written.                          *)
Now == [geo |-> kv.geo, corpus |-> kv.corpus, records |-> records]

Applied(t, s) ==
    CASE t.op = "put" -> [s EXCEPT !.records = [@ EXCEPT ![t.a] = t.record]]
      [] t.op = "update" /\ t.key = "geo" -> [s EXCEPT !.geo = Changed("geo", @, t.change)]
      [] t.op = "update" /\ t.key = "corpus" -> [s EXCEPT !.corpus = Changed("corpus", @, t.change)]
      [] OTHER -> s

AppliedAt(todo, i, s) == IF i \in DOMAIN todo THEN Applied(todo[i], s) ELSE s

After(todo, s) == AppliedAt(todo, 3, AppliedAt(todo, 2, AppliedAt(todo, 1, s)))

WithBatch(q, s) ==
    IF Has(q.todo, {"flush"})
    THEN [s EXCEPT !.geo = [l \in Label |-> @[l] + q.batch.geo[l]],
                   !.corpus = @ + q.batch.corpus]
    ELSE s

Balanced(s) ==
    /\ s.geo = [l \in Label |-> Cardinality({a \in Address : s.records[a].marker = l})]
    /\ s.corpus = Cardinality({a \in Address : Counted(s.records[a])})

BalanceInv ==
    clean =>
      /\ \A a \in Address : records[a].marker # "legacy"
      /\ Active = {} => Balanced(Now)
      /\ \A p \in Active : Balanced(WithBatch(requests[p], After(requests[p].todo, Now)))

(* A recount nobody disturbs: the index it has read is the index, and what *)
(* it will publish is what the index lists, if that is what it found.      *)
Listed == Entries(kv.index) \cap Held

RecountOf(q) ==
    /\ \A t \in Entries(q.todo) :
         /\ t.op = "compare" => t.index = kv.index
         /\ t.op = "page" => t.staged.ips = kv.index
         /\ t.op = "publish" /\ t.whole =>
              t.value = IF t.key = "geo" THEN Tally(Listed) ELSE Cardinality(Listed)
    /\ q.todo # <<>> /\ Head(q.todo).op = "publish" /\ Head(q.todo).key = "geo"
         /\ Head(q.todo).whole => kv.corpus = Cardinality(Listed)

RecountInv == \A p \in Active : requests[p].alone => RecountOf(requests[p])

(* Nothing is lost between requests that follow one another: what is held  *)
(* is listed or about to be, an index about to be written lists what will  *)
(* be left, and so does what a walk has kept with what it has not reached. *)
(* A walk meets no host that a rule covers: the purge has been before it.  *)
Arriving(todo) == {t.a : t \in {u \in Entries(todo) : u.op = "put" /\ u.record # NoRecord}}
Leaving(todo) ==
    {t.a : t \in {u \in Entries(todo) : u.op = "forget" \/ (u.op = "put" /\ u.record = NoRecord)}}
Coming(q) ==
    (UNION {Entries(t.change) : t \in {u \in Entries(q.todo) : u.op = "update" /\ u.key = "index"}})
    \cup (IF Has(q.todo, {"flush"}) THEN Entries(q.batch.adds) ELSE {})

ListedInv(q) ==
    /\ Held \cup Arriving(q.todo) \subseteq Entries(kv.index) \cup Coming(q)
    /\ \A t \in Entries(q.todo) : t.op = "set" /\ t.key = "index" =>
         Held \subseteq Entries(t.value) \cup Leaving(q.todo)
    /\ q.walk.on =>
         /\ q.walk.base = kv.index
         /\ Held \cap rules = {}
         /\ \A j \in q.walk.start..(q.walk.pos - 1) :
              q.walk.base[j] \in Held => q.walk.base[j] \in Entries(q.walk.kept)
         /\ \A t \in Entries(q.todo) : t.op = "scan" /\ t.step = 1 =>
              q.walk.base[q.walk.pos] \notin Held \/
                q.walk.base[q.walk.pos] \in Entries(q.walk.kept) \cup Leaving(q.todo)

(* What a rule covers is still to be removed, and nothing brings it back.  *)
Removes(t, a) ==
    \/ t.op = "purge"
    \/ t.op = "match" /\ a \in Entries(t.doomed)
    \/ t.op = "forgetHosts" /\ a \in Entries(t.ips)
    \/ t.op = "forget" /\ t.a = a
    \/ t.op = "put" /\ t.a = a /\ t.record = NoRecord
Drops(t, a) ==
    \/ t.op = "purge"
    \/ t.op = "match" /\ a \in t.entries
    \/ t.op = "purgeAttempts" /\ a \in t.entries
    \/ t.op = "update" /\ t.key = "attempts" /\ a \in t.change.drop
Brings(t, a) ==
    \/ t.op = "contact" /\ t.contact.a = a
    \/ t.op = "put" /\ t.a = a /\ t.record # NoRecord
    \/ t.op = "update" /\ t.key = "attempts" /\ a \in t.change.add

RulesInv(q) ==
    \A a \in rules :
      /\ a \in Held => \E t \in Entries(q.todo) : Removes(t, a)
      /\ a \in kv.attempts => \E t \in Entries(q.todo) : Drops(t, a)
      /\ \A t \in Entries(q.todo) : ~Brings(t, a)

LosslessInv ==
    lossless /\ Cardinality(Address) <= MaxIndex =>
      /\ Active = {} => /\ Held \subseteq Entries(kv.index)
                        /\ (Held \cup kv.attempts) \cap rules = {}
      /\ \A p \in Active : ListedInv(requests[p]) /\ RulesInv(requests[p])

(* All that holds between any two steps: who works undisturbed leaves the  *)
(* counts, index and rules as the records say, and what other requests     *)
(* leave is at least of the right kind.                                    *)
CorpusInv == TypeOK /\ AloneInv /\ BalanceInv /\ RecountInv /\ LosslessInv

(* What a rule names a system of is in the hands of a purge that will      *)
(* answer that it was complete.                                            *)
WholeInv(q) ==
    \A t \in Entries(q.todo) :
      /\ t.op = "match" => t.entries = rules
      /\ t.op = "match" /\ t.whole =>
           \A a \in Held : records[a].label \in rules =>
             a \in Entries(t.doomed) \cup Entries(t.rest)
      /\ t.op = "answer" /\ t.whole =>
           \A a \in Held : records[a].label \in rules =>
             \E u \in Entries(q.todo) : Removes(u, a)

RemovalInv ==
    lossless /\ Cardinality(Address) <= MaxIndex =>
      \A p \in Active : WholeInv(requests[p])

(* Whatever happened to the corpus, once callers leave it alone the nights *)
(* that follow delete what is overdue, drop the index entries without a    *)
(* record and, if no host is left that was only listed, publish the counts *)
(* of the records.  So it is where the cron keeps KV: with a control plane *)
(* that is ready, it does not.                                             *)
Settled ==
    /\ Entries(kv.index) \subseteq Held \ overdue
    /\ (\A a \in Entries(kv.index) : records[a].marker # "none") =>
         kv.geo = Tally(Entries(kv.index)) /\ kv.corpus = Len(kv.index)

Settles == ~kv.ready => <>[]Settled

=============================================================================
