--------------------------- MODULE MaintenanceAlarm ---------------------------
(***************************************************************************)
(* Who makes the maintenance of CorpusAggregates happen: the one alarm of   *)
(* the Durable Object and the daily cron of the Worker.  Every deadline     *)
(* (the first host to expire, the next page of a recount, the next day's    *)
(* write budget) asks for the alarm, which keeps the earliest request.      *)
(*                                                                         *)
(* Times are relative: so many ticks from now.  Requests are queued on a    *)
(* promise chain, and each reads the alarm before it may set it.            *)
(***************************************************************************)
EXTENDS CorpusAggregates, Sequences

CONSTANTS
  Life,         \* bound: the longest a row's dates let it live, in ticks
  DayLength,    \* ticks of a UTC day
  AlarmPages,   \* pages an alarm recounts, and calls the cron makes: 20
  NoAlarm

VARIABLES
  due,        \* ticks until each host expires (of no meaning without a host)
  hour,       \* position in the UTC day
  alarm,      \* ticks until the alarm fires, or NoAlarm
  queue,      \* alarmScheduling: the requests not settled yet
  ringing,    \* pages the running alarm may still recount
  nightly,    \* is today's cron run still to come?
  cron,       \* calls the cron run may still make
  lost        \* history: a request went with the object, or put off an alarm already due

own == <<due, hour, alarm, queue, ringing, nightly, cron, lost>>
allVars == <<vars, own>>

ASSUME AlarmAssumption ==
  /\ {Life, DayLength, AlarmPages} \subseteq Nat \ {0}
  /\ NoAlarm \notin Nat

AlarmInit ==
  /\ Init /\ building = NoGeneration /\ used = 0
  /\ due = [ip \in Addr |-> 0]
  /\ hour = 0
  /\ alarm = NoAlarm
  /\ queue = <<>>
  /\ ringing = 0
  /\ nightly = TRUE
  /\ cron = 0
  /\ lost = FALSE

-----------------------------------------------------------------------------
(* Requests for the alarm.                                                 *)

AtLeastOne(n) == Max2(n, 1)

(* scheduleRetentionAlarm: the first expiry, if any host is left. *)
RetentionRequest ==
  LET held == {ip \in Addr : hosts'[ip] # NoHost}
  IN  IF held = {} THEN <<>> ELSE <<AtLeastOne(Min({due'[ip] : ip \in held}))>>

(* scheduleReconciliationAlarm: in a minute, or at 00:05 of the next day. *)
Soon == <<1>>
NextMorning == <<DayLength - hour>>

(* No event is delivered while the object waits for its storage.  A handler  *)
(* that runs already goes on: alarm() awaits its answers, not the chain. *)
Gate == queue = <<>>

(* scheduleEarliestAlarm appends to the promise chain. *)
Asked(at) == [at |-> at, read |-> FALSE, existing |-> NoAlarm]

Schedule(requests) ==
  queue' = queue \o [i \in DOMAIN requests |-> Asked(requests[i])]

(* Mutant: requests do not wait for each other. *)
ReadAlarmUnchained ==
  /\ \E i \in DOMAIN queue :
       /\ ~queue[i].read
       /\ queue' = [queue EXCEPT ![i].read = TRUE, ![i].existing = alarm]
  /\ UNCHANGED <<vars, due, hour, alarm, ringing, nightly, cron, lost>>

(* Each request of the chain waits for the one before it. *)
ReadAlarm ==
  /\ queue # <<>> /\ ~queue[1].read
  /\ queue' = [queue EXCEPT ![1].read = TRUE, ![1].existing = alarm]
  /\ UNCHANGED <<vars, due, hour, alarm, ringing, nightly, cron, lost>>

(* Mutant: the latest request wins. *)
KeptNever(request) == FALSE

(* An earlier alarm is kept if it lies ahead; one that is due but has not    *)
(* fired yet is put off. *)
Kept(request) ==
  /\ request.existing # NoAlarm /\ request.existing > 0
  /\ request.existing <= request.at

SetAlarm ==
  /\ queue # <<>> /\ queue[1].read
  /\ alarm' = IF Kept(queue[1]) THEN alarm ELSE queue[1].at
  /\ lost' = (lost \/ queue[1].existing = 0)
  /\ queue' = Tail(queue)
  /\ UNCHANGED <<vars, due, hour, ringing, nightly, cron>>

-----------------------------------------------------------------------------
(* Callers.                                                                *)

(* expires_at: what may be the time left to a row the caller hands in.  A    *)
(* row that never answered keeps its earliest sighting. *)
TimesLeft(ip) ==
  IF hosts[ip] = NoHost \/ hosts'[ip].seen > hosts[ip].seen THEN 0..Life
  ELSE IF hosts[ip].seen = 0 THEN 0..due[ip] ELSE {due[ip]}

Upsert(ips, batch) ==
  /\ Gate
  /\ UpsertHosts(ips, batch)
  /\ \E left \in [ips -> 0..Life] :
       /\ \A ip \in ips : left[ip] \in TimesLeft(ip)
       /\ due' = [ip \in Addr |-> IF ip \in ips THEN left[ip] ELSE due[ip]]
  /\ overdue' = {ip \in Addr : hosts'[ip] # NoHost /\ due'[ip] = 0}
  /\ Schedule(RetentionRequest)
  /\ UNCHANGED <<hour, alarm, ringing, nightly, cron, lost>>

Retire(ips) ==
  /\ Gate
  /\ RetireHosts(ips) \/ PurgePage(ips)
  /\ UNCHANGED own

File == Gate /\ FileExclusion /\ UNCHANGED own

(* The last purge to complete asks for the recount it has held up. *)
Complete ==
  /\ Gate
  /\ CompletePurges
  /\ Schedule(Soon)
  /\ UNCHANGED <<due, hour, alarm, ringing, nightly, cron, lost>>

-----------------------------------------------------------------------------
(* runRetention and runReconciliation, and what they ask of the alarm.     *)

(* Mutant: nothing is deleted while a purge is pending. *)
RetentionUnlessPending ==
  /\ \/ ~pending /\ \E n \in PageLimit : RunRetention(n)
     \/ (pending \/ overdue = {}) /\ UNCHANGED vars
  /\ Schedule(RetentionRequest)

Retention ==
  /\ \/ \E n \in PageLimit : RunRetention(n)
     \/ overdue = {} /\ UNCHANGED vars
  /\ Schedule(RetentionRequest)

(* Each alternative ends with whether the caller is to call again. *)
Page(n, again) ==
  \/ pending /\ ~again /\ UNCHANGED <<vars, queue>>
  \/ /\ ~pending /\ again
     /\ RunRetention(n)
     /\ Schedule(RetentionRequest \o Soon)
  \/ ~pending /\ overdue = {} /\ fresh /\ ~again /\ UNCHANGED <<vars, queue>>
  \/ (DeferAbort \/ DeferPage(n)) /\ ~again /\ Schedule(NextMorning)
  \/ /\ CommitPage(n)
     /\ again = (building' # NoGeneration)
     /\ Schedule(IF again THEN Soon ELSE RetentionRequest)

(* A maintainer may ask for a recount at any time. *)
Reconcile(n) ==
  /\ Gate
  /\ due' = due
  /\ \E again \in BOOLEAN : Page(n, again)
  /\ UNCHANGED <<hour, alarm, ringing, nightly, cron, lost>>

(* alarm(): the platform has taken the alarm; retention, then some pages. *)
Ring ==
  /\ Gate /\ alarm = 0 /\ ringing = 0
  /\ alarm' = NoAlarm
  /\ ringing' = AlarmPages
  /\ due' = due
  /\ Retention
  /\ UNCHANGED <<hour, nightly, cron, lost>>

AlarmPage(n) ==
  /\ ringing > 0
  /\ due' = due
  /\ \E again \in BOOLEAN :
       Page(n, again) /\ ringing' = IF again THEN ringing - 1 ELSE 0
  /\ UNCHANGED <<hour, alarm, nightly, cron, lost>>

(* scheduled: the same over HTTP, once a day. *)
Cron ==
  /\ Gate /\ nightly /\ cron = 0
  /\ nightly' = FALSE
  /\ cron' = AlarmPages
  /\ due' = due
  /\ Retention
  /\ UNCHANGED <<hour, alarm, ringing, lost>>

CronPage(n) ==
  /\ Gate /\ cron > 0
  /\ due' = due
  /\ \E again \in BOOLEAN :
       Page(n, again) /\ cron' = IF again THEN cron - 1 ELSE 0
  /\ UNCHANGED <<hour, alarm, ringing, nightly, lost>>

-----------------------------------------------------------------------------
(* Time passes once what is in flight has been settled: storage takes       *)
(* milliseconds.  A new day has a new write budget. *)
Tick ==
  /\ Gate /\ ringing = 0 /\ cron = 0
  /\ hour' = (hour + 1) % DayLength
  /\ nightly' = (nightly \/ hour' = 0)
  /\ used' = IF hour' = 0 THEN 0 ELSE used
  /\ due' = [ip \in Addr |-> Max2(due[ip] - 1, 0)]
  /\ overdue' = {ip \in Present : due'[ip] = 0}
  /\ alarm' = IF alarm = NoAlarm \/ alarm = 0 THEN alarm ELSE alarm - 1
  /\ UNCHANGED <<hosts, building, published, fresh, deferred, pending>>
  /\ UNCHANGED <<queue, ringing, cron, lost>>

(* The object is evicted: requests in flight are lost, tables are not.       *)
(* Bound: once, and not after an alarm was put off. *)
Restart ==
  /\ ~lost
  /\ ~Gate \/ ringing > 0
  /\ lost' = TRUE
  /\ queue' = <<>>
  /\ ringing' = 0
  /\ UNCHANGED <<vars, due, hour, alarm, nightly, cron>>

Scheduling == ReadAlarm \/ SetAlarm

AlarmNext ==
  \/ \E ips \in Batches : \E batch \in [ips -> Input] : Upsert(ips, batch)
  \/ \E ips \in Batches : ips \subseteq Present /\ Retire(ips)
  \/ File \/ Complete
  \/ Scheduling
  \/ Ring \/ Cron
  \/ \E n \in PageLimit : AlarmPage(n) \/ CronPage(n) \/ Reconcile(n)
  \/ Tick \/ Restart

AlarmSpec == AlarmInit /\ [][AlarmNext]_allVars

(* What the platform starts and carries on by itself. *)
Background == Ring \/ Cron \/ \E n \in PageLimit : AlarmPage(n) \/ CronPage(n)

(* Time passes, storage answers, and some of the background work goes on,    *)
(* whatever callers do meanwhile.  It may be the cron only: the alarm may    *)
(* be late for ever. *)
FairAlarmSpec ==
  /\ AlarmSpec
  /\ SF_allVars(Tick) /\ WF_allVars(Scheduling) /\ SF_allVars(Background)

-----------------------------------------------------------------------------
(* "A DO has one alarm. Preserve whichever pending deadline is earlier":     *)
(* however requests interleave with callers, the alarm and each other, once  *)
(* they are settled the alarm fires no later than the first host expires,    *)
(* and by the next day if a recount is unfinished.  The exceptions are a     *)
(* restart and a request settled while the alarm is due but has not fired.   *)
AlarmSet ==
  Gate /\ ringing = 0 /\ ~lost =>
    /\ \A ip \in Present : alarm # NoAlarm /\ alarm <= AtLeastOne(due[ip])
    /\ building # NoGeneration /\ ~pending => alarm # NoAlarm /\ alarm <= DayLength

(* The inductive invariant behind it.  Variables have their types. *)
Request == [at : Nat \ {0}, read : BOOLEAN, existing : Nat \cup {NoAlarm}]

AlarmTypeOK ==
  /\ due \in [Addr -> Nat] /\ hour \in 0..(DayLength - 1)
  /\ alarm \in Nat \cup {NoAlarm}
  /\ queue \in Seq(Request)
  /\ ringing \in Nat /\ cron \in Nat
  /\ nightly \in BOOLEAN /\ lost \in BOOLEAN

(* Nothing moves the alarm between a request's reading it and setting it. *)
QueueSound ==
  \A i \in DOMAIN queue : queue[i].read => i = 1 /\ queue[i].existing = alarm

(* The alarm fires within t, or will once the requests queued are settled. *)
Met(t) ==
  \/ alarm # NoAlarm /\ alarm <= t
  \/ \E i \in DOMAIN queue : queue[i].at <= t

(* A running alarm has taken the deadline of a recount; it owes a new one. *)
DeadlinesMet ==
  ~lost =>
    /\ \A ip \in Present : Met(AtLeastOne(due[ip]))
    /\ building # NoGeneration /\ ~pending /\ ringing = 0 => Met(DayLength)

(* The figures stay exact while the alarm and the cron drive the recount,   *)
(* and every deadline is met by the alarm or by a request under way. *)
AlarmInv == AggregatesInv /\ AlarmTypeOK /\ QueueSound /\ DeadlinesMet

(* Every host past its retention is deleted, restarts and budget or not. *)
ExpiryServed == overdue # {} ~> overdue = {}

(* Once no purge is left pending, and callers no longer hand in rows that    *)
(* are past their retention (each of which has to go before a page can be    *)
(* counted), the published figures are brought up to date again and again:   *)
(* neither the daily budget, nor hosts that expire as time passes, nor an    *)
(* alarm lost in a restart leaves a recount unfinished. *)
FiguresRefresh ==
  <>[]~pending /\ <>[][Tick \/ overdue' \subseteq overdue]_allVars => []<>fresh
=============================================================================
