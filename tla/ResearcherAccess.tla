--------------------------- MODULE ResearcherAccess ---------------------------
(***************************************************************************)
(* Who may read the corpus, and what of it they are shown: the researcher  *)
(* allowlist in KV, written by handleAdminAllowlist, and the lab routes,   *)
(* which match an Access identity against it and answer from the corpus,   *)
(* cached per isolate, less what the exclusions cover.                     *)
(*                                                                         *)
(* A step is one KV operation; between two of them anything else may run.  *)
(* An identity is the email the identity provider signed (JWT verification *)
(* is external).  All lab routes differ in what they make of the rows they *)
(* select; here an answer shows some of the rows that are left.            *)
(***************************************************************************)
EXTENDS Integers

CONSTANTS
  Login,       \* GitHub logins
  Email,       \* sign-in emails
  Host,        \* addresses the corpus may hold
  Admin,       \* concurrent allowlist calls
  Session,     \* concurrent lab requests of one isolate
  Ttl,         \* LAB_CACHE_TTL_SEC
  Budgets,     \* bound: how many allowlist calls, lab requests and changes
               \* (to the corpus, the rules, the time) a run may hold
  NoRow, NoCall, NoLogin, NoCache

(* allowKey never maps a login and an email to one key: a login has no "@". *)
ASSUME AccessAssumption ==
  /\ Login \cap Email = {}
  /\ NoLogin \notin Login
  /\ NoRow \notin [login : Login, aliases : SUBSET Email,
                   active : BOOLEAN, alias : BOOLEAN]
  /\ Ttl \in Nat \ {0}
  /\ Budgets \subseteq [{"calls", "requests", "changes"} -> Nat]

VARIABLES
  store,      \* allowlist:github:<key>
  admin,      \* allowlist calls under way
  records,    \* hosts the corpus holds
  rules,      \* hosts the exclusions mirror covers; a rule is never removed
  cache,      \* corpusCache
  lab,        \* lab requests under way
  now, events,
  decided,    \* history: who was approved with which email, by the answers
  clean,      \* history: no allowlist call has overlapped another or broken off
  revoked,    \* history: revoked, and not being approved since
  gone        \* history: when each host was last deleted

listVars == <<store, admin, decided, clean, revoked>>
corpusVars == <<records, rules, gone, now>>
vars == <<listVars, corpusVars, cache, lab, events>>

Key == Login \cup Email

(* The row of an alias is a copy of its researcher's, with alias_of set to   *)
(* row.login. *)
Row == [login : Login, aliases : SUBSET Email, active : BOOLEAN, alias : BOOLEAN]

AdminCall ==
  [op : {"approve", "revoke"}, user : Key, aliases : SUBSET Email,
   pc : {"resolve", "read", "check", "write"}, existing : Row \cup {NoRow},
   todo : SUBSET Email, closing : SUBSET Email,
   held : (Email \X Row) \cup {NoRow}]

(* No call is not a call. *)
ASSUME CallAssumption == NoCall \notin AdminCall

Request ==
  [who : Email, route : {"me", "corpus", "host"}, began : Nat,
   out : SUBSET Login, covered : SUBSET Host,
   pc : {"row", "primary", "rules", "cache", "load", "host", "answer"},
   login : Login \cup {NoLogin}, rules : SUBSET Host, at : Nat,
   todo : SUBSET Host, rows : SUBSET Host]

Kind == {"calls", "requests", "changes"}

Init ==
  /\ \E A \in SUBSET Email, u \in Login :
       /\ decided = {u} \X A
       /\ store = [k \in Key |->
            IF A # {} /\ (k = u \/ k \in A)
            THEN [login |-> u, aliases |-> A, active |-> TRUE, alias |-> k # u]
            ELSE NoRow]
  /\ admin = [p \in Admin |-> NoCall]
  /\ records = Host /\ rules = {}
  /\ cache = NoCache
  /\ lab = [s \in Session |-> NoCall]
  /\ now = 0 /\ events = [kind \in Kind |-> 0]
  /\ clean = TRUE
  /\ revoked = {}
  /\ gone = [h \in Host |-> 0]

Event(kind) ==
  /\ events' = [events EXCEPT ![kind] = @ + 1]
  /\ \E limits \in Budgets : \A k \in Kind : events'[k] <= limits[k]

-----------------------------------------------------------------------------
(* approveResearcher and revokeResearcher.                                 *)

Idle == \A p \in Admin : admin[p] = NoCall

Call(op, user, aliases, pc) ==
  [op |-> op, user |-> user, aliases |-> aliases, pc |-> pc,
   existing |-> NoRow, todo |-> {}, closing |-> {}, held |-> NoRow]

Proceed(p, r) == admin' = [admin EXCEPT ![p] = r]

StartApprove(p, u, aliases) ==
  /\ Event("calls") /\ admin[p] = NoCall
  /\ Proceed(p, Call("approve", u, aliases, "read"))
  /\ clean' = (clean /\ Idle)
  /\ revoked' = revoked \ {u}
  /\ lab' = [s \in Session |->
       IF lab[s] = NoCall THEN NoCall ELSE [lab[s] EXCEPT !.out = @ \ {u}]]
  /\ UNCHANGED <<store, decided, corpusVars, cache>>

(* A researcher is revoked by login or by any email ever approved. *)
StartRevoke(p, key) ==
  /\ Event("calls") /\ admin[p] = NoCall
  /\ Proceed(p, Call("revoke", key, {}, "resolve"))
  /\ clean' = (clean /\ Idle)
  /\ UNCHANGED <<store, decided, revoked, corpusVars, cache, lab>>

(* The call fails or is answered with an error: nothing is taken back. *)
Abandon(p) ==
  /\ Proceed(p, NoCall)
  /\ UNCHANGED <<store, decided, revoked>>

BreaksOff(p) ==
  /\ Abandon(p)
  /\ clean' = FALSE

Resolve(p, r) ==
  /\ r.pc = "resolve"
  /\ LET row == store[r.user]
     IN  Proceed(p, [r EXCEPT !.pc = "read",
           !.user = IF row # NoRow /\ row.alias THEN row.login ELSE r.user])
  /\ UNCHANGED <<store, decided, clean, revoked>>

AliasesOf(row) == IF row = NoRow THEN {} ELSE row.aliases

(* Re-approval closes the emails it no longer lists, revocation all of them. *)
ReadExisting(p, r) ==
  /\ r.pc = "read"
  /\ LET existing == store[r.user]
     IN  IF r.op = "approve" /\ existing # NoRow /\ existing.alias
         THEN Abandon(p) /\ UNCHANGED clean
         ELSE /\ Proceed(p, [r EXCEPT !.existing = existing,
                   !.pc = IF r.op = "approve" THEN "check" ELSE "write",
                   !.todo = r.aliases,
                   !.closing = AliasesOf(existing) \ r.aliases])
              /\ UNCHANGED <<store, decided, clean, revoked>>

(* Mutant: an email another researcher is approved with is taken over. *)
TakenByEntry(row, u) == row # NoRow /\ ~row.alias

Taken(row, u) == row # NoRow /\ row.login # u

CheckAlias(p, r) ==
  /\ r.pc = "check"
  /\ \E e \in r.todo :
       IF Taken(store[e], r.user)
       THEN Abandon(p) /\ UNCHANGED clean
       ELSE /\ Proceed(p, [r EXCEPT !.todo = @ \ {e}])
            /\ UNCHANGED <<store, decided, clean, revoked>>

EntryRow(r) ==
  [login |-> r.user, aliases |-> r.aliases, active |-> TRUE, alias |-> FALSE]

(* Mutant: the copy under the email does not name its researcher's key. *)
AliasRowPlain(r) == EntryRow(r)

AliasRow(r) ==
  [login |-> r.user, aliases |-> r.aliases, active |-> TRUE, alias |-> TRUE]

WriteEntry(p, r) ==
  /\ r.pc = "check" /\ r.todo = {}
  /\ store' = [store EXCEPT ![r.user] = EntryRow(r)]
  /\ Proceed(p, [r EXCEPT !.pc = "write", !.todo = r.aliases])
  /\ UNCHANGED <<decided, clean, revoked>>

WriteAlias(p, r) ==
  /\ r.pc = "write"
  /\ \E e \in r.todo :
       /\ store' = [store EXCEPT ![e] = AliasRow(r)]
       /\ Proceed(p, [r EXCEPT !.todo = @ \ {e}])
  /\ UNCHANGED <<decided, clean, revoked>>

(* Re-approval looks whose row it is, revocation does not. *)
ReadAlias(p, r) ==
  /\ r.pc = "write" /\ r.todo = {} /\ r.held = NoRow
  /\ \E e \in r.closing :
       LET row == store[e]
       IN  IF row # NoRow /\ (r.op = "approve" => row.login = r.user)
           THEN Proceed(p, [r EXCEPT !.held = <<e, row>>])
           ELSE Proceed(p, [r EXCEPT !.closing = @ \ {e}])
  /\ UNCHANGED <<store, decided, clean, revoked>>

Closed(row) == [row EXCEPT !.active = FALSE]

CloseAlias(p, r) ==
  /\ r.held # NoRow
  /\ store' = [store EXCEPT ![r.held[1]] = Closed(r.held[2])]
  /\ Proceed(p, [r EXCEPT !.closing = @ \ {r.held[1]}, !.held = NoRow])
  /\ UNCHANGED <<decided, clean, revoked>>

Done(r) == r.pc = "write" /\ r.todo = {} /\ r.closing = {}

Others(u) == {d \in decided : d[1] # u}

Approved(p, r) ==
  /\ r.op = "approve" /\ Done(r)
  /\ Proceed(p, NoCall)
  /\ decided' = Others(r.user) \cup ({r.user} \X r.aliases)
  /\ UNCHANGED <<store, clean, revoked>>

Approving(u) == \E p \in Admin : admin[p] # NoCall /\ admin[p].op = "approve" /\ admin[p].user = u

WriteRevoked(p, r) ==
  /\ r.op = "revoke" /\ Done(r)
  /\ store' = [store EXCEPT ![r.user] =
       IF r.existing = NoRow THEN NoRow ELSE Closed(r.existing)]
  /\ Proceed(p, NoCall)
  /\ decided' = Others(r.user)
  /\ revoked' = revoked \cup {u \in Login : u = r.user /\ ~Approving(u)}
  /\ UNCHANGED clean

AdminStep(p) ==
  /\ admin[p] # NoCall
  /\ LET r == admin[p]
     IN  \/ Resolve(p, r) \/ ReadExisting(p, r) \/ CheckAlias(p, r)
         \/ WriteEntry(p, r) \/ WriteAlias(p, r)
         \/ ReadAlias(p, r) \/ CloseAlias(p, r)
         \/ Approved(p, r) \/ WriteRevoked(p, r)
         \/ BreaksOff(p)
  /\ UNCHANGED <<corpusVars, cache, lab, events>>

-----------------------------------------------------------------------------
(* The corpus, the exclusions, time.                                       *)

Forget(h) ==
  /\ Event("changes") /\ h \in records
  /\ records' = records \ {h}
  /\ gone' = [gone EXCEPT ![h] = now]
  /\ UNCHANGED <<rules, now>>

Record(h) ==
  /\ Event("changes") /\ h \notin records
  /\ records' = records \cup {h}
  /\ UNCHANGED <<rules, gone, now>>

Exclude(h) ==
  /\ Event("changes") /\ h \notin rules
  /\ rules' = rules \cup {h}
  /\ UNCHANGED <<records, gone, now>>

Tick ==
  /\ Event("changes")
  /\ now' = now + 1
  /\ UNCHANGED <<records, rules, gone>>

Outside ==
  /\ Tick \/ \E h \in Host : Forget(h) \/ Record(h) \/ Exclude(h)
  /\ UNCHANGED <<listVars, cache, lab>>

-----------------------------------------------------------------------------
(* gate and the routes behind it.                                          *)

Advance(s, q) == lab' = [lab EXCEPT ![s] = q]

StartRequest(s, who, route) ==
  /\ Event("requests") /\ lab[s] = NoCall
  /\ Advance(s, [who |-> who, route |-> route, began |-> now, out |-> revoked,
       covered |-> rules, pc |-> "row", login |-> NoLogin, rules |-> {},
       at |-> 0, todo |-> {}, rows |-> {}])
  /\ UNCHANGED <<listVars, corpusVars, cache>>

(* Mutant: the copy under the email is as good as the entry. *)
AdmitsAnyway(who, row, primary) == TRUE

(* matchAllowEntry: the researcher's own entry must list the email. *)
Admits(who, row, primary) ==
  primary # NoRow /\ primary.active /\ who \in primary.aliases

(* What of the rows read may be shown; filters and paging take some of it. *)
Shown(q) == q.rows \ q.rules

ReadRow(s, q) ==
  /\ q.pc = "row"
  /\ LET row == store[q.who]
     IN  Advance(s, IF row = NoRow \/ ~row.active THEN NoCall
                    ELSE [q EXCEPT !.pc = "primary", !.login = row.login])
  /\ UNCHANGED cache

(* The routes outside the lab answer from the entry, without any host. *)
Admitted(q) == [q EXCEPT !.pc = IF q.route = "me" THEN "answer" ELSE "rules"]

(* 403 otherwise; then 429 if the caller has asked too often lately. *)
ReadPrimary(s, q) ==
  /\ q.pc = "primary"
  /\ \/ Advance(s, NoCall)
     \/ /\ Admits(q.who, store[q.who], store[q.login])
        /\ Advance(s, Admitted(q))
  /\ UNCHANGED cache

(* loadRawCorpus uses what it has read not long ago. *)
CacheServes == cache # NoCache /\ now - cache.at < Ttl

(* Mutant: the rules are applied when the corpus is read, not to a copy. *)
ReadRulesOnLoad(s, q) ==
  /\ q.pc = "rules"
  /\ Advance(s, [q EXCEPT !.pc = IF q.route = "host" THEN "host" ELSE "cache",
                          !.rules = IF CacheServes THEN {} ELSE rules])
  /\ UNCHANGED cache

(* loadExclusions, before anything of the corpus is read. *)
ReadRules(s, q) ==
  /\ q.pc = "rules"
  /\ Advance(s, [q EXCEPT !.pc = IF q.route = "host" THEN "host" ELSE "cache",
                          !.rules = rules])
  /\ UNCHANGED cache

ReadCache(s, q) ==
  /\ q.pc = "cache"
  /\ Advance(s, IF CacheServes THEN [q EXCEPT !.pc = "answer", !.rows = cache.rows]
                ELSE [q EXCEPT !.pc = "load", !.at = now, !.todo = Host])
  /\ UNCHANGED cache

(* listHits reads the records side by side. *)
ReadRecord(s, q) ==
  /\ q.pc = "load"
  /\ \E h \in q.todo :
       Advance(s, [q EXCEPT !.todo = @ \ {h}, !.rows = @ \cup ({h} \cap records)])
  /\ UNCHANGED cache

(* Mutant: the rows are dated when they are all there. *)
LoadedAtEnd(q) == [rows |-> q.rows, at |-> now]

Loaded(q) == [rows |-> q.rows, at |-> q.at]

FillCache(s, q) ==
  /\ q.pc = "load" /\ q.todo = {}
  /\ cache' = Loaded(q)
  /\ Advance(s, [q EXCEPT !.pc = "answer"])

(* handleLabHost reads one record, never the cache. *)
ReadHost(s, q) ==
  /\ q.pc = "host"
  /\ \E h \in Host :
       Advance(s, IF h \in records THEN [q EXCEPT !.pc = "answer", !.rows = {h}]
                  ELSE NoCall)
  /\ UNCHANGED cache

(* Catalog, map and validation are answered from the rows that are left. *)
Reply(s, q) == q.pc = "answer" /\ Advance(s, NoCall) /\ UNCHANGED cache

(* A KV error is a 503 or 500 answer. *)
Fails(s) == Advance(s, NoCall) /\ UNCHANGED cache

LabStep(s) ==
  /\ lab[s] # NoCall
  /\ LET q == lab[s]
     IN  \/ ReadRow(s, q) \/ ReadPrimary(s, q) \/ ReadRules(s, q)
         \/ ReadCache(s, q) \/ ReadRecord(s, q) \/ FillCache(s, q)
         \/ ReadHost(s, q) \/ Reply(s, q) \/ Fails(s)
  /\ UNCHANGED <<listVars, corpusVars, events>>

Next ==
  \/ \E p \in Admin :
       \/ \E u \in Login, aliases \in SUBSET Email : StartApprove(p, u, aliases)
       \/ \E key \in Key : StartRevoke(p, key)
       \/ AdminStep(p)
  \/ \E s \in Session :
       \/ \E who \in Email, route \in {"me", "corpus", "host"} :
            StartRequest(s, who, route)
       \/ LabStep(s)
  \/ Outside

Spec == Init /\ [][Next]_vars

-----------------------------------------------------------------------------
(* Properties.                                                             *)

(* A row under an email names its researcher's key, a row under a login is   *)
(* that login's. *)
Fits(row, k) ==
  /\ row.alias = (k \in Email)
  /\ k \in Login => row.login = k

(* Variables have their types, and rows are where they belong. *)
TypeOK ==
  /\ store \in [Key -> Row \cup {NoRow}]
  /\ \A k \in Key : store[k] # NoRow => Fits(store[k], k)
  /\ admin \in [Admin -> AdminCall \cup {NoCall}]
  /\ records \subseteq Host /\ rules \subseteq Host
  /\ cache # NoCache => cache.rows \subseteq Host /\ cache.at \in 0..now
  /\ lab \in [Session -> Request \cup {NoCall}]
  /\ now \in Nat /\ events \in [Kind -> Nat]
  /\ decided \subseteq Login \X Email
  /\ clean \in BOOLEAN /\ revoked \subseteq Login
  /\ gone \in [Host -> Nat]

(* Whom an email lets in, were it to ask now. *)
LetIn(e) ==
  {u \in Login : /\ store[e] # NoRow /\ store[e].active /\ store[e].login = u
                 /\ Admits(e, store[e], store[u])}

(* Calls that neither overlap nor break off decide what they say: the emails *)
(* let in, and for whom, are those of the approvals answered, each replaced  *)
(* by its researcher's next one and ended by a revocation; one that was      *)
(* refused for a conflict has changed nothing. *)
AccessAsDecided ==
  clean /\ Idle => {d \in Login \X Email : d[1] \in LetIn(d[2])} = decided

(* "Revoking the primary revokes [its aliases] with it": whatever calls      *)
(* overlapped or broke off before, a lab request that begins once a          *)
(* revocation is answered is not served as that researcher by any email,     *)
(* until somebody begins to approve them again. *)
Answering(s) == lab[s] # NoCall /\ lab[s].pc = "answer"

RevokedStaysOut == \A s \in Session : Answering(s) => lab[s].login \notin lab[s].out

(* "An exclusion filed one second ago suppresses a host immediately instead  *)
(* of waiting for a cache expiry": no answer to a request that began after    *)
(* the rule was in the mirror shows a host it covers. *)
ExcludedHidden == \A s \in Session : Answering(s) => Shown(lab[s]) \cap lab[s].covered = {}

(* A host deleted from the corpus is shown for less than the cache's life    *)
(* after that, however loads of the corpus overlap. *)
DeletedHidden ==
  \A s \in Session : Answering(s) =>
    \A h \in Shown(lab[s]) : h \in records \/ gone[h] > lab[s].began - Ttl

-----------------------------------------------------------------------------
(* The inductive invariant behind the last three. *)

(* A call knows whose rows it holds. *)
SoundCall(r) ==
  /\ r.op = "approve" => r.user \in Login /\ r.pc # "resolve"
  /\ r.op = "revoke" => r.pc # "check" /\ r.aliases = {} /\ r.todo = {}
  /\ r.pc \in {"resolve", "read"} => r.existing = NoRow
  /\ r.held # NoRow => r.held[2].alias
  /\ r.existing # NoRow /\ r.op = "revoke" =>
       Fits(r.existing, r.user)

AdminSound == \A p \in Admin : admin[p] # NoCall => SoundCall(admin[p])

(* Nobody opens the entry of a revoked researcher. *)
RevokedClosed ==
  \A u \in revoked :
    /\ store[u] # NoRow => ~store[u].active
    /\ ~Approving(u)

(* Rows read since t were in the corpus then or are. *)
ReadSince(rows, t) == \A h \in rows : h \in records \/ gone[h] >= t

CacheSound == cache # NoCache => ReadSince(cache.rows, cache.at)

SoundRequest(q) ==
  /\ q.out \subseteq revoked /\ q.covered \subseteq rules
  /\ q.began <= now
  /\ q.pc \notin {"row", "primary"} => q.login \notin q.out
  /\ q.pc \in {"row", "primary", "rules", "cache", "host"} => q.rows = {}
  /\ q.pc # "row" => q.login \in Login
  /\ q.route = "me" => q.pc \in {"row", "primary", "answer"} /\ q.rows = {}
  /\ q.pc \in {"cache", "load", "host", "answer"} /\ q.route # "me" =>
       q.covered \subseteq q.rules
  /\ q.pc = "load" => q.began <= q.at /\ q.at <= now /\ ReadSince(q.rows, q.at)
  /\ q.pc = "answer" => ReadSince(q.rows, (q.began - Ttl) + 1)

RequestSound == \A s \in Session : lab[s] # NoCall => SoundRequest(lab[s])

ServedInv == TypeOK /\ AdminSound /\ RevokedClosed /\ CacheSound /\ RequestSound

(* What AccessAsDecided rests on, while no call overlaps another or breaks    *)
(* off.  The entry of u, and the copies under its emails, are what was        *)
(* decided. *)
Agrees(u) ==
  /\ {e \in Email : <<u, e>> \in decided} =
       IF store[u] # NoRow /\ store[u].active THEN store[u].aliases ELSE {}
  /\ store[u] # NoRow /\ store[u].active => \A e \in store[u].aliases : store[e].active

(* An email once approved stays its researcher's, revoked or not. *)
Holds(u, e) == store[e] # NoRow /\ store[e].login = u

Owns(u) == store[u] # NoRow => \A e \in store[u].aliases : Holds(u, e)

Settled(u) == Agrees(u) /\ Owns(u)

(* What the one call under way has found, and what it has written so far. *)
LoneCall(r) ==
  /\ r.pc = "read" /\ r.user \in Email => store[r.user] = NoRow
  /\ r.todo \subseteq r.aliases
  /\ r.pc \in {"check", "write"} =>
       \A e \in r.closing : Holds(r.user, e) /\ e \notin r.aliases
  /\ r.pc = "check" =>
       \A e \in r.aliases \ r.todo : ~Taken(store[e], r.user)
  /\ r.pc = "write" /\ r.op = "approve" =>
       /\ store[r.user] = EntryRow(r)
       /\ \A e \in r.aliases :
            IF e \in r.todo THEN ~Taken(store[e], r.user) ELSE store[e] = AliasRow(r)
  /\ r.pc = "write" /\ r.op = "revoke" =>
       /\ store[r.user] = r.existing /\ Owns(r.user)
       /\ r.user \in Email => r.existing = NoRow
  /\ r.held # NoRow =>
       r.pc = "write" /\ r.held[1] \in r.closing /\ r.held[2] = store[r.held[1]]

Writes(r, u) == r # NoCall /\ r.pc = "write" /\ r.user = u

SettledInv ==
  clean =>
    /\ \A p, q \in Admin : admin[p] # NoCall /\ admin[q] # NoCall => p = q
    /\ \A p \in Admin : admin[p] # NoCall => LoneCall(admin[p])
    /\ \A u \in Login : Settled(u) \/ \E p \in Admin : Writes(admin[p], u)

AccessInv == ServedInv /\ SettledInv
=============================================================================
