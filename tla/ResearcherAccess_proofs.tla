----------------------- MODULE ResearcherAccess_proofs -----------------------
(* Proofs about ResearcherAccess: whatever allowlist calls, lab requests,   *)
(* deletions and rules interleave, a revoked researcher is not served, an   *)
(* excluded host is not shown, a deleted one not for long.                  *)
EXTENDS ResearcherAccess, TLAPS

-----------------------------------------------------------------------------
(* Rows and calls. *)

LEMMA ClosedRow ==
  ASSUME NEW row \in Row
  PROVE  /\ Closed(row) \in Row /\ ~Closed(row).active
         /\ Closed(row).login = row.login /\ Closed(row).alias = row.alias
         /\ Closed(row).aliases = row.aliases
         /\ Closed(row) # NoRow
BY AccessAssumption DEF Closed, Row

LEMMA OpenRows ==
  ASSUME NEW r \in AdminCall, r.user \in Login
  PROVE  /\ EntryRow(r) \in Row /\ AliasRow(r) \in Row
         /\ ~EntryRow(r).alias /\ EntryRow(r).login = r.user
         /\ AliasRow(r).alias
BY DEF EntryRow, AliasRow, Row, AdminCall

(* What a step of an allowlist call has to establish. *)
LEMMA CallMoves ==
  ASSUME ServedInv, NEW p \in Admin, NEW y, Proceed(p, y),
         y # NoCall => y \in AdminCall /\ SoundCall(y),
         NEW k \in Key, NEW row \in Row \cup {NoRow},
         row # NoRow => Fits(row, k),
         \/ store' = store
         \/ store' = [store EXCEPT ![k] = row],
         revoked \subseteq revoked', revoked' \subseteq Login,
         \A u \in revoked' : store'[u] # NoRow => ~store'[u].active,
         \A u \in revoked' \ revoked : ~Approving(u),
         y # NoCall /\ y.op = "approve" => y.user \notin revoked',
         decided' \subseteq Login \X Email, clean' \in BOOLEAN,
         UNCHANGED <<corpusVars, cache, lab, events>>
  PROVE  ServedInv'
<1>1. admin' = [admin EXCEPT ![p] = y] /\ admin \in [Admin -> AdminCall \cup {NoCall}]
  BY DEF Proceed, ServedInv, TypeOK
<1>2. admin' \in [Admin -> AdminCall \cup {NoCall}] /\ AdminSound'
  BY <1>1 DEF ServedInv, AdminSound, SoundCall, Fits
<1>3. /\ store' \in [Key -> Row \cup {NoRow}]
      /\ \A j \in Key : store'[j] # NoRow => Fits(store'[j], j)
  BY DEF ServedInv, TypeOK
<1>4. TypeOK'
  BY <1>2, <1>3 DEF ServedInv, TypeOK, corpusVars, Fits
<1>5. RevokedClosed'
  <2>1. SUFFICES ASSUME NEW u \in revoked' PROVE ~Approving(u)'
    BY DEF RevokedClosed
  <2>2. ~Approving(u)
    BY DEF ServedInv, RevokedClosed
  <2>3. QED
    BY <1>1, <2>2 DEF Approving
<1>6. CacheSound'
  BY DEF ServedInv, CacheSound, ReadSince, corpusVars
<1>7. RequestSound'
  BY DEF ServedInv, RequestSound, SoundRequest, ReadSince, corpusVars
<1>8. QED
  BY <1>2, <1>4, <1>5, <1>6, <1>7 DEF ServedInv

(* A step that leaves the allowlist and its history alone. *)
LEMMA CallReads ==
  ASSUME ServedInv, NEW p \in Admin, NEW y, Proceed(p, y),
         y # NoCall => y \in AdminCall /\ SoundCall(y),
         y # NoCall /\ y.op = "approve" =>
           admin[p] # NoCall /\ admin[p].op = "approve" /\ admin[p].user = y.user,
         UNCHANGED <<store, decided, revoked>>, clean' \in BOOLEAN,
         UNCHANGED <<corpusVars, cache, lab, events>>
  PROVE  ServedInv'
<1>1. CASE Key = {}
  <2>1. Login = {} /\ Email = {}
    BY <1>1 DEF Key
  <2>2. y # NoCall => FALSE
    BY <1>1 DEF AdminCall
  <2>3. admin' \in [Admin -> AdminCall \cup {NoCall}] /\ AdminSound'
    BY <2>2 DEF ServedInv, AdminSound, SoundCall, Fits, Proceed, TypeOK
  <2>4. TypeOK' /\ CacheSound' /\ RequestSound'
    BY <2>3 DEF ServedInv, TypeOK, CacheSound, RequestSound, SoundRequest,
                ReadSince, corpusVars, Fits
  <2>5. revoked' = {}
    BY <2>1 DEF ServedInv, TypeOK
  <2>6. QED
    BY <2>3, <2>4, <2>5 DEF ServedInv, RevokedClosed
<1>2. CASE Key # {}
  <2>1. PICK k \in Key : TRUE
    BY <1>2
  <2>2. \A u \in revoked' : store'[u] # NoRow => ~store'[u].active
    BY DEF ServedInv, RevokedClosed
  <2>3. y # NoCall /\ y.op = "approve" => y.user \notin revoked'
    BY DEF ServedInv, RevokedClosed, Approving
  <2>4. revoked' = revoked /\ revoked' \subseteq Login /\ decided' \subseteq Login \X Email
    BY DEF ServedInv, TypeOK
  <2>5. NoRow \in Row \cup {NoRow}
    OBVIOUS
  <2>6. store' = store
    OBVIOUS
  <2>7. QED
    BY <2>1, <2>2, <2>3, <2>4, <2>5, <2>6, CallMoves
<1>3. QED
  BY <1>1, <1>2

-----------------------------------------------------------------------------
(* The steps of an allowlist call. *)

LEMMA AbandonInvariant ==
  ASSUME ServedInv, NEW p \in Admin, Abandon(p), clean' \in BOOLEAN,
         UNCHANGED <<corpusVars, cache, lab, events>>
  PROVE  ServedInv'
BY CallReads DEF Abandon

LEMMA ResolveInvariant ==
  ASSUME ServedInv, NEW p \in Admin, admin[p] # NoCall, Resolve(p, admin[p]),
         UNCHANGED <<corpusVars, cache, lab, events>>
  PROVE  ServedInv'
<1> DEFINE r == admin[p]
           u == IF store[r.user] # NoRow /\ store[r.user].alias
                THEN store[r.user].login ELSE r.user
           y == [r EXCEPT !.pc = "read", !.user = u]
<1>1. r \in AdminCall /\ SoundCall(r)
  BY DEF ServedInv, TypeOK, AdminSound
<1>2. u \in Key
  BY <1>1 DEF ServedInv, TypeOK, AdminCall, Row, Key
<1>3. y \in AdminCall /\ y.op = r.op /\ y.held = r.held /\ y.existing = r.existing
  BY <1>1, <1>2 DEF AdminCall
<1>4. r.pc = "resolve" /\ Proceed(p, y) /\ UNCHANGED <<store, decided, clean, revoked>>
  BY DEF Resolve
<1>5. SoundCall(y) /\ y.op = "revoke"
  BY <1>1, <1>3, <1>4 DEF SoundCall, AdminCall
<1>6. QED
  <2> HIDE DEF y
  <2> QED
    BY <1>3, <1>4, <1>5, CallReads DEF ServedInv, TypeOK

LEMMA ReadExistingInvariant ==
  ASSUME ServedInv, NEW p \in Admin, admin[p] # NoCall, ReadExisting(p, admin[p]),
         UNCHANGED <<corpusVars, cache, lab, events>>
  PROVE  ServedInv'
<1> DEFINE r == admin[p]
           existing == store[r.user]
           y == [r EXCEPT !.existing = existing,
                   !.pc = IF r.op = "approve" THEN "check" ELSE "write",
                   !.todo = r.aliases,
                   !.closing = AliasesOf(existing) \ r.aliases]
<1>1. r \in AdminCall /\ SoundCall(r) /\ clean \in BOOLEAN
  BY DEF ServedInv, TypeOK, AdminSound
<1>2. existing \in Row \cup {NoRow} /\ (existing # NoRow => Fits(existing, r.user))
  BY <1>1 DEF ServedInv, TypeOK, AdminCall
<1>3. AliasesOf(existing) \subseteq Email
  BY <1>2 DEF AliasesOf, Row
<1>4. /\ y \in AdminCall /\ y.op = r.op /\ y.user = r.user /\ y.held = r.held
      /\ y.existing = existing /\ y.aliases = r.aliases /\ y.todo = r.aliases
      /\ y.pc = IF r.op = "approve" THEN "check" ELSE "write"
  BY <1>1, <1>2, <1>3 DEF AdminCall
<1>5. CASE Abandon(p) /\ UNCHANGED clean
  BY <1>1, <1>5, AbandonInvariant
<1>6. CASE Proceed(p, y) /\ UNCHANGED <<store, decided, clean, revoked>>
  <2> HIDE DEF y
  <2>1. SoundCall(y)
    BY <1>1, <1>2, <1>4 DEF SoundCall, AdminCall
  <2>2. QED
    BY <1>1, <1>4, <1>6, <2>1, CallReads
<1>7. QED
  BY <1>5, <1>6 DEF ReadExisting

LEMMA CheckAliasInvariant ==
  ASSUME ServedInv, NEW p \in Admin, admin[p] # NoCall, CheckAlias(p, admin[p]),
         UNCHANGED <<corpusVars, cache, lab, events>>
  PROVE  ServedInv'
<1> DEFINE r == admin[p]
           y(e) == [r EXCEPT !.todo = @ \ {e}]
<1>1. r \in AdminCall /\ SoundCall(r) /\ clean \in BOOLEAN
  BY DEF ServedInv, TypeOK, AdminSound
<1>2. PICK e \in r.todo :
        \/ Abandon(p) /\ UNCHANGED clean
        \/ Proceed(p, y(e)) /\ UNCHANGED <<store, decided, clean, revoked>>
  BY DEF CheckAlias
<1>3. /\ y(e) \in AdminCall /\ y(e).op = r.op /\ y(e).user = r.user
      /\ y(e).held = r.held /\ y(e).existing = r.existing /\ y(e).pc = r.pc
      /\ y(e).aliases = r.aliases /\ y(e).todo \subseteq r.todo
  BY <1>1 DEF AdminCall
<1>4. SoundCall(y(e))
  BY <1>1, <1>3 DEF SoundCall
<1>5. CASE Abandon(p) /\ UNCHANGED clean
  BY <1>1, <1>5, AbandonInvariant
<1>6. CASE Proceed(p, y(e)) /\ UNCHANGED <<store, decided, clean, revoked>>
  <2> HIDE DEF y
  <2> QED
    BY <1>1, <1>3, <1>4, <1>6, CallReads
<1>7. QED
  BY <1>2, <1>5, <1>6

LEMMA WriteEntryInvariant ==
  ASSUME ServedInv, NEW p \in Admin, admin[p] # NoCall, WriteEntry(p, admin[p]),
         UNCHANGED <<corpusVars, cache, lab, events>>
  PROVE  ServedInv'
<1> DEFINE r == admin[p]
           y == [r EXCEPT !.pc = "write", !.todo = r.aliases]
<1>1. r \in AdminCall /\ SoundCall(r)
  BY DEF ServedInv, TypeOK, AdminSound
<1>2. /\ r.pc = "check" /\ r.op = "approve" /\ r.user \in Login
      /\ store' = [store EXCEPT ![r.user] = EntryRow(r)]
      /\ Proceed(p, y) /\ UNCHANGED <<decided, clean, revoked>>
  BY <1>1 DEF WriteEntry, SoundCall, AdminCall
<1>3. /\ y \in AdminCall /\ y.op = r.op /\ y.user = r.user /\ y.held = r.held
      /\ y.existing = r.existing /\ y.pc = "write"
  BY <1>1 DEF AdminCall
<1>4. r.user \notin revoked
  BY <1>2 DEF ServedInv, RevokedClosed, Approving
<1>5. SoundCall(y)
  BY <1>1, <1>2, <1>3 DEF SoundCall
<1>6. EntryRow(r) \in Row /\ Fits(EntryRow(r), r.user)
  <2>1. r.user \notin Email
    BY <1>2, AccessAssumption
  <2>2. EntryRow(r) \in Row
    BY <1>1, <1>2, OpenRows
  <2>3. EntryRow(r).alias = FALSE /\ EntryRow(r).login = r.user
    BY DEF EntryRow
  <2>4. EntryRow(r).alias = (r.user \in Email)
    <3>1. (r.user \in Email) = FALSE
      BY <2>1
    <3>2. QED
      BY <2>3, <3>1, Zenon
  <2>5. QED
    BY <2>2, <2>3, <2>4 DEF Fits
<1>7. \A u \in revoked' : store'[u] # NoRow => ~store'[u].active
  BY <1>2, <1>4 DEF ServedInv, RevokedClosed, TypeOK
<1>8. r.user \in Key /\ revoked' = revoked /\ revoked \subseteq Login
      /\ decided' \subseteq Login \X Email /\ clean' \in BOOLEAN
  BY <1>1, <1>2 DEF ServedInv, TypeOK, Key
<1>9. QED
  <2> HIDE DEF y
  <2> QED
    BY <1>2, <1>3, <1>4, <1>5, <1>6, <1>7, <1>8, CallMoves

LEMMA WriteAliasInvariant ==
  ASSUME ServedInv, NEW p \in Admin, admin[p] # NoCall, WriteAlias(p, admin[p]),
         UNCHANGED <<corpusVars, cache, lab, events>>
  PROVE  ServedInv'
<1> DEFINE r == admin[p]
           y(e) == [r EXCEPT !.todo = @ \ {e}]
<1>1. r \in AdminCall /\ SoundCall(r)
  BY DEF ServedInv, TypeOK, AdminSound
<1>2. PICK e \in r.todo :
        /\ store' = [store EXCEPT ![e] = AliasRow(r)]
        /\ Proceed(p, y(e))
        /\ UNCHANGED <<decided, clean, revoked>>
  BY DEF WriteAlias
<1>3. /\ y(e) \in AdminCall /\ y(e).op = r.op /\ y(e).user = r.user
      /\ y(e).held = r.held /\ y(e).existing = r.existing /\ y(e).pc = r.pc
      /\ y(e).aliases = r.aliases /\ y(e).todo \subseteq r.todo
  BY <1>1 DEF AdminCall
<1>4. r.op = "approve" /\ r.user \in Login /\ e \in Email /\ e \notin Login
  BY <1>1, AccessAssumption DEF SoundCall, AdminCall
<1>5. SoundCall(y(e))
  BY <1>1, <1>3 DEF SoundCall
<1>6. AliasRow(r) \in Row /\ Fits(AliasRow(r), e)
  BY <1>1, <1>4, OpenRows DEF Fits
<1>7. /\ revoked' = revoked /\ revoked \subseteq Login /\ e \in Key
      /\ decided' \subseteq Login \X Email /\ clean' \in BOOLEAN
  BY <1>2, <1>4 DEF ServedInv, TypeOK, Key
<1>8. \A u \in revoked' : store'[u] # NoRow => ~store'[u].active
  BY <1>2, <1>4, <1>7 DEF ServedInv, RevokedClosed, TypeOK, Key
<1>9. r.user \notin revoked
  BY <1>4 DEF ServedInv, RevokedClosed, Approving
<1>10. QED
  <2> HIDE DEF y
  <2> QED
    BY <1>2, <1>3, <1>5, <1>6, <1>7, <1>8, <1>9, CallMoves

LEMMA ReadAliasInvariant ==
  ASSUME ServedInv, NEW p \in Admin, admin[p] # NoCall, ReadAlias(p, admin[p]),
         UNCHANGED <<corpusVars, cache, lab, events>>
  PROVE  ServedInv'
<1> DEFINE r == admin[p]
           took(e) == [r EXCEPT !.held = <<e, store[e]>>]
           left(e) == [r EXCEPT !.closing = @ \ {e}]
<1>1. r \in AdminCall /\ SoundCall(r) /\ clean \in BOOLEAN
  BY DEF ServedInv, TypeOK, AdminSound
<1>2. PICK e \in r.closing :
        \/ store[e] # NoRow /\ Proceed(p, took(e))
        \/ Proceed(p, left(e))
  BY DEF ReadAlias
<1>3. UNCHANGED <<store, decided, clean, revoked>>
  BY DEF ReadAlias
<1>4. e \in Email /\ (store[e] # NoRow => store[e] \in Row /\ store[e].alias)
  BY <1>1 DEF ServedInv, TypeOK, AdminCall, Key, Fits
<1>5. CASE store[e] # NoRow /\ Proceed(p, took(e))
  <2>1. /\ took(e) \in AdminCall /\ took(e).op = r.op /\ took(e).user = r.user
        /\ took(e).held = <<e, store[e]>> /\ took(e).existing = r.existing
        /\ took(e).pc = r.pc /\ took(e).aliases = r.aliases /\ took(e).todo = r.todo
    BY <1>1, <1>4, <1>5 DEF AdminCall
  <2> HIDE DEF took
  <2>2. SoundCall(took(e))
    BY <1>1, <1>4, <1>5, <2>1 DEF SoundCall
  <2>3. QED
    BY <1>1, <1>3, <1>5, <2>1, <2>2, CallReads
<1>6. CASE Proceed(p, left(e))
  <2>1. /\ left(e) \in AdminCall /\ left(e).op = r.op /\ left(e).user = r.user
        /\ left(e).held = r.held /\ left(e).existing = r.existing
        /\ left(e).pc = r.pc /\ left(e).aliases = r.aliases /\ left(e).todo = r.todo
    BY <1>1 DEF AdminCall
  <2> HIDE DEF left
  <2>2. SoundCall(left(e))
    BY <1>1, <2>1 DEF SoundCall
  <2>3. QED
    BY <1>1, <1>3, <1>6, <2>1, <2>2, CallReads
<1>7. QED
  BY <1>2, <1>5, <1>6

LEMMA CloseAliasInvariant ==
  ASSUME ServedInv, NEW p \in Admin, admin[p] # NoCall, CloseAlias(p, admin[p]),
         UNCHANGED <<corpusVars, cache, lab, events>>
  PROVE  ServedInv'
<1> DEFINE r == admin[p]
           e == r.held[1]
           row == r.held[2]
           y == [r EXCEPT !.closing = @ \ {e}, !.held = NoRow]
<1>1. r \in AdminCall /\ SoundCall(r) /\ clean \in BOOLEAN
  BY DEF ServedInv, TypeOK, AdminSound
<1>2. /\ r.held # NoRow
      /\ store' = [store EXCEPT ![e] = Closed(row)]
      /\ Proceed(p, y)
      /\ UNCHANGED <<decided, clean, revoked>>
  BY DEF CloseAlias
<1>3. r.held \in Email \X Row
  BY <1>1, <1>2 DEF AdminCall
<1>4. e \in Email /\ row \in Row /\ row.alias
  BY <1>1, <1>2, <1>3 DEF SoundCall
<1>5. /\ y \in AdminCall /\ y.op = r.op /\ y.user = r.user /\ y.held = NoRow
      /\ y.existing = r.existing /\ y.pc = r.pc /\ y.aliases = r.aliases
      /\ y.todo = r.todo
  BY <1>1 DEF AdminCall
<1> HIDE DEF y, e, row
<1>6. SoundCall(y)
  BY <1>1, <1>5 DEF SoundCall
<1>7. Closed(row) \in Row /\ Fits(Closed(row), e)
  <2>1. e \notin Login
    BY <1>4, AccessAssumption
  <2>2. Closed(row) \in Row /\ Closed(row).alias = row.alias
    BY <1>4, ClosedRow
  <2>3. QED
    BY <1>4, <2>1, <2>2 DEF Fits, Row
<1>8. /\ revoked' = revoked /\ revoked \subseteq Login /\ e \in Key
      /\ decided' \subseteq Login \X Email /\ clean' \in BOOLEAN
      /\ store \in [Key -> Row \cup {NoRow}]
  BY <1>1, <1>2, <1>4 DEF ServedInv, TypeOK, Key
<1>9. \A u \in revoked' : store'[u] # NoRow => ~store'[u].active
  BY <1>2, <1>4, <1>8, AccessAssumption DEF ServedInv, RevokedClosed, Key
<1>10. r.op = "approve" => r.user \notin revoked
  BY DEF ServedInv, RevokedClosed, Approving
<1>11. QED
  BY <1>2, <1>5, <1>6, <1>7, <1>8, <1>9, <1>10, CallMoves

LEMMA ApprovedInvariant ==
  ASSUME ServedInv, NEW p \in Admin, admin[p] # NoCall, Approved(p, admin[p]),
         UNCHANGED <<corpusVars, cache, lab, events>>
  PROVE  ServedInv'
<1> DEFINE r == admin[p]
<1>1. r \in AdminCall /\ SoundCall(r) /\ clean \in BOOLEAN
  BY DEF ServedInv, TypeOK, AdminSound
<1>2. /\ r.op = "approve" /\ Proceed(p, NoCall)
      /\ decided' = Others(r.user) \cup ({r.user} \X r.aliases)
      /\ UNCHANGED <<store, clean, revoked>>
  BY DEF Approved
<1>3. r.user \in Login /\ r.aliases \subseteq Email /\ r.user \in Key
  BY <1>1, <1>2 DEF SoundCall, AdminCall
<1>4. decided' \subseteq Login \X Email
  BY <1>2, <1>3 DEF Others, ServedInv, TypeOK
<1>5. revoked' = revoked /\ revoked' \subseteq Login /\ clean' \in BOOLEAN
  BY <1>1, <1>2 DEF ServedInv, TypeOK
<1>6. \A u \in revoked' : store'[u] # NoRow => ~store'[u].active
  BY <1>2, <1>5 DEF ServedInv, RevokedClosed
<1>7. NoRow \in Row \cup {NoRow} /\ store' = store
  BY <1>2
<1>8. QED
  BY <1>2, <1>3, <1>4, <1>5, <1>6, <1>7, CallMoves

LEMMA WriteRevokedInvariant ==
  ASSUME ServedInv, NEW p \in Admin, admin[p] # NoCall, WriteRevoked(p, admin[p]),
         UNCHANGED <<corpusVars, cache, lab, events>>
  PROVE  ServedInv'
<1> DEFINE r == admin[p]
           row == IF r.existing = NoRow THEN NoRow ELSE Closed(r.existing)
<1>1. r \in AdminCall /\ SoundCall(r) /\ clean \in BOOLEAN
  BY DEF ServedInv, TypeOK, AdminSound
<1>2. /\ r.op = "revoke" /\ Proceed(p, NoCall)
      /\ store' = [store EXCEPT ![r.user] = row]
      /\ decided' = Others(r.user)
      /\ revoked' = revoked \cup {u \in Login : u = r.user /\ ~Approving(u)}
      /\ UNCHANGED clean
  BY DEF WriteRevoked
<1>3. r.user \in Key /\ r.existing \in Row \cup {NoRow}
  BY <1>1 DEF AdminCall
<1>4. /\ row \in Row \cup {NoRow}
      /\ row # NoRow => Fits(row, r.user) /\ ~row.active
  BY <1>1, <1>2, <1>3, ClosedRow DEF SoundCall, Fits
<1>5. /\ decided' \subseteq Login \X Email /\ revoked' \subseteq Login
      /\ revoked \subseteq revoked' /\ clean' \in BOOLEAN
      /\ store \in [Key -> Row \cup {NoRow}]
      /\ \A u \in revoked' \ revoked : ~Approving(u)
  BY <1>1, <1>2 DEF Others, ServedInv, TypeOK
<1> HIDE DEF row
<1>6. \A u \in revoked' : store'[u] # NoRow => ~store'[u].active
  BY <1>2, <1>3, <1>4, <1>5 DEF ServedInv, RevokedClosed, Key
<1>7. QED
  BY <1>2, <1>3, <1>4, <1>5, <1>6, CallMoves

LEMMA EventCounted ==
  ASSUME TypeOK, NEW kind \in Kind, Event(kind)
  PROVE  events' \in [Kind -> Nat]
BY DEF TypeOK, Event

LEMMA StartApproveInvariant ==
  ASSUME ServedInv, NEW p \in Admin, NEW u \in Login, NEW aliases \in SUBSET Email,
         StartApprove(p, u, aliases)
  PROVE  ServedInv'
<1> DEFINE y == Call("approve", u, aliases, "read")
           kept(s) == IF lab[s] = NoCall THEN NoCall
                      ELSE [lab[s] EXCEPT !.out = @ \ {u}]
<1>1. /\ admin' = [admin EXCEPT ![p] = y] /\ admin[p] = NoCall
      /\ revoked' = revoked \ {u} /\ clean' = (clean /\ Idle)
      /\ lab' = [s \in Session |-> kept(s)]
      /\ UNCHANGED <<store, decided, corpusVars, cache>>
  BY DEF StartApprove, Proceed
<1>2. /\ y \in AdminCall /\ SoundCall(y) /\ y.op = "approve" /\ y.user = u
  BY DEF Call, AdminCall, SoundCall, Key
<1>3. events' \in [Kind -> Nat]
  BY EventCounted DEF StartApprove, ServedInv, Kind
<1>4. \A s \in Session : kept(s) # NoCall =>
        /\ lab[s] \in Request /\ SoundRequest(lab[s])
        /\ kept(s) \in Request
        /\ kept(s).out = lab[s].out \ {u}
        /\ kept(s).covered = lab[s].covered /\ kept(s).began = lab[s].began
        /\ kept(s).pc = lab[s].pc /\ kept(s).login = lab[s].login
        /\ kept(s).rows = lab[s].rows /\ kept(s).route = lab[s].route
        /\ kept(s).rules = lab[s].rules /\ kept(s).at = lab[s].at
  <2>1. SUFFICES ASSUME NEW s \in Session, kept(s) # NoCall
                 PROVE  /\ lab[s] \in Request /\ SoundRequest(lab[s])
                        /\ kept(s) \in Request
                        /\ kept(s).out = lab[s].out \ {u}
                        /\ kept(s).covered = lab[s].covered /\ kept(s).began = lab[s].began
                        /\ kept(s).pc = lab[s].pc /\ kept(s).login = lab[s].login
                        /\ kept(s).rows = lab[s].rows /\ kept(s).route = lab[s].route
                        /\ kept(s).rules = lab[s].rules /\ kept(s).at = lab[s].at
    OBVIOUS
  <2>2. lab[s] # NoCall
    BY <2>1
  <2>3. lab[s] \in Request /\ SoundRequest(lab[s])
    BY <2>2 DEF ServedInv, TypeOK, RequestSound
  <2>4. kept(s) = [lab[s] EXCEPT !.out = @ \ {u}]
    BY <2>2
  <2>5. QED
    BY <2>3, <2>4 DEF Request
<1> HIDE DEF y, kept
<1>5. admin' \in [Admin -> AdminCall \cup {NoCall}] /\ AdminSound'
  BY <1>1, <1>2 DEF ServedInv, TypeOK, AdminSound, SoundCall, Fits
<1>6. lab' \in [Session -> Request \cup {NoCall}]
  BY <1>1, <1>4
<1>7. TypeOK'
  <2>1. clean' \in BOOLEAN /\ revoked' \subseteq Login
    BY <1>1 DEF ServedInv, TypeOK, Idle
  <2>2. store' = store /\ decided' = decided /\ cache' = cache
        /\ records' = records /\ rules' = rules /\ gone' = gone /\ now' = now
    BY <1>1 DEF corpusVars
  <2>3. QED
    BY <1>3, <1>5, <1>6, <2>1, <2>2 DEF ServedInv, TypeOK, Fits
<1>8. RevokedClosed'
  <2>1. SUFFICES ASSUME NEW v \in revoked'
                 PROVE  (store'[v] # NoRow => ~store'[v].active) /\ ~Approving(v)'
    BY DEF RevokedClosed
  <2>2. v \in revoked /\ v # u
    BY <1>1
  <2>3. (store[v] # NoRow => ~store[v].active) /\ ~Approving(v)
    BY <2>2 DEF ServedInv, RevokedClosed
  <2>4. store'[v] # NoRow => ~store'[v].active
    <3>1. store' = store
      BY <1>1
    <3>2. QED
      BY <2>3, <3>1
  <2>5. ~Approving(v)'
    <3>1. admin' = [admin EXCEPT ![p] = y] /\ admin \in [Admin -> AdminCall \cup {NoCall}]
      BY <1>1 DEF ServedInv, TypeOK
    <3>2. QED
      BY <1>2, <2>2, <2>3, <3>1 DEF Approving
  <2>6. QED
    BY <2>4, <2>5
<1>9. CacheSound'
  <2>1. cache' = cache /\ records' = records /\ gone' = gone
    BY <1>1 DEF corpusVars
  <2>2. QED
    BY <2>1 DEF ServedInv, CacheSound, ReadSince
<1>10. RequestSound'
  <2>1. SUFFICES ASSUME NEW s \in Session, lab'[s] # NoCall
                 PROVE  SoundRequest(lab[s])'
    BY DEF RequestSound
  <2>2. lab'[s] = kept(s) /\ kept(s) # NoCall
    BY <1>1, <2>1
  <2>3. /\ SoundRequest(lab[s])
        /\ lab'[s].out = lab[s].out \ {u}
        /\ lab'[s].covered = lab[s].covered /\ lab'[s].began = lab[s].began
        /\ lab'[s].pc = lab[s].pc /\ lab'[s].login = lab[s].login
        /\ lab'[s].rows = lab[s].rows /\ lab'[s].route = lab[s].route
        /\ lab'[s].rules = lab[s].rules /\ lab'[s].at = lab[s].at
    BY <1>4, <2>2
  <2>4. /\ revoked' = revoked \ {u} /\ rules' = rules /\ now' = now
        /\ records' = records /\ gone' = gone
    BY <1>1 DEF corpusVars
  <2>5. QED
    BY <2>3, <2>4 DEF SoundRequest, ReadSince
<1>11. QED
  BY <1>5, <1>7, <1>8, <1>9, <1>10 DEF ServedInv

LEMMA StartRevokeInvariant ==
  ASSUME ServedInv, NEW p \in Admin, NEW key \in Key, StartRevoke(p, key)
  PROVE  ServedInv'
<1> DEFINE y == Call("revoke", key, {}, "resolve")
<1>1. /\ admin' = [admin EXCEPT ![p] = y]
      /\ clean' = (clean /\ Idle)
      /\ UNCHANGED <<store, decided, revoked, corpusVars, cache, lab>>
  BY DEF StartRevoke, Proceed
<1>2. y \in AdminCall /\ SoundCall(y) /\ y.op = "revoke"
  BY DEF Call, AdminCall, SoundCall
<1>3. events' \in [Kind -> Nat]
  BY EventCounted DEF StartRevoke, ServedInv, Kind
<1> HIDE DEF y
<1>4. admin' \in [Admin -> AdminCall \cup {NoCall}] /\ AdminSound'
  BY <1>1, <1>2 DEF ServedInv, TypeOK, AdminSound, SoundCall, Fits
<1>5. TypeOK'
  <2>1. clean' \in BOOLEAN
    BY <1>1 DEF ServedInv, TypeOK, Idle
  <2>2. QED
    BY <1>1, <1>3, <1>4, <2>1 DEF ServedInv, TypeOK, corpusVars, Fits
<1>6. RevokedClosed'
  BY <1>1, <1>2 DEF ServedInv, RevokedClosed, Approving, TypeOK
<1>7. CacheSound' /\ RequestSound'
  BY <1>1 DEF ServedInv, CacheSound, RequestSound, SoundRequest, ReadSince, corpusVars
<1>8. QED
  BY <1>4, <1>5, <1>6, <1>7 DEF ServedInv

LEMMA AdminStepInvariant ==
  ASSUME ServedInv, NEW p \in Admin, AdminStep(p)
  PROVE  ServedInv'
<1>1. admin[p] # NoCall /\ UNCHANGED <<corpusVars, cache, lab, events>>
  BY DEF AdminStep
<1>2. CASE BreaksOff(p)
  BY <1>1, <1>2, AbandonInvariant DEF BreaksOff
<1>3. CASE Resolve(p, admin[p])
  BY <1>1, <1>3, ResolveInvariant
<1>4. CASE ReadExisting(p, admin[p])
  BY <1>1, <1>4, ReadExistingInvariant
<1>5. CASE CheckAlias(p, admin[p])
  BY <1>1, <1>5, CheckAliasInvariant
<1>6. CASE WriteEntry(p, admin[p])
  BY <1>1, <1>6, WriteEntryInvariant
<1>7. CASE WriteAlias(p, admin[p])
  BY <1>1, <1>7, WriteAliasInvariant
<1>8. CASE ReadAlias(p, admin[p])
  BY <1>1, <1>8, ReadAliasInvariant
<1>9. CASE CloseAlias(p, admin[p])
  BY <1>1, <1>9, CloseAliasInvariant
<1>10. CASE Approved(p, admin[p])
  BY <1>1, <1>10, ApprovedInvariant
<1>11. CASE WriteRevoked(p, admin[p])
  BY <1>1, <1>11, WriteRevokedInvariant
<1>12. QED
  BY <1>2, <1>3, <1>4, <1>5, <1>6, <1>7, <1>8, <1>9, <1>10, <1>11 DEF AdminStep

-----------------------------------------------------------------------------
(* Lab requests. *)

(* What a step of a lab request has to establish. *)
LEMMA RequestMoves ==
  ASSUME ServedInv, NEW s \in Session, NEW y, Advance(s, y),
         y # NoCall => y \in Request /\ SoundRequest(y),
         \/ cache' = cache
         \/ /\ cache'.rows \subseteq Host /\ cache'.at \in 0..now
            /\ ReadSince(cache'.rows, cache'.at),
         UNCHANGED <<listVars, corpusVars>>, events' \in [Kind -> Nat]
  PROVE  ServedInv'
<1>1. lab' = [lab EXCEPT ![s] = y] /\ lab \in [Session -> Request \cup {NoCall}]
  BY DEF Advance, ServedInv, TypeOK
<1>2. /\ store' = store /\ admin' = admin /\ decided' = decided
      /\ clean' = clean /\ revoked' = revoked
      /\ records' = records /\ rules' = rules /\ gone' = gone /\ now' = now
  BY DEF listVars, corpusVars
<1>3. cache' # NoCache =>
        cache'.rows \subseteq Host /\ cache'.at \in 0..now /\ ReadSince(cache'.rows, cache'.at)
  BY DEF ServedInv, TypeOK, CacheSound
<1>4. TypeOK'
  BY <1>1, <1>2, <1>3 DEF ServedInv, TypeOK, Fits
<1>5. AdminSound' /\ RevokedClosed'
  BY <1>2 DEF ServedInv, AdminSound, SoundCall, Fits, RevokedClosed, Approving
<1>6. CacheSound'
  BY <1>2, <1>3 DEF CacheSound, ReadSince
<1>7. RequestSound'
  <2>1. SUFFICES ASSUME NEW t \in Session, lab'[t] # NoCall
                 PROVE  SoundRequest(lab[t])'
    BY DEF RequestSound
  <2>2. SoundRequest(lab'[t])
    BY <1>1, <2>1 DEF ServedInv, RequestSound
  <2>3. QED
    BY <1>2, <2>2 DEF SoundRequest, ReadSince
<1>8. QED
  BY <1>4, <1>5, <1>6, <1>7 DEF ServedInv

LEMMA StartRequestInvariant ==
  ASSUME ServedInv, NEW s \in Session, NEW who \in Email,
         NEW route \in {"me", "corpus", "host"}, StartRequest(s, who, route)
  PROVE  ServedInv'
<1> DEFINE y == [who |-> who, route |-> route, began |-> now, out |-> revoked,
       covered |-> rules, pc |-> "row", login |-> NoLogin, rules |-> {},
       at |-> 0, todo |-> {}, rows |-> {}]
<1>1. Advance(s, y) /\ UNCHANGED <<listVars, corpusVars>> /\ cache' = cache
  BY DEF StartRequest
<1>2. y \in Request /\ SoundRequest(y)
  BY DEF Request, SoundRequest, ReadSince, ServedInv, TypeOK
<1>3. events' \in [Kind -> Nat]
  BY EventCounted DEF StartRequest, ServedInv, Kind
<1> HIDE DEF y
<1>4. QED
  BY <1>1, <1>2, <1>3, RequestMoves

(* What the request under way at s is known to be. *)
LEMMA UnderWay ==
  ASSUME ServedInv, NEW s \in Session, lab[s] # NoCall
  PROVE  /\ lab[s] \in Request /\ SoundRequest(lab[s])
         /\ lab[s].began \in Nat /\ lab[s].at \in Nat
         /\ now \in Nat /\ Ttl \in Nat \ {0} /\ gone \in [Host -> Nat]
         /\ events \in [Kind -> Nat]
BY AccessAssumption DEF ServedInv, TypeOK, RequestSound, Request

LEMMA ReadRowInvariant ==
  ASSUME ServedInv, NEW s \in Session, lab[s] # NoCall, ReadRow(s, lab[s]),
         UNCHANGED <<listVars, corpusVars, events>>
  PROVE  ServedInv'
<1> DEFINE q == lab[s]
           row == store[q.who]
           y == [q EXCEPT !.pc = "primary", !.login = row.login]
<1>1. q \in Request /\ SoundRequest(q) /\ events' \in [Kind -> Nat]
  BY UnderWay
<1>2. q.pc = "row" /\ cache' = cache
      /\ (Advance(s, NoCall) \/ (row # NoRow /\ Advance(s, y)))
  BY DEF ReadRow
<1>3. CASE Advance(s, NoCall)
  BY <1>1, <1>2, <1>3, RequestMoves
<1>4. CASE row # NoRow /\ Advance(s, y)
  <2>1. row.login \in Login
    BY <1>1, <1>4 DEF ServedInv, TypeOK, Request, Key, Row
  <2>2. /\ y \in Request /\ y.pc = "primary" /\ y.login = row.login
        /\ y.out = q.out /\ y.covered = q.covered /\ y.began = q.began
        /\ y.rows = q.rows /\ y.route = q.route
    BY <1>1, <2>1 DEF Request
  <2> HIDE DEF y
  <2>3. SoundRequest(y)
    BY <1>1, <1>2, <2>1, <2>2 DEF SoundRequest
  <2>4. QED
    BY <1>1, <1>2, <1>4, <2>2, <2>3, RequestMoves
<1>5. QED
  BY <1>2, <1>3, <1>4

LEMMA ReadPrimaryInvariant ==
  ASSUME ServedInv, NEW s \in Session, lab[s] # NoCall, ReadPrimary(s, lab[s]),
         UNCHANGED <<listVars, corpusVars, events>>
  PROVE  ServedInv'
<1> DEFINE q == lab[s]
           y == Admitted(q)
<1>1. q \in Request /\ SoundRequest(q) /\ events' \in [Kind -> Nat]
  BY UnderWay
<1>2. q.pc = "primary" /\ cache' = cache
      /\ (Advance(s, NoCall)
          \/ (Admits(q.who, store[q.who], store[q.login]) /\ Advance(s, y)))
  BY DEF ReadPrimary
<1>3. CASE Advance(s, NoCall)
  BY <1>1, <1>2, <1>3, RequestMoves
<1>4. CASE Admits(q.who, store[q.who], store[q.login]) /\ Advance(s, y)
  <2>1. q.login \in Login /\ q.out \subseteq revoked /\ q.rows = {}
    BY <1>1, <1>2 DEF SoundRequest
  <2>2. q.login \notin revoked
    BY <1>4 DEF Admits, ServedInv, RevokedClosed
  <2>3. /\ y \in Request /\ y.login = q.login
        /\ y.pc = IF q.route = "me" THEN "answer" ELSE "rules"
        /\ y.out = q.out /\ y.covered = q.covered /\ y.began = q.began
        /\ y.rows = q.rows /\ y.route = q.route
    BY <1>1 DEF Request, Admitted
  <2> HIDE DEF y
  <2>4. SoundRequest(y)
    BY <1>1, <2>1, <2>2, <2>3 DEF SoundRequest, ReadSince
  <2>5. QED
    BY <1>1, <1>2, <1>4, <2>3, <2>4, RequestMoves
<1>5. QED
  BY <1>2, <1>3, <1>4

LEMMA ReadRulesInvariant ==
  ASSUME ServedInv, NEW s \in Session, lab[s] # NoCall, ReadRules(s, lab[s]),
         UNCHANGED <<listVars, corpusVars, events>>
  PROVE  ServedInv'
<1> DEFINE q == lab[s]
           y == [q EXCEPT !.pc = IF q.route = "host" THEN "host" ELSE "cache",
                          !.rules = rules]
<1>1. q \in Request /\ SoundRequest(q) /\ events' \in [Kind -> Nat]
  BY UnderWay
<1>2. q.pc = "rules" /\ cache' = cache /\ Advance(s, y)
  BY DEF ReadRules
<1>3. rules \in SUBSET Host
  BY DEF ServedInv, TypeOK
<1>4. /\ y \in Request /\ y.login = q.login /\ y.rules = rules
      /\ y.pc = IF q.route = "host" THEN "host" ELSE "cache"
      /\ y.out = q.out /\ y.covered = q.covered /\ y.began = q.began
      /\ y.rows = q.rows /\ y.route = q.route
  BY <1>1, <1>3 DEF Request
<1> HIDE DEF y
<1>5. SoundRequest(y)
  BY <1>1, <1>2, <1>4 DEF SoundRequest
<1>6. QED
  BY <1>1, <1>2, <1>4, <1>5, RequestMoves

LEMMA ReadCacheInvariant ==
  ASSUME ServedInv, NEW s \in Session, lab[s] # NoCall, ReadCache(s, lab[s]),
         UNCHANGED <<listVars, corpusVars, events>>
  PROVE  ServedInv'
<1> DEFINE q == lab[s]
           served == [q EXCEPT !.pc = "answer", !.rows = cache.rows]
           missed == [q EXCEPT !.pc = "load", !.at = now, !.todo = Host]
<1>1. q \in Request /\ SoundRequest(q) /\ events' \in [Kind -> Nat]
  BY UnderWay
<1>2. q.pc = "cache" /\ cache' = cache
      /\ ((CacheServes /\ Advance(s, served)) \/ Advance(s, missed))
  BY DEF ReadCache
<1>3. q.rows = {} /\ q.route # "me" /\ q.began <= now
  BY <1>1, <1>2 DEF SoundRequest
<1>4. CASE CacheServes /\ Advance(s, served)
  <2>1. /\ cache.rows \in SUBSET Host /\ cache.at \in Nat /\ now - cache.at < Ttl
        /\ ReadSince(cache.rows, cache.at)
    BY <1>4 DEF CacheServes, ServedInv, TypeOK, CacheSound
  <2>2. ReadSince(cache.rows, (q.began - Ttl) + 1)
    <3>1. cache.at >= (q.began - Ttl) + 1
      BY <1>3, <2>1, UnderWay
    <3>2. \A h \in cache.rows : gone[h] \in Nat
      BY <2>1, UnderWay
    <3>3. QED
      BY <2>1, <3>1, <3>2, UnderWay DEF ReadSince
  <2>3. /\ served \in Request /\ served.login = q.login /\ served.rules = q.rules
        /\ served.pc = "answer" /\ served.rows = cache.rows
        /\ served.out = q.out /\ served.covered = q.covered
        /\ served.began = q.began /\ served.route = q.route
    BY <1>1, <2>1 DEF Request
  <2> HIDE DEF served
  <2>4. SoundRequest(served)
    BY <1>1, <1>2, <1>3, <2>2, <2>3 DEF SoundRequest
  <2>5. QED
    BY <1>1, <1>2, <1>4, <2>3, <2>4, RequestMoves
<1>5. CASE Advance(s, missed)
  <2>1. /\ missed \in Request /\ missed.login = q.login /\ missed.rules = q.rules
        /\ missed.pc = "load" /\ missed.rows = {} /\ missed.at = now
        /\ missed.out = q.out /\ missed.covered = q.covered
        /\ missed.began = q.began /\ missed.route = q.route
    BY <1>1, <1>3, UnderWay DEF Request
  <2> HIDE DEF missed
  <2>2. SoundRequest(missed)
    BY <1>1, <1>2, <1>3, <2>1, UnderWay DEF SoundRequest, ReadSince
  <2>3. QED
    BY <1>1, <1>2, <1>5, <2>1, <2>2, RequestMoves
<1>6. QED
  BY <1>2, <1>4, <1>5

LEMMA ReadRecordInvariant ==
  ASSUME ServedInv, NEW s \in Session, lab[s] # NoCall, ReadRecord(s, lab[s]),
         UNCHANGED <<listVars, corpusVars, events>>
  PROVE  ServedInv'
<1> DEFINE q == lab[s]
           y(h) == [q EXCEPT !.todo = @ \ {h}, !.rows = @ \cup ({h} \cap records)]
<1>1. q \in Request /\ SoundRequest(q) /\ events' \in [Kind -> Nat]
  BY UnderWay
<1>2. q.pc = "load" /\ cache' = cache
  BY DEF ReadRecord
<1>3. PICK h \in q.todo : Advance(s, y(h))
  BY DEF ReadRecord
<1>4. /\ y(h) \in Request /\ y(h).login = q.login /\ y(h).rules = q.rules
      /\ y(h).pc = "load" /\ y(h).rows = q.rows \cup ({h} \cap records)
      /\ y(h).at = q.at /\ y(h).out = q.out /\ y(h).covered = q.covered
      /\ y(h).began = q.began /\ y(h).route = q.route
  BY <1>1, <1>2 DEF Request
<1> HIDE DEF y
<1>5. SoundRequest(y(h))
  BY <1>1, <1>2, <1>4 DEF SoundRequest, ReadSince
<1>6. QED
  BY <1>1, <1>2, <1>3, <1>4, <1>5, RequestMoves

LEMMA FillCacheInvariant ==
  ASSUME ServedInv, NEW s \in Session, lab[s] # NoCall, FillCache(s, lab[s]),
         UNCHANGED <<listVars, corpusVars, events>>
  PROVE  ServedInv'
<1> DEFINE q == lab[s]
           y == [q EXCEPT !.pc = "answer"]
<1>1. q \in Request /\ SoundRequest(q) /\ events' \in [Kind -> Nat]
  BY UnderWay
<1>2. q.pc = "load" /\ cache' = Loaded(q) /\ Advance(s, y)
  BY DEF FillCache
<1>3. /\ q.began <= q.at /\ q.at <= now /\ ReadSince(q.rows, q.at)
      /\ q.rows \subseteq Host /\ q.route # "me"
  BY <1>1, <1>2 DEF SoundRequest, Request
<1>4. /\ cache'.rows \subseteq Host /\ cache'.at \in 0..now
      /\ ReadSince(cache'.rows, cache'.at)
  BY <1>2, <1>3, UnderWay DEF Loaded
<1>5. ReadSince(q.rows, (q.began - Ttl) + 1)
  <2>1. q.at >= (q.began - Ttl) + 1
    BY <1>3, UnderWay
  <2>2. \A h \in q.rows : gone[h] \in Nat
    BY <1>3, UnderWay
  <2>3. QED
    BY <1>3, <2>1, <2>2, UnderWay DEF ReadSince
<1>6. /\ y \in Request /\ y.login = q.login /\ y.rules = q.rules
      /\ y.pc = "answer" /\ y.rows = q.rows
      /\ y.out = q.out /\ y.covered = q.covered
      /\ y.began = q.began /\ y.route = q.route
  BY <1>1 DEF Request
<1> HIDE DEF y
<1>7. SoundRequest(y)
  BY <1>1, <1>2, <1>3, <1>5, <1>6 DEF SoundRequest
<1>8. QED
  BY <1>1, <1>2, <1>4, <1>6, <1>7, RequestMoves

LEMMA ReadHostInvariant ==
  ASSUME ServedInv, NEW s \in Session, lab[s] # NoCall, ReadHost(s, lab[s]),
         UNCHANGED <<listVars, corpusVars, events>>
  PROVE  ServedInv'
<1> DEFINE q == lab[s]
           y(h) == [q EXCEPT !.pc = "answer", !.rows = {h}]
<1>1. q \in Request /\ SoundRequest(q) /\ events' \in [Kind -> Nat]
  BY UnderWay
<1>2. q.pc = "host" /\ cache' = cache
  BY DEF ReadHost
<1>3. PICK h \in Host : \/ h \in records /\ Advance(s, y(h))
                        \/ Advance(s, NoCall)
  BY DEF ReadHost
<1>4. CASE Advance(s, NoCall)
  BY <1>1, <1>2, <1>4, RequestMoves
<1>5. CASE h \in records /\ Advance(s, y(h))
  <2>1. /\ y(h) \in Request /\ y(h).login = q.login /\ y(h).rules = q.rules
        /\ y(h).pc = "answer" /\ y(h).rows = {h}
        /\ y(h).out = q.out /\ y(h).covered = q.covered
        /\ y(h).began = q.began /\ y(h).route = q.route
    BY <1>1 DEF Request
  <2> HIDE DEF y
  <2>2. SoundRequest(y(h))
    BY <1>1, <1>2, <1>5, <2>1 DEF SoundRequest, ReadSince
  <2>3. QED
    BY <1>1, <1>2, <1>5, <2>1, <2>2, RequestMoves
<1>6. QED
  BY <1>3, <1>4, <1>5

LEMMA LabStepInvariant ==
  ASSUME ServedInv, NEW s \in Session, LabStep(s)
  PROVE  ServedInv'
<1>1. lab[s] # NoCall /\ UNCHANGED <<listVars, corpusVars, events>>
  BY DEF LabStep
<1>2. CASE Reply(s, lab[s]) \/ Fails(s)
  BY <1>1, <1>2, UnderWay, RequestMoves DEF Reply, Fails
<1>3. CASE ReadRow(s, lab[s])
  BY <1>1, <1>3, ReadRowInvariant
<1>4. CASE ReadPrimary(s, lab[s])
  BY <1>1, <1>4, ReadPrimaryInvariant
<1>5. CASE ReadRules(s, lab[s])
  BY <1>1, <1>5, ReadRulesInvariant
<1>6. CASE ReadCache(s, lab[s])
  BY <1>1, <1>6, ReadCacheInvariant
<1>7. CASE ReadRecord(s, lab[s])
  BY <1>1, <1>7, ReadRecordInvariant
<1>8. CASE FillCache(s, lab[s])
  BY <1>1, <1>8, FillCacheInvariant
<1>9. CASE ReadHost(s, lab[s])
  BY <1>1, <1>9, ReadHostInvariant
<1>10. QED
  BY <1>2, <1>3, <1>4, <1>5, <1>6, <1>7, <1>8, <1>9 DEF LabStep

-----------------------------------------------------------------------------
(* The corpus, the exclusions, time. *)

LEMMA OutsideInvariant ==
  ASSUME ServedInv, Outside
  PROVE  ServedInv'
<1>1. /\ records \subseteq Host /\ rules \subseteq Host /\ now \in Nat
      /\ gone \in [Host -> Nat] /\ lab \in [Session -> Request \cup {NoCall}]
  BY DEF ServedInv, TypeOK
<1>2. /\ store' = store /\ admin' = admin /\ decided' = decided
      /\ clean' = clean /\ revoked' = revoked /\ cache' = cache /\ lab' = lab
  BY DEF Outside, listVars
<1>3. /\ records' \subseteq Host /\ rules' \subseteq Host /\ rules \subseteq rules'
      /\ now' \in Nat /\ now <= now' /\ gone' \in [Host -> Nat]
      /\ \A h \in Host : \A t \in Int :
           t <= now /\ (h \in records \/ gone[h] >= t) =>
             h \in records' \/ gone'[h] >= t
  <2>1. CASE Tick
    BY <1>1, <2>1 DEF Tick
  <2>2. CASE \E h \in Host : Forget(h)
    BY <1>1, <2>2 DEF Forget
  <2>3. CASE \E h \in Host : Record(h)
    BY <1>1, <2>3 DEF Record
  <2>4. CASE \E h \in Host : Exclude(h)
    BY <1>1, <2>4 DEF Exclude
  <2>5. QED
    BY <2>1, <2>2, <2>3, <2>4 DEF Outside
<1>4. events' \in [Kind -> Nat]
  <2>1. Event("changes")
    BY DEF Outside, Tick, Forget, Record, Exclude
  <2>2. QED
    BY <2>1, EventCounted DEF ServedInv, Kind
<1>5. TypeOK'
  BY <1>2, <1>3, <1>4 DEF ServedInv, TypeOK, Fits
<1>6. AdminSound' /\ RevokedClosed'
  BY <1>2 DEF ServedInv, AdminSound, SoundCall, Fits, RevokedClosed, Approving
<1>7. CacheSound'
  BY <1>2, <1>3 DEF ServedInv, TypeOK, CacheSound, ReadSince
<1>8. RequestSound'
  <2>1. SUFFICES ASSUME NEW s \in Session, lab[s] # NoCall
                 PROVE  SoundRequest(lab[s])'
    BY <1>2 DEF RequestSound
  <2> DEFINE q == lab[s]
             from == (q.began - Ttl) + 1
  <2>2. /\ q \in Request /\ SoundRequest(q) /\ q.rows \subseteq Host
        /\ q.began \in Nat /\ q.at \in Nat /\ from \in Int /\ from <= q.began
        /\ q.began <= now
    BY <2>1, UnderWay DEF Request, SoundRequest
  <2>3. from <= now
    BY <1>1, <2>2
  <2>4. ReadSince(q.rows, from) =>
          \A h \in q.rows : h \in records' \/ gone'[h] >= from
    BY <1>3, <2>2, <2>3 DEF ReadSince
  <2>5. q.at <= now /\ ReadSince(q.rows, q.at) =>
          \A h \in q.rows : h \in records' \/ gone'[h] >= q.at
    BY <1>3, <2>2 DEF ReadSince
  <2>6. q.at <= now => q.at <= now'
    BY <1>1, <1>3, <2>2
  <2>7. q.began <= now'
    BY <1>1, <1>3, <2>2
  <2>8. QED
    BY <1>2, <1>3, <2>2, <2>4, <2>5, <2>6, <2>7 DEF SoundRequest, ReadSince
<1>9. QED
  BY <1>5, <1>6, <1>7, <1>8 DEF ServedInv

-----------------------------------------------------------------------------
(* The theorems. *)

LEMMA InitInvariant ==
  ASSUME Init
  PROVE  ServedInv
<1>1. PICK A \in SUBSET Email, u \in Login :
        /\ decided = {u} \X A
        /\ store = [k \in Key |->
             IF A # {} /\ (k = u \/ k \in A)
             THEN [login |-> u, aliases |-> A, active |-> TRUE, alias |-> k # u]
             ELSE NoRow]
  BY DEF Init
<1>2. /\ admin = [p \in Admin |-> NoCall] /\ records = Host /\ rules = {}
      /\ cache = NoCache /\ lab = [s \in Session |-> NoCall]
      /\ now = 0 /\ events = [kind \in Kind |-> 0] /\ clean = TRUE
      /\ revoked = {} /\ gone = [h \in Host |-> 0]
  BY DEF Init
<1>3. store \in [Key -> Row \cup {NoRow}]
  BY <1>1 DEF Row
<1>4. ASSUME NEW k \in Key, store[k] # NoRow PROVE Fits(store[k], k)
  <2>1. /\ k = u \/ k \in A
        /\ store[k].login = u /\ store[k].alias = (k # u)
    BY <1>1, <1>4
  <2>2. \/ (k # u) = TRUE /\ (k \in Email) = TRUE
        \/ (k # u) = FALSE /\ (k \in Email) = FALSE
    BY <2>1, AccessAssumption
  <2>3. k \in Login => k = u
    BY <2>1, AccessAssumption
  <2>4. store[k].alias = (k \in Email)
    <3>1. store[k].alias = (k # u)
      BY <2>1, Zenon
    <3>2. CASE (k # u) = TRUE /\ (k \in Email) = TRUE
      BY <3>1, <3>2, Zenon
    <3>3. CASE (k # u) = FALSE /\ (k \in Email) = FALSE
      BY <3>1, <3>3, Zenon
    <3>4. QED
      BY <2>2, <3>2, <3>3, Zenon
  <2>5. QED
    BY <2>1, <2>3, <2>4 DEF Fits
<1>5. TypeOK
  BY <1>1, <1>2, <1>3, <1>4 DEF TypeOK
<1>6. QED
  BY <1>2, <1>5 DEF ServedInv, AdminSound, RevokedClosed, CacheSound, RequestSound

LEMMA StepInvariant ==
  ASSUME ServedInv, [Next]_vars
  PROVE  ServedInv'
<1>1. ASSUME NEW p \in Admin, NEW u \in Login, NEW aliases \in SUBSET Email,
             StartApprove(p, u, aliases)
      PROVE  ServedInv'
  BY <1>1, StartApproveInvariant
<1>2. ASSUME NEW p \in Admin, NEW key \in Key, StartRevoke(p, key)
      PROVE  ServedInv'
  BY <1>2, StartRevokeInvariant
<1>3. ASSUME NEW p \in Admin, AdminStep(p) PROVE ServedInv'
  BY <1>3, AdminStepInvariant
<1>4. ASSUME NEW s \in Session, NEW who \in Email,
             NEW route \in {"me", "corpus", "host"}, StartRequest(s, who, route)
      PROVE  ServedInv'
  BY <1>4, StartRequestInvariant
<1>5. ASSUME NEW s \in Session, LabStep(s) PROVE ServedInv'
  BY <1>5, LabStepInvariant
<1>6. CASE Outside
  BY <1>6, OutsideInvariant
<1>7. CASE UNCHANGED vars
  <2>1. /\ store' = store /\ admin' = admin /\ decided' = decided
        /\ clean' = clean /\ revoked' = revoked
        /\ records' = records /\ rules' = rules /\ gone' = gone /\ now' = now
        /\ cache' = cache /\ lab' = lab /\ events' = events
    BY <1>7 DEF vars, listVars, corpusVars
  <2>2. QED
    BY <2>1 DEF ServedInv, TypeOK, AdminSound, SoundCall, Fits, RevokedClosed,
                Approving, CacheSound, RequestSound, SoundRequest, ReadSince
<1>8. QED
  BY <1>1, <1>2, <1>3, <1>4, <1>5, <1>6, <1>7 DEF Next

-----------------------------------------------------------------------------
(* The allowlist says what was decided, while calls neither overlap nor break *)
(* off. *)

(* What is known of a call that runs alone. *)
LEMMA LoneFacts ==
  ASSUME ServedInv, SettledInv, clean, NEW p \in Admin, admin[p] # NoCall
  PROVE  /\ LoneCall(admin[p]) /\ admin[p] \in AdminCall /\ SoundCall(admin[p])
         /\ \A u \in Login : Settled(u) \/ Writes(admin[p], u)
BY DEF ServedInv, TypeOK, AdminSound, SettledInv, Writes

LEMMA ListFacts ==
  ASSUME ServedInv
  PROVE  /\ store \in [Key -> Row \cup {NoRow}]
         /\ \A k \in Key : store[k] # NoRow => store[k] \in Row /\ Fits(store[k], k)
         /\ decided \subseteq Login \X Email /\ clean \in BOOLEAN
         /\ \A u \in Login : u \in Key /\ u \notin Email
         /\ \A e \in Email : e \in Key /\ e \notin Login
  <1>1. store \in [Key -> Row \cup {NoRow}] /\ decided \subseteq Login \X Email
        /\ clean \in BOOLEAN
    BY DEF ServedInv, TypeOK
  <1>2. \A k \in Key : store[k] # NoRow => store[k] \in Row /\ Fits(store[k], k)
    BY <1>1 DEF ServedInv, TypeOK
  <1>3. \A e : e \in Login \cup Email => e \in Key
    BY DEF Key
  <1>4. QED
    BY <1>1, <1>2, <1>3, AccessAssumption

(* What a step of the call has to establish. *)
LEMMA LoneMoves ==
  ASSUME ServedInv, SettledInv, NEW p \in Admin, admin[p] # NoCall,
         \A q \in Admin : q # p => admin'[q] = admin[q],
         clean' => clean,
         clean' /\ admin'[p] # NoCall => LoneCall(admin[p])',
         clean' => \A u \in Login : Settled(u)' \/ Writes(admin[p], u)'
  PROVE  SettledInv'
<1>1. SUFFICES ASSUME clean'
               PROVE  /\ \A q, s \in Admin :
                           admin'[q] # NoCall /\ admin'[s] # NoCall => q = s
                      /\ \A q \in Admin : admin'[q] # NoCall => LoneCall(admin[q])'
                      /\ \A u \in Login : Settled(u)' \/ \E q \in Admin : Writes(admin[q], u)'
  BY DEF SettledInv
<1>2. \A q \in Admin : q # p => admin'[q] = NoCall
  BY <1>1 DEF SettledInv
<1>3. QED
  BY <1>1, <1>2

(* What the operator has of the call once it moved. *)
LEMMA ProceedFacts ==
  ASSUME ServedInv, NEW p \in Admin, NEW y, Proceed(p, y)
  PROVE  /\ admin'[p] = y
         /\ \A q \in Admin : q # p => admin'[q] = admin[q]
BY DEF ServedInv, TypeOK, Proceed

(* Settled rows that a step leaves alone stay settled. *)
LEMMA StaysSettled ==
  ASSUME NEW v \in Login, Settled(v), store'[v] = store[v],
         \A e \in Email : <<v, e>> \in decided' <=> <<v, e>> \in decided,
         store[v] # NoRow => \A e \in store[v].aliases : store'[e] = store[e]
  PROVE  Settled(v)'
BY DEF Settled, Agrees, Owns, Holds

LEMMA AbandonSettles ==
  ASSUME ServedInv, SettledInv, NEW p \in Admin, admin[p] # NoCall, Abandon(p),
         admin[p].pc # "write", clean' = clean
  PROVE  SettledInv'
<1>1. /\ admin'[p] = NoCall /\ \A q \in Admin : q # p => admin'[q] = admin[q]
  BY ProceedFacts DEF Abandon
<1>2. UNCHANGED <<store, decided>>
  BY DEF Abandon
<1>3. ASSUME clean, NEW u \in Login
      PROVE  Settled(u)'
  BY <1>2, <1>3, LoneFacts, StaysSettled DEF Writes
<1>4. QED
  BY <1>1, <1>3, LoneMoves

LEMMA ResolveSettles ==
  ASSUME ServedInv, SettledInv, NEW p \in Admin, admin[p] # NoCall,
         Resolve(p, admin[p])
  PROVE  SettledInv'
<1> DEFINE r == admin[p]
           u == IF store[r.user] # NoRow /\ store[r.user].alias
                THEN store[r.user].login ELSE r.user
           y == [r EXCEPT !.pc = "read", !.user = u]
<1>1. r.pc = "resolve" /\ Proceed(p, y) /\ UNCHANGED <<store, decided, clean>>
  BY DEF Resolve
<1>2. admin'[p] = y /\ \A q \in Admin : q # p => admin'[q] = admin[q]
  BY <1>1, ProceedFacts
<1>3. ASSUME clean
      PROVE  LoneCall(admin[p])'
  <2>1. r \in AdminCall /\ SoundCall(r) /\ LoneCall(r)
    BY <1>3, LoneFacts
  <2>2. /\ y.pc = "read" /\ y.user = u /\ y.todo = r.todo /\ y.aliases = r.aliases
        /\ y.held = r.held
    BY <2>1 DEF AdminCall
  <2>3. r.held = NoRow
    BY <1>1, <2>1 DEF LoneCall
  <2>4. u \in Email => store[u] = NoRow
    BY <2>1, ListFacts DEF AdminCall, Fits, Row
  <2> HIDE DEF y, u
  <2>5. QED
    BY <1>1, <1>2, <2>1, <2>2, <2>3, <2>4 DEF LoneCall
<1>4. ASSUME clean, NEW v \in Login
      PROVE  Settled(v)'
  BY <1>1, <1>4, LoneFacts, StaysSettled DEF Writes
<1>5. QED
  BY <1>1, <1>2, <1>3, <1>4, LoneMoves

LEMMA ReadExistingSettles ==
  ASSUME ServedInv, SettledInv, NEW p \in Admin, admin[p] # NoCall,
         ReadExisting(p, admin[p])
  PROVE  SettledInv'
<1> DEFINE r == admin[p]
           y == [r EXCEPT !.existing = store[r.user],
                   !.pc = IF r.op = "approve" THEN "check" ELSE "write",
                   !.todo = r.aliases,
                   !.closing = AliasesOf(store[r.user]) \ r.aliases]
<1>1. CASE Abandon(p) /\ UNCHANGED clean
  BY <1>1, AbandonSettles DEF ReadExisting
<1>2. CASE Proceed(p, y) /\ UNCHANGED <<store, decided, clean>>
  <2>1. admin'[p] = y /\ \A q \in Admin : q # p => admin'[q] = admin[q]
    BY <1>2, ProceedFacts
  <2>2. r.pc = "read"
    BY DEF ReadExisting
  <2>3. ASSUME clean, NEW v \in Login
        PROVE  Settled(v) /\ Settled(v)'
    BY <1>2, <2>2, <2>3, LoneFacts, StaysSettled DEF Writes
  <2>4. ASSUME clean
        PROVE  LoneCall(admin[p])'
    <3>1. r \in AdminCall /\ SoundCall(r) /\ LoneCall(r)
      BY <2>4, LoneFacts
    <3>2. /\ y.pc = (IF r.op = "approve" THEN "check" ELSE "write")
          /\ y.op = r.op /\ y.user = r.user /\ y.existing = store[r.user]
          /\ y.todo = r.aliases /\ y.aliases = r.aliases /\ y.held = r.held
          /\ y.closing = AliasesOf(store[r.user]) \ r.aliases
      BY <3>1 DEF AdminCall
    <3> HIDE DEF y
    <3>3. r.held = NoRow /\ r.op \in {"approve", "revoke"}
      BY <2>2, <3>1 DEF LoneCall, AdminCall
    <3>4. r.user \in Email => store[r.user] = NoRow
      BY <2>2, <3>1 DEF LoneCall
    <3>5. r.user \in Login \cup Email
      BY <3>1 DEF AdminCall, Key
    <3>6. Owns(r.user)
      BY <2>3, <2>4, <3>4, <3>5 DEF Settled, Owns
    <3>7. \A e \in y.closing : Holds(r.user, e) /\ e \notin r.aliases
      BY <3>2, <3>6 DEF AliasesOf, Owns
    <3>8. QED
      BY <1>2, <2>1, <3>2, <3>3, <3>4, <3>6, <3>7 DEF LoneCall, Holds, Owns
  <2>5. QED
    BY <1>2, <2>1, <2>3, <2>4, LoneMoves
<1>3. QED
  BY <1>1, <1>2 DEF ReadExisting

LEMMA CheckAliasSettles ==
  ASSUME ServedInv, SettledInv, NEW p \in Admin, admin[p] # NoCall,
         CheckAlias(p, admin[p])
  PROVE  SettledInv'
<1> DEFINE r == admin[p]
<1>1. CASE Abandon(p) /\ UNCHANGED clean
  BY <1>1, AbandonSettles DEF CheckAlias
<1>2. ASSUME NEW e \in r.todo, ~Taken(store[e], r.user),
             Proceed(p, [r EXCEPT !.todo = @ \ {e}]),
             UNCHANGED <<store, decided, clean>>
      PROVE  SettledInv'
  <2> DEFINE y == [r EXCEPT !.todo = @ \ {e}]
  <2>1. admin'[p] = y /\ \A q \in Admin : q # p => admin'[q] = admin[q]
    BY <1>2, ProceedFacts
  <2>2. r.pc = "check"
    BY DEF CheckAlias
  <2>3. ASSUME clean, NEW v \in Login
        PROVE  Settled(v)'
    BY <1>2, <2>2, <2>3, LoneFacts, StaysSettled DEF Writes
  <2>4. ASSUME clean
        PROVE  LoneCall(admin[p])'
    <3>1. r \in AdminCall /\ LoneCall(r)
      BY <2>4, LoneFacts
    <3>2. /\ y.pc = "check" /\ y.user = r.user /\ y.todo = r.todo \ {e}
          /\ y.aliases = r.aliases /\ y.closing = r.closing /\ y.held = r.held
      BY <2>2, <3>1 DEF AdminCall
    <3> HIDE DEF y
    <3>3. QED
      BY <1>2, <2>1, <2>2, <3>1, <3>2 DEF LoneCall, Holds
  <2>5. QED
    BY <1>2, <2>1, <2>3, <2>4, LoneMoves
<1>3. QED
  BY <1>1, <1>2 DEF CheckAlias

LEMMA WriteEntrySettles ==
  ASSUME ServedInv, SettledInv, NEW p \in Admin, admin[p] # NoCall,
         WriteEntry(p, admin[p])
  PROVE  SettledInv'
<1> DEFINE r == admin[p]
           y == [r EXCEPT !.pc = "write", !.todo = r.aliases]
<1>1. /\ r.pc = "check" /\ r.todo = {} /\ Proceed(p, y)
      /\ store' = [store EXCEPT ![r.user] = EntryRow(r)]
      /\ UNCHANGED <<decided, clean>>
  BY DEF WriteEntry
<1>2. admin'[p] = y /\ \A q \in Admin : q # p => admin'[q] = admin[q]
  BY <1>1, ProceedFacts
<1>3. ASSUME clean
      PROVE  /\ LoneCall(admin[p])'
             /\ \A v \in Login : Settled(v)' \/ Writes(admin[p], v)'
  <2>1. r \in AdminCall /\ SoundCall(r) /\ LoneCall(r)
    BY <1>3, LoneFacts
  <2>2. r.op = "approve" /\ r.user \in Login
    BY <1>1, <2>1 DEF SoundCall, AdminCall
  <2>3. /\ y.pc = "write" /\ y.op = "approve" /\ y.user = r.user
        /\ y.todo = r.aliases /\ y.aliases = r.aliases
        /\ y.closing = r.closing /\ y.held = r.held /\ y \in AdminCall
    BY <2>1, <2>2 DEF AdminCall
  <2> HIDE DEF y
  <2>4. /\ store'[r.user] = EntryRow(r)
        /\ \A k \in Key : k # r.user => store'[k] = store[k]
    BY <1>1, <2>2, ListFacts
  <2>5. \A e \in Email : store'[e] = store[e]
    BY <2>2, <2>4, ListFacts
  <2>6. r.aliases \subseteq Email /\ r.closing \subseteq Email /\ r.held = NoRow
    BY <1>1, <2>1 DEF AdminCall, LoneCall
  <2>7. EntryRow(y) = EntryRow(r)
    BY <2>3 DEF EntryRow
  <2>8. LoneCall(admin[p])'
    <3>1. \A e \in r.closing :
            /\ store'[e] # NoRow /\ store'[e].login = r.user
            /\ e \notin r.aliases
      BY <1>1, <2>1, <2>5, <2>6 DEF LoneCall, Holds
    <3>2. \A e \in r.aliases : store'[e] # NoRow => store'[e].login = r.user
      BY <1>1, <2>1, <2>5, <2>6 DEF LoneCall, Taken
    <3>3. QED
      BY <1>2, <2>2, <2>3, <2>4, <2>6, <2>7, <3>1, <3>2 DEF LoneCall, Holds, Taken
  <2>9. ASSUME NEW v \in Login, v # r.user
        PROVE  Settled(v)'
    <3>1. Settled(v) /\ store'[v] = store[v]
      BY <1>1, <1>3, <2>4, <2>9, LoneFacts, ListFacts DEF Writes
    <3>2. store[v] # NoRow => store[v].aliases \subseteq Email
      BY <2>9, ListFacts DEF Row
    <3>3. QED
      BY <1>1, <2>5, <3>1, <3>2, StaysSettled
  <2>10. admin'[p] # NoCall /\ admin'[p].pc = "write" /\ admin'[p].user = admin[p].user
    BY <1>2, <2>3, CallAssumption
  <2>11. QED
    BY <2>8, <2>9, <2>10 DEF Writes
<1>4. QED
  BY <1>1, <1>2, <1>3, LoneMoves

(* While the call writes, everyone else's rows stay as they are: the emails   *)
(* it writes are nobody else's. *)
LEMMA OthersStaySettled ==
  ASSUME ServedInv, SettledInv, clean, NEW p \in Admin, admin[p] # NoCall,
         NEW e \in Email, store[e] # NoRow => store[e].login = admin[p].user,
         \A k \in Key : k # e => store'[k] = store[k],
         decided' = decided, NEW v \in Login, v # admin[p].user
  PROVE  Settled(v)'
<1>1. Settled(v)
  BY LoneFacts DEF Writes
<1>2. store'[v] = store[v] /\ (store[v] # NoRow => store[v].aliases \subseteq Email)
  BY ListFacts DEF Row
<1>3. store[v] # NoRow => \A d \in store[v].aliases : d # e /\ d \in Key
  BY <1>1, <1>2, ListFacts DEF Settled, Owns, Holds
<1>4. QED
  BY <1>1, <1>2, <1>3, StaysSettled

LEMMA WriteAliasSettles ==
  ASSUME ServedInv, SettledInv, NEW p \in Admin, admin[p] # NoCall,
         WriteAlias(p, admin[p])
  PROVE  SettledInv'
<1> DEFINE r == admin[p]
<1>1. SUFFICES ASSUME NEW e \in r.todo,
                      store' = [store EXCEPT ![e] = AliasRow(r)],
                      Proceed(p, [r EXCEPT !.todo = @ \ {e}]),
                      UNCHANGED <<decided, clean>>
               PROVE  SettledInv'
  BY DEF WriteAlias
<1> DEFINE y == [r EXCEPT !.todo = @ \ {e}]
<1>2. admin'[p] = y /\ (\A q \in Admin : q # p => admin'[q] = admin[q]) /\ r.pc = "write"
  BY <1>1, ProceedFacts DEF WriteAlias
<1>3. ASSUME clean
      PROVE  /\ LoneCall(admin[p])'
             /\ \A v \in Login : Settled(v)' \/ Writes(admin[p], v)'
  <2>1. r \in AdminCall /\ SoundCall(r) /\ LoneCall(r)
    BY <1>3, LoneFacts
  <2>2. r.op = "approve" /\ r.user \in Login
    BY <2>1 DEF SoundCall, AdminCall
  <2>3. /\ y.pc = "write" /\ y.op = "approve" /\ y.user = r.user
        /\ y.todo = r.todo \ {e} /\ y.aliases = r.aliases
        /\ y.closing = r.closing /\ y.held = r.held /\ y \in AdminCall
    BY <1>2, <2>1, <2>2 DEF AdminCall
  <2> HIDE DEF y
  <2>4. /\ e \in r.aliases /\ r.aliases \subseteq Email /\ r.closing \subseteq Email
        /\ e \notin r.closing
    BY <2>1, <1>2 DEF AdminCall, LoneCall
  <2>5. /\ store'[e] = AliasRow(r) /\ AliasRow(r) = AliasRow(y)
        /\ EntryRow(r) = EntryRow(y)
        /\ \A k \in Key : k # e => store'[k] = store[k]
    BY <1>1, <2>3, <2>4, ListFacts DEF AliasRow, EntryRow
  <2>6. store'[r.user] = store[r.user] /\ \A d \in Email : d # e => store'[d] = store[d]
    BY <2>2, <2>4, <2>5, ListFacts
  <2>7. store[e] # NoRow => store[e].login = r.user
    BY <1>2, <2>1, <2>2, <2>4 DEF LoneCall, Taken
  <2>8. r.held # NoRow => r.held[1] \in r.closing /\ r.held[2] = store'[r.held[1]]
    BY <2>1, <2>4, <2>6 DEF LoneCall
  <2>9. /\ \A d \in r.closing : store'[d] = store[d]
        /\ \A d \in r.aliases : d # e => store'[d] = store[d]
    BY <2>4, <2>6
  <2>10. LoneCall(admin[p])'
    BY <1>2, <2>1, <2>2, <2>3, <2>4, <2>5, <2>6, <2>8, <2>9
    DEF LoneCall, Holds
  <2>11. ASSUME NEW v \in Login, v # r.user
         PROVE  Settled(v)'
    BY <1>1, <1>3, <2>4, <2>5, <2>7, <2>11, OthersStaySettled
  <2>12. admin'[p] # NoCall /\ admin'[p].pc = "write" /\ admin'[p].user = admin[p].user
    BY <1>2, <2>3, CallAssumption
  <2>13. QED
    BY <2>10, <2>11, <2>12 DEF Writes
<1>4. QED
  BY <1>1, <1>2, <1>3, LoneMoves

LEMMA ReadAliasSettles ==
  ASSUME ServedInv, SettledInv, NEW p \in Admin, admin[p] # NoCall,
         ReadAlias(p, admin[p])
  PROVE  SettledInv'
<1> DEFINE r == admin[p]
           took(e) == [r EXCEPT !.held = <<e, store[e]>>]
           left(e) == [r EXCEPT !.closing = @ \ {e}]
<1>1. PICK e \in r.closing :
        \/ store[e] # NoRow /\ Proceed(p, took(e))
        \/ Proceed(p, left(e))
  BY DEF ReadAlias
<1>2. UNCHANGED <<store, decided, clean>> /\ r.pc = "write" /\ r.held = NoRow
  BY DEF ReadAlias
<1>3. ASSUME clean, NEW y, Proceed(p, y), y \in AdminCall,
             y.pc = "write", y.op = r.op, y.user = r.user, y.todo = r.todo,
             y.aliases = r.aliases, y.existing = r.existing,
             y.closing \subseteq r.closing,
             y.held # NoRow => y.held[1] \in y.closing /\ y.held[2] = store[y.held[1]]
      PROVE  /\ LoneCall(admin[p])'
             /\ \A v \in Login : Settled(v)' \/ Writes(admin[p], v)'
  <2>1. r \in AdminCall /\ SoundCall(r) /\ LoneCall(r)
    BY <1>3, LoneFacts
  <2>2. admin'[p] = y /\ y # NoCall
    BY <1>3, ProceedFacts, CallAssumption
  <2>3. EntryRow(y) = EntryRow(r) /\ AliasRow(y) = AliasRow(r)
    BY <1>3 DEF EntryRow, AliasRow
  <2>4. LoneCall(admin[p])'
    BY <1>2, <1>3, <2>1, <2>2, <2>3 DEF LoneCall, Holds, Owns
  <2>5. ASSUME NEW v \in Login
        PROVE  Settled(v)' \/ v = r.user
    BY <1>2, <1>3, <2>5, LoneFacts, StaysSettled DEF Writes
  <2>6. admin'[p] # NoCall /\ admin'[p].pc = "write" /\ admin'[p].user = admin[p].user
    BY <1>3, <2>2
  <2>7. QED
    BY <2>4, <2>5, <2>6 DEF Writes
<1>4. ASSUME clean
      PROVE  /\ LoneCall(admin[p])'
             /\ \A v \in Login : Settled(v)' \/ Writes(admin[p], v)'
  <2>1. r \in AdminCall /\ e \in Email /\ e \in Key
    BY <1>4, LoneFacts, ListFacts DEF AdminCall
  <2>2. CASE store[e] # NoRow /\ Proceed(p, took(e))
    <3>1. /\ took(e) \in AdminCall /\ took(e).op = r.op /\ took(e).user = r.user
          /\ took(e).held = <<e, store[e]>> /\ took(e).existing = r.existing
          /\ took(e).pc = "write" /\ took(e).aliases = r.aliases
          /\ took(e).todo = r.todo /\ took(e).closing = r.closing
      BY <1>2, <2>1, <2>2, ListFacts DEF AdminCall
    <3> HIDE DEF took
    <3>2. QED
      BY <1>3, <1>4, <2>2, <3>1
  <2>3. CASE Proceed(p, left(e))
    <3>1. /\ left(e) \in AdminCall /\ left(e).op = r.op /\ left(e).user = r.user
          /\ left(e).held = NoRow /\ left(e).existing = r.existing
          /\ left(e).pc = "write" /\ left(e).aliases = r.aliases
          /\ left(e).todo = r.todo /\ left(e).closing \subseteq r.closing
      BY <1>2, <2>1 DEF AdminCall
    <3> HIDE DEF left
    <3>2. QED
      BY <1>3, <1>4, <2>3, <3>1
  <2>4. QED
    BY <1>1, <2>2, <2>3
<1>5. \A q \in Admin : q # p => admin'[q] = admin[q]
  BY <1>1, ProceedFacts
<1>6. QED
  BY <1>2, <1>4, <1>5, LoneMoves

LEMMA CloseAliasSettles ==
  ASSUME ServedInv, SettledInv, NEW p \in Admin, admin[p] # NoCall,
         CloseAlias(p, admin[p])
  PROVE  SettledInv'
<1> DEFINE r == admin[p]
           e == r.held[1]
           y == [r EXCEPT !.closing = @ \ {e}, !.held = NoRow]
<1>1. /\ r.held # NoRow
      /\ store' = [store EXCEPT ![e] = Closed(r.held[2])]
      /\ Proceed(p, y)
      /\ UNCHANGED <<decided, clean>>
  BY DEF CloseAlias
<1>2. admin'[p] = y /\ \A q \in Admin : q # p => admin'[q] = admin[q]
  BY <1>1, ProceedFacts
<1>3. ASSUME clean
      PROVE  /\ LoneCall(admin[p])'
             /\ \A v \in Login : Settled(v)' \/ Writes(admin[p], v)'
  <2>1. r \in AdminCall /\ SoundCall(r) /\ LoneCall(r)
    BY <1>3, LoneFacts
  <2>2. /\ y.pc = "write" /\ y.op = r.op /\ y.user = r.user
        /\ y.todo = r.todo /\ y.aliases = r.aliases /\ y.existing = r.existing
        /\ y.closing = r.closing \ {e} /\ y.held = NoRow /\ y \in AdminCall
    BY <1>1, <2>1 DEF AdminCall, LoneCall
  <2>3. /\ e \in Email /\ e \in r.closing /\ e \notin r.aliases /\ r.pc = "write"
        /\ r.closing \subseteq Email /\ r.aliases \subseteq Email
        /\ r.held[2] = store[e] /\ Holds(r.user, e)
    BY <1>1, <2>1 DEF AdminCall, LoneCall
  <2> HIDE DEF y, e
  <2>4. /\ store[e] \in Row /\ store[e] # NoRow /\ store[e].login = r.user
        /\ r.user \in Login
    BY <2>3, ListFacts DEF Holds, Row
  <2>5. \A k \in Key : k # e => store'[k] = store[k]
    BY <1>1, ListFacts
  <2>6. store'[e] # NoRow /\ store'[e].login = r.user
    BY <1>1, <2>3, <2>4, ListFacts, ClosedRow
  <2>7. /\ store'[r.user] = store[r.user]
        /\ \A d \in Email : d # e => store'[d] = store[d]
    BY <2>3, <2>4, <2>5, ListFacts
  <2>8. /\ \A d \in r.closing \ {e} : store'[d] = store[d]
        /\ \A d \in r.aliases : store'[d] = store[d]
    BY <2>3, <2>7
  <2>9. ASSUME Owns(r.user), store[r.user] # NoRow, NEW d \in store[r.user].aliases
        PROVE  store'[d] # NoRow /\ store'[d].login = r.user
    <3>1. d \in Email /\ Holds(r.user, d)
      BY <2>4, <2>9, ListFacts DEF Owns, Row
    <3>2. QED
      BY <2>6, <2>7, <3>1 DEF Holds
  <2>10. EntryRow(y) = EntryRow(r) /\ AliasRow(y) = AliasRow(r)
    BY <2>2 DEF EntryRow, AliasRow
  <2>11. LoneCall(admin[p])'
    <3>1. \A d \in r.closing \ {e} :
            store'[d] # NoRow /\ store'[d].login = r.user /\ d \notin r.aliases
      BY <2>1, <2>3, <2>8 DEF LoneCall, Holds
    <3>2. r.op = "approve" =>
            /\ store'[r.user] = EntryRow(r)
            /\ \A d \in r.aliases :
                 IF d \in r.todo THEN store'[d] # NoRow => store'[d].login = r.user
                 ELSE store'[d] = AliasRow(r)
      BY <2>1, <2>3, <2>7, <2>8 DEF LoneCall, Taken
    <3>3. r.op = "revoke" =>
            /\ store'[r.user] = r.existing
            /\ store'[r.user] # NoRow => \A d \in store'[r.user].aliases :
                 store'[d] # NoRow /\ store'[d].login = r.user
            /\ r.user \in Email => r.existing = NoRow
      BY <2>1, <2>3, <2>7, <2>9 DEF LoneCall
    <3>4. y.todo \subseteq y.aliases
      BY <2>1, <2>2 DEF LoneCall
    <3>5. QED
      BY <1>2, <2>2, <2>10, <3>1, <3>2, <3>3, <3>4 DEF LoneCall, Holds, Owns, Taken
  <2>12. ASSUME NEW v \in Login, v # r.user
         PROVE  Settled(v)'
    BY <1>1, <1>3, <2>3, <2>4, <2>5, <2>12, OthersStaySettled
  <2>13. admin'[p] # NoCall /\ admin'[p].pc = "write" /\ admin'[p].user = admin[p].user
    BY <1>2, <2>2, CallAssumption
  <2>14. QED
    BY <2>11, <2>12, <2>13 DEF Writes
<1>4. QED
  BY <1>1, <1>2, <1>3, LoneMoves

LEMMA ApprovedSettles ==
  ASSUME ServedInv, SettledInv, NEW p \in Admin, admin[p] # NoCall,
         Approved(p, admin[p])
  PROVE  SettledInv'
<1> DEFINE r == admin[p]
<1>1. /\ r.op = "approve" /\ r.pc = "write" /\ r.todo = {}
      /\ Proceed(p, NoCall)
      /\ decided' = Others(r.user) \cup ({r.user} \X r.aliases)
      /\ UNCHANGED <<store, clean>>
  BY DEF Approved, Done
<1>2. admin'[p] = NoCall /\ \A q \in Admin : q # p => admin'[q] = admin[q]
  BY <1>1, ProceedFacts
<1>3. ASSUME clean, NEW v \in Login
      PROVE  Settled(v)'
  <2>1. r \in AdminCall /\ SoundCall(r) /\ LoneCall(r)
    BY <1>3, LoneFacts
  <2>2. r.user \in Login /\ r.aliases \subseteq Email
    BY <1>1, <2>1 DEF SoundCall, AdminCall
  <2>3. CASE v # r.user
    BY <1>1, <1>3, <2>3, LoneFacts, StaysSettled DEF Others, Writes
  <2>4. CASE v = r.user
    <3>1. /\ store[v] # NoRow /\ store[v].active /\ store[v].aliases = r.aliases
          /\ \A e \in r.aliases :
               store[e] # NoRow /\ store[e].active /\ store[e].login = v
      <4>1. /\ store[v] = EntryRow(r)
            /\ \A e \in r.aliases : store[e] = AliasRow(r)
        BY <1>1, <2>1, <2>4 DEF LoneCall
      <4>2. EntryRow(r) # NoRow /\ AliasRow(r) # NoRow
        BY <2>1, <2>2, OpenRows, AccessAssumption DEF Row
      <4>3. QED
        BY <2>4, <4>1, <4>2 DEF EntryRow, AliasRow
    <3>2. {e \in Email : <<v, e>> \in decided'} = r.aliases
      BY <1>1, <2>2, <2>4 DEF Others
    <3>3. QED
      BY <1>1, <3>1, <3>2 DEF Settled, Agrees, Owns, Holds
  <2>5. QED
    BY <2>3, <2>4
<1>4. QED
  BY <1>1, <1>2, <1>3, LoneMoves

LEMMA WriteRevokedSettles ==
  ASSUME ServedInv, SettledInv, NEW p \in Admin, admin[p] # NoCall,
         WriteRevoked(p, admin[p])
  PROVE  SettledInv'
<1> DEFINE r == admin[p]
           row == IF r.existing = NoRow THEN NoRow ELSE Closed(r.existing)
<1>1. /\ r.op = "revoke" /\ r.pc = "write"
      /\ store' = [store EXCEPT ![r.user] = row]
      /\ Proceed(p, NoCall)
      /\ decided' = Others(r.user)
      /\ UNCHANGED clean
  BY DEF WriteRevoked, Done
<1>2. admin'[p] = NoCall /\ \A q \in Admin : q # p => admin'[q] = admin[q]
  BY <1>1, ProceedFacts
<1>3. ASSUME clean, NEW v \in Login
      PROVE  Settled(v)'
  <2>1. r \in AdminCall /\ SoundCall(r) /\ LoneCall(r)
    BY <1>3, LoneFacts
  <2>2. /\ r.user \in Key /\ r.existing \in Row \cup {NoRow}
        /\ store[r.user] = r.existing /\ Owns(r.user)
        /\ r.user \in Email => r.existing = NoRow
    BY <1>1, <2>1 DEF LoneCall, AdminCall
  <2>3. /\ row = NoRow <=> r.existing = NoRow
        /\ row # NoRow => ~row.active /\ row.aliases = r.existing.aliases
    BY <2>2, ClosedRow
  <2> HIDE DEF row
  <2>4. store'[r.user] = row /\ \A k \in Key : k # r.user => store'[k] = store[k]
    BY <1>1, <2>2, ListFacts
  <2>5. \A e \in Email : store'[e] = store[e]
    BY <2>2, <2>3, <2>4, ListFacts
  <2>6. \A u \in Login : store[u] # NoRow => store[u].aliases \subseteq Email
    BY ListFacts DEF Row
  <2>7. CASE v # r.user
    <3>1. Settled(v) /\ store'[v] = store[v]
      BY <1>3, <2>4, <2>7, LoneFacts, ListFacts DEF Writes
    <3>2. \A e \in Email : <<v, e>> \in decided' <=> <<v, e>> \in decided
      BY <1>1, <2>7 DEF Others
    <3>3. QED
      BY <2>5, <2>6, <3>1, <3>2, StaysSettled
  <2>8. CASE v = r.user
    <3>1. {e \in Email : <<v, e>> \in decided'} = {}
      BY <1>1, <2>8 DEF Others
    <3>2. Agrees(v)'
      BY <2>3, <2>4, <2>8, <3>1 DEF Agrees
    <3>3. store'[v] # NoRow =>
            \A e \in store'[v].aliases : store'[e] # NoRow /\ store'[e].login = v
      BY <2>2, <2>3, <2>4, <2>5, <2>6, <2>8 DEF Owns, Holds
    <3>4. QED
      BY <3>2, <3>3 DEF Settled, Owns, Holds
  <2>9. QED
    BY <2>7, <2>8
<1>4. QED
  BY <1>1, <1>2, <1>3, LoneMoves

(* A call that begins while none is under way. *)
LEMMA StartSettles ==
  ASSUME ServedInv, SettledInv, NEW p \in Admin, NEW y \in AdminCall, Proceed(p, y),
         clean' = (clean /\ Idle), UNCHANGED <<store, decided>>,
         y.pc = "read" => y.user \in Login, y.pc \in {"read", "resolve"},
         y.todo = {}, y.held = NoRow
  PROVE  SettledInv'
<1>1. SUFFICES ASSUME clean, Idle
               PROVE  /\ \A q, s \in Admin :
                           admin'[q] # NoCall /\ admin'[s] # NoCall => q = s
                      /\ \A q \in Admin : admin'[q] # NoCall => LoneCall(admin[q])'
                      /\ \A u \in Login : Settled(u)'
  BY DEF SettledInv
<1>2. admin'[p] = y /\ \A q \in Admin : q # p => admin'[q] = NoCall
  BY <1>1, ProceedFacts DEF Idle
<1>3. LoneCall(admin[p])'
  BY <1>2, AccessAssumption DEF LoneCall
<1>4. \A u \in Login : Settled(u)
  BY <1>1 DEF SettledInv, Idle, Writes
<1>5. \A u \in Login : Settled(u)'
  BY <1>4, StaysSettled
<1>6. QED
  BY <1>2, <1>3, <1>5

LEMMA StartApproveSettles ==
  ASSUME ServedInv, SettledInv, NEW p \in Admin, NEW u \in Login,
         NEW aliases \in SUBSET Email, StartApprove(p, u, aliases)
  PROVE  SettledInv'
<1> DEFINE y == Call("approve", u, aliases, "read")
<1>1. /\ Proceed(p, y) /\ clean' = (clean /\ Idle) /\ UNCHANGED <<store, decided>>
  BY DEF StartApprove
<1>2. /\ y \in AdminCall /\ y.pc = "read" /\ y.user = u /\ y.todo = {}
      /\ y.held = NoRow
  BY DEF Call, AdminCall, Key
<1> HIDE DEF y
<1>3. QED
  BY <1>1, <1>2, StartSettles

LEMMA StartRevokeSettles ==
  ASSUME ServedInv, SettledInv, NEW p \in Admin, NEW key \in Key, StartRevoke(p, key)
  PROVE  SettledInv'
<1> DEFINE y == Call("revoke", key, {}, "resolve")
<1>1. /\ Proceed(p, y) /\ clean' = (clean /\ Idle) /\ UNCHANGED <<store, decided>>
  BY DEF StartRevoke
<1>2. y \in AdminCall /\ y.pc = "resolve" /\ y.todo = {} /\ y.held = NoRow
  BY DEF Call, AdminCall
<1> HIDE DEF y
<1>3. QED
  BY <1>1, <1>2, StartSettles

LEMMA AdminStepSettles ==
  ASSUME ServedInv, SettledInv, NEW p \in Admin, AdminStep(p)
  PROVE  SettledInv'
<1>1. admin[p] # NoCall
  BY DEF AdminStep
<1>2. CASE BreaksOff(p)
  BY <1>2 DEF BreaksOff, SettledInv
<1>3. QED
  BY <1>1, <1>2, ResolveSettles, ReadExistingSettles, CheckAliasSettles,
     WriteEntrySettles, WriteAliasSettles, ReadAliasSettles, CloseAliasSettles,
     ApprovedSettles, WriteRevokedSettles DEF AdminStep

LEMMA ListStays ==
  ASSUME SettledInv, UNCHANGED <<store, admin, decided, clean>>
  PROVE  SettledInv'
BY DEF SettledInv, LoneCall, Taken, Writes, Settled, Agrees, Owns, Holds

LEMMA InitSettled ==
  ASSUME Init
  PROVE  SettledInv
<1>1. PICK A \in SUBSET Email, u \in Login :
        /\ decided = {u} \X A
        /\ store = [k \in Key |->
             IF A # {} /\ (k = u \/ k \in A)
             THEN [login |-> u, aliases |-> A, active |-> TRUE, alias |-> k # u]
             ELSE NoRow]
  BY DEF Init
<1>2. \A p \in Admin : admin[p] = NoCall
  BY DEF Init
<1>3. \A b \in BOOLEAN :
        [login |-> u, aliases |-> A, active |-> TRUE, alias |-> b] # NoRow
  <2>1. \A b \in BOOLEAN :
          [login |-> u, aliases |-> A, active |-> TRUE, alias |-> b] \in Row
    BY DEF Row
  <2>2. NoRow \notin Row
    BY AccessAssumption DEF Row
  <2>3. QED
    BY <2>1, <2>2
<1>4. \A v \in Login : v \in Key /\ v \notin A
  BY AccessAssumption DEF Key
<1>5. \A e \in A : e \in Key /\ e \in Email
  BY DEF Key
<1>6. ASSUME NEW v \in Login
      PROVE  Settled(v)
  <2>1. CASE v = u /\ A # {}
    <3>1. /\ store[v] # NoRow /\ store[v].active /\ store[v].aliases = A
          /\ \A e \in A : store[e] # NoRow /\ store[e].active /\ store[e].login = v
      BY <1>1, <1>3, <1>4, <1>5, <2>1
    <3>2. {e \in Email : <<v, e>> \in decided} = A
      BY <1>1, <2>1
    <3>3. QED
      BY <3>1, <3>2 DEF Settled, Agrees, Owns, Holds
  <2>2. CASE ~(v = u /\ A # {})
    <3>1. store[v] = NoRow
      BY <1>1, <1>4, <2>2
    <3>2. {e \in Email : <<v, e>> \in decided} = {}
      BY <1>1, <2>2
    <3>3. QED
      BY <3>1, <3>2 DEF Settled, Agrees, Owns
  <2>3. QED
    BY <2>1, <2>2
<1>7. QED
  BY <1>2, <1>6 DEF SettledInv

LEMMA SettledStep ==
  ASSUME ServedInv, SettledInv, [Next]_vars
  PROVE  SettledInv'
<1>1. ASSUME NEW s \in Session,
             \/ LabStep(s)
             \/ \E who \in Email, route \in {"me", "corpus", "host"} :
                  StartRequest(s, who, route)
      PROVE  SettledInv'
  BY <1>1, ListStays DEF LabStep, StartRequest, listVars
<1>2. CASE Outside
  BY <1>2, ListStays DEF Outside, listVars
<1>3. CASE UNCHANGED vars
  BY <1>3, ListStays DEF vars, listVars
<1>4. QED
  BY <1>1, <1>2, <1>3, StartApproveSettles, StartRevokeSettles, AdminStepSettles
  DEF Next

-----------------------------------------------------------------------------
(* Rows stay where they belong, calls know whose rows they hold, the entry of *)
(* a revoked researcher stays closed, and the rows held or cached are as fresh *)
(* as their date says (allowlist.js, the lab's gate and loadRawCorpus).        *)
THEOREM ServedInvariant == Spec => []ServedInv
<1>1. QED
  BY InitInvariant, StepInvariant, PTL DEF Spec

(* While allowlist calls neither overlap nor break off, what a call has found *)
(* stays true until it is answered, and everyone else's entry and copies are  *)
(* what was decided (approveResearcher, revokeResearcher). *)
THEOREM AccessInvariant == Spec => []AccessInv
<1>1. Init => SettledInv
  BY InitSettled
<1>2. ServedInv /\ SettledInv /\ [Next]_vars => SettledInv'
  BY SettledStep
<1>3. Spec => []SettledInv
  BY <1>1, <1>2, ServedInvariant, PTL DEF Spec
<1>4. QED
  BY <1>3, ServedInvariant, PTL DEF AccessInv

(* Calls that neither overlap nor break off let in whom they said, by the      *)
(* emails they said, however many of them there were (approveResearcher,      *)
(* revokeResearcher, matchAllowEntry). *)
THEOREM AccessIsDecided == Spec => []AccessAsDecided
<1>1. ASSUME ServedInv, SettledInv, clean, Idle
      PROVE  {d \in Login \X Email : d[1] \in LetIn(d[2])} = decided
  <2>1. ASSUME NEW u \in Login, NEW e \in Email
        PROVE  u \in LetIn(e) <=> <<u, e>> \in decided
    <3>1. Agrees(u) /\ Owns(u)
      BY <1>1 DEF SettledInv, Idle, Writes, Settled
    <3>2. <<u, e>> \in decided <=>
            store[u] # NoRow /\ store[u].active /\ e \in store[u].aliases
      BY <3>1 DEF Agrees
    <3>3. store[u] # NoRow /\ store[u].active /\ e \in store[u].aliases =>
            store[e] # NoRow /\ store[e].active /\ store[e].login = u
      BY <3>1 DEF Agrees, Owns, Holds
    <3>4. QED
      BY <3>2, <3>3 DEF LetIn, Admits
  <2>2. decided \subseteq Login \X Email
    BY <1>1, ListFacts
  <2>3. \A d \in Login \X Email : d[1] \in LetIn(d[2]) <=> d \in decided
    BY <2>1
  <2>4. QED
    BY <2>2, <2>3
<1>2. ServedInv /\ SettledInv => AccessAsDecided
  BY <1>1 DEF AccessAsDecided
<1>3. QED
  BY <1>2, AccessInvariant, PTL DEF AccessInv

(* A lab request that begins after a revocation was answered is never served  *)
(* as that researcher (revokeResearcher, matchAllowEntry). *)
THEOREM RevocationHolds == Spec => []RevokedStaysOut
<1>1. ServedInv => RevokedStaysOut
  BY DEF ServedInv, RequestSound, SoundRequest, RevokedStaysOut, Answering
<1>2. QED
  BY <1>1, ServedInvariant, PTL

(* No lab answer shows a host that an exclusion covered when the request     *)
(* began, cached rows or not (loadCorpus, handleLabHost). *)
THEOREM ExclusionHolds == Spec => []ExcludedHidden
<1>1. ServedInv => ExcludedHidden
  BY DEF ServedInv, RequestSound, SoundRequest, ExcludedHidden, Answering, Shown
<1>2. QED
  BY <1>1, ServedInvariant, PTL

(* A deleted host is shown for less than the cache's life (loadRawCorpus). *)
THEOREM DeletionHolds == Spec => []DeletedHidden
<1>1. ASSUME ServedInv PROVE DeletedHidden
  <2>1. SUFFICES ASSUME NEW s \in Session, Answering(s), NEW h \in Shown(lab[s])
                 PROVE  h \in records \/ gone[h] > lab[s].began - Ttl
    BY DEF DeletedHidden
  <2>2. /\ ReadSince(lab[s].rows, (lab[s].began - Ttl) + 1)
        /\ lab[s].rows \subseteq Host
    BY <1>1, <2>1, UnderWay DEF Answering, SoundRequest, Request
  <2>3. /\ h \in Host /\ h \in lab[s].rows
        /\ gone[h] \in Nat /\ lab[s].began \in Nat /\ Ttl \in Nat
    BY <1>1, <2>1, <2>2, UnderWay DEF Shown, Answering
  <2>4. QED
    BY <2>2, <2>3 DEF ReadSince
<1>2. QED
  BY <1>1, ServedInvariant, PTL
=============================================================================
