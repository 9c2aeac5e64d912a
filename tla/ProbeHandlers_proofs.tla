------------------------- MODULE ProbeHandlers_proofs -------------------------
(***************************************************************************)
(* Proofs about ProbeHandlers, for any number of requests: the handlers use  *)
(* the control plane as ProbePermits describes it, so that its theorems hold *)
(* beneath them, and no traffic of theirs is unaccounted.                   *)
(***************************************************************************)
EXTENDS ProbeHandlers, ProbePermits_proofs

-----------------------------------------------------------------------------
(* History only grows, and a lease just consumed had no emission before.    *)
Later ==
  /\ now \in Nat /\ now' \in Nat /\ now <= now'
  /\ granted \subseteq granted'
  /\ emissions \subseteq emissions'
  /\ exclusions \subseteq exclusions'

LEMMA NextIsLater == CooldownInv /\ [Next]_vars => Later
<1> SUFFICES ASSUME CooldownInv, [Next]_vars PROVE Later
  OBVIOUS
<1>1. TypeOK /\ TypeOK'
  BY TypeStep DEF CooldownInv
<1>2. now \in Nat /\ now' \in Nat
  BY <1>1 DEF TypeOK
<1>3. CASE Tick
  BY <1>2, <1>3 DEF Tick, Later
<1>4. ASSUME NEW id \in NominationId, NEW ip \in Addr, NEW asn \in Asn,
             NEW at \in 0 .. now, CreateNomination(id, ip, asn, at)
      PROVE  Later
  BY <1>2, <1>4 DEF CreateNomination, Later
<1>5. ASSUME NEW r \in Rule, AddExclusion(r)
      PROVE  Later
  BY <1>2, <1>5 DEF AddExclusion, Later
<1>6. ASSUME NEW r \in exclusions, NEW page \in SUBSET attempts,
             PurgeAttempts(r, page)
      PROVE  Later
  BY <1>2, <1>6 DEF PurgeAttempts, Later
<1>7. ASSUME NEW ip \in Addr, NEW asn \in AnyAsn, NEW at \in LegacyTimes,
             ImportAttempt(ip, asn, at)
      PROVE  Later
  BY <1>2, <1>7 DEF ImportAttempt, Later
<1>8. ASSUME NEW l \in LeaseId, NEW n \in nominations, AcquireDiscovery(l, n)
      PROVE  Later
  BY <1>2, <1>8 DEF AcquireDiscovery, Grant, Later
<1>9. ASSUME NEW l \in LeaseId, NEW ip \in HostedCallers, NEW asn \in AnyAsn,
             AcquireHosted(l, ip, asn)
      PROVE  Later
  BY <1>2, <1>9 DEF AcquireHosted, Grant, Later
<1>10. ASSUME NEW l \in LeaseId, NEW ip \in CanaryTargets, NEW asn \in AnyAsn,
              AcquireCanary(l, ip, asn)
       PROVE  Later
  BY <1>2, <1>10 DEF AcquireCanary, Grant, Later
<1>11. ASSUME NEW p \in permits, NEW expected \in Purpose,
              ConsumePermit(p, expected)
       PROVE  Later
  BY <1>2, <1>11 DEF ConsumePermit, Later
<1>12. ASSUME NEW l \in LeaseId, NEW expected \in Purpose,
              CompleteLease(l, expected)
       PROVE  Later
  BY <1>2, <1>12 DEF CompleteLease, Later
<1>13. CASE RunRetention
  BY <1>2, <1>13 DEF RunRetention, Later
<1>14. CASE UNCHANGED vars
  BY <1>2, <1>14 DEF vars, Later
<1>15. QED
  BY <1>3, <1>4, <1>5, <1>6, <1>7, <1>8, <1>9, <1>10, <1>11, <1>12, <1>13, <1>14
  DEF Next

(* Consuming a permit records the first emission of its lease. *)
LEMMA ConsumeRecords ==
  ASSUME CooldownInv, NEW p \in permits, NEW expected \in Purpose,
         ConsumePermit(p, expected)
  PROVE  /\ \A e \in emissions : e.lease # p.lease
         /\ \E e \in emissions' :
              e.lease = p.lease /\ e.ip = p.ip /\ e.purpose = expected /\ e.at <= now
<1>1. PICK a \in attempts : a.lease = p.lease /\ a.state = "acquired"
  BY DEF ConsumePermit, Consumable
<1>2. \A e \in emissions : e.lease # p.lease
  BY <1>1 DEF CooldownInv, SpentLeases
<1> DEFINE packet == [lease |-> p.lease, ip |-> p.ip, asn |-> p.asn,
                      purpose |-> p.purpose, at |-> now]
<1>3. packet \in emissions' /\ p.purpose = expected
  BY DEF ConsumePermit, Consumable
<1>4. /\ packet.lease = p.lease /\ packet.ip = p.ip
      /\ packet.purpose = p.purpose /\ packet.at = now
  OBVIOUS
<1>5. now <= now
  BY DEF CooldownInv, TypeOK
<1> HIDE DEF packet
<1>6. QED
  BY <1>2, <1>3, <1>4, <1>5

(* A permit is for the address its lease was granted for. *)
LEMMA PermitIsOfGrant ==
  ASSUME CooldownInv, NEW p \in permits, NEW g \in granted, p.lease = g.lease
  PROVE  p.ip = g.ip /\ p.purpose = g.purpose
BY DEF CooldownInv, PermitsGranted, GrantsOnce

-----------------------------------------------------------------------------
(* A step that moves one request and opens no socket keeps the invariant if  *)
(* the request may be where it then is.                                     *)
LEMMA RightfulLater ==
  ASSUME TypeOK, Later, NEW x \in Invocation,
         Rightful(x, granted, emissions, wire, now)
  PROVE  Rightful(x, granted', emissions', wire, now')
<1>1. \A e \in emissions : e \in emissions' /\ (e.at <= now => e.at <= now')
  BY DEF TypeOK, ProbeRecord, Later
<1>2. \A g \in granted : g \in granted'
  BY DEF Later
<1>3. QED
  BY <1>1, <1>2 DEF Rightful

LEMMA RequestMoves ==
  ASSUME TrafficInv, CooldownInv', Later, NEW h \in Handler, NEW x \in Invocation,
         handlers' = [handlers EXCEPT ![h] = x],
         Rightful(x, granted', emissions', wire, now'),
         x.stage = "probe" =>
           \A k \in Handler :
             k # h /\ At(k, "probe") => handlers[k].lease # x.lease,
         outcomes' \subseteq Report, hosts' \subseteq [ip : Addr, seen : Nat],
         wire' = wire
  PROVE  TrafficInv'
<1>1. /\ handlers' \in [Handler -> Invocation \cup {NotStarted}]
      /\ \A k \in Handler : handlers'[k] = IF k = h THEN x ELSE handlers[k]
  BY DEF TrafficInv, HandlerTypeOK
<1>2. \A k \in Handler : handlers[k] # NotStarted =>
        Rightful(handlers[k], granted', emissions', wire, now')
  BY RightfulLater DEF TrafficInv, HandlerTypeOK, RequestsRightful
<1>3. RequestsRightful'
  BY <1>1, <1>2 DEF RequestsRightful
<1>4. OneAtTheSocket'
  BY <1>1 DEF TrafficInv, OneAtTheSocket, At
<1>5. TrafficAccounted'
  BY DEF TrafficInv, TrafficAccounted, Later
<1>6. HandlerTypeOK'
  BY <1>1 DEF TrafficInv, HandlerTypeOK, CooldownInv
<1>7. QED
  BY <1>3, <1>4, <1>5, <1>6 DEF TrafficInv

(* A step that moves no request. *)
LEMMA RequestsWait ==
  ASSUME TrafficInv, CooldownInv', Later, UNCHANGED <<handlers, wire>>,
         outcomes' \subseteq Report, hosts' \subseteq [ip : Addr, seen : Nat]
  PROVE  TrafficInv'
<1>1. \A k \in Handler : handlers[k] # NotStarted =>
        Rightful(handlers[k], granted', emissions', wire, now')
  BY RightfulLater DEF TrafficInv, HandlerTypeOK, RequestsRightful
<1>2. RequestsRightful' /\ OneAtTheSocket'
  BY <1>1 DEF TrafficInv, RequestsRightful, OneAtTheSocket, At
<1>3. TrafficAccounted'
  BY DEF TrafficInv, TrafficAccounted, Later
<1>4. HandlerTypeOK'
  BY DEF TrafficInv, HandlerTypeOK, CooldownInv
<1>5. QED
  BY <1>2, <1>3, <1>4 DEF TrafficInv

(* What is known of the request a step moves. *)
LEMMA RequestFacts ==
  ASSUME TrafficInv, NEW h \in Handler, handlers[h] # NotStarted
  PROVE  /\ handlers[h] \in Invocation
         /\ Rightful(handlers[h], granted, emissions, wire, now)
         /\ CooldownInv /\ TypeOK /\ HandlerTypeOK
         /\ outcomes \subseteq Report /\ hosts \subseteq [ip : Addr, seen : Nat]
         /\ handlers \in [Handler -> Invocation \cup {NotStarted}]
BY DEF TrafficInv, HandlerTypeOK, RequestsRightful, CooldownInv

(* A step that leaves the control plane alone is a later instant of it. *)
LEMMA IdleIsLater ==
  ASSUME CooldownInv, UNCHANGED vars
  PROVE  CooldownInv' /\ Later
BY NextIsLater, InvariantStep

(* The requests that answer, whatever the answer, rely on nothing more. *)
LEMMA Answered ==
  ASSUME TrafficInv, CooldownInv', Later, NEW h \in Handler, handlers[h] # NotStarted,
         NEW answer \in Answer, Answers(h, answer),
         outcomes' \subseteq Report, hosts' \subseteq [ip : Addr, seen : Nat],
         wire' = wire
  PROVE  TrafficInv'
<1> DEFINE x == [handlers[h] EXCEPT !.stage = "answered", !.answer = answer,
                   !.todo = {}, !.lease = NoLease, !.outcome = "none"]
<1>1. handlers' = [handlers EXCEPT ![h] = x]
  BY RequestFacts DEF Answers, Invocation
<1>2. /\ x \in Invocation /\ x.stage = "answered" /\ x.todo = {}
      /\ x.purpose = handlers[h].purpose /\ x.ip = handlers[h].ip
  BY RequestFacts DEF Invocation, Stage
<1> HIDE DEF x
<1>3. Rightful(x, granted', emissions', wire, now')
  BY <1>2, RequestFacts DEF Rightful
<1>4. QED
  BY <1>1, <1>2, <1>3, RequestMoves

LEMMA Refused ==
  ASSUME TrafficInv, CooldownInv', Later, NEW h \in Handler, handlers[h] # NotStarted,
         GateClosed(h), UNCHANGED <<outcomes, hosts, wire>>
  PROVE  TrafficInv'
<1>1. PICK answer \in Answer : Answers(h, answer)
  BY DEF GateClosed, Answer
<1>2. outcomes' \subseteq Report /\ hosts' \subseteq [ip : Addr, seen : Nat]
  BY RequestFacts
<1>3. QED
  BY <1>1, <1>2, Answered

-----------------------------------------------------------------------------
(* The steps of a request.  Each is a step of the control plane or none.    *)

LEMMA BeginInvariant ==
  ASSUME TrafficInv, NEW h \in Handler, NEW stage \in Stage,
         NEW purpose \in Purpose, NEW ip \in Addr, NEW asn \in AnyAsn,
         NEW todo \in SUBSET Service, NEW lease \in LeaseId \cup {NoLease},
         Begin(h, stage, purpose, ip, asn, todo, lease),
         purpose = "hosted_self" => ip \in HostedCallers,
         purpose = "owned_canary" => ip \in CanaryTargets,
         purpose = "active_discovery" => stage # "acquire" /\ todo = {},
         stage \notin {"probe", "complete"},
         stage = "consume" =>
           \E g \in granted : g.lease = lease /\ g.ip = ip /\ g.purpose = purpose
  PROVE  TrafficInv' /\ [Next]_vars
<1> DEFINE x == [stage |-> stage, purpose |-> purpose, ip |-> ip, asn |-> asn,
                 todo |-> todo, lease |-> lease, outcome |-> "none",
                 exposed |-> FALSE, answer |-> "none"]
<1>1. /\ handlers' = [handlers EXCEPT ![h] = x]
      /\ UNCHANGED <<vars, outcomes, hosts, wire>>
  BY DEF Begin
<1>2. /\ x \in Invocation /\ x.stage = stage /\ x.purpose = purpose
      /\ x.ip = ip /\ x.todo = todo /\ x.lease = lease
  BY DEF Invocation, Answer
<1> HIDE DEF x
<1>3. CooldownInv' /\ Later /\ [Next]_vars
  BY <1>1, IdleIsLater DEF TrafficInv
<1>4. granted' = granted
  BY <1>1 DEF vars
<1>5. Rightful(x, granted', emissions', wire, now')
  BY <1>2, <1>4 DEF Rightful, IsFor
<1>6. /\ outcomes' \subseteq Report /\ hosts' \subseteq [ip : Addr, seen : Nat]
      /\ wire' = wire
  BY <1>1 DEF TrafficInv, HandlerTypeOK
<1>7. QED
  BY <1>1, <1>2, <1>3, <1>5, <1>6, RequestMoves

LEMMA AcquireInvariant ==
  ASSUME TrafficInv, NEW h \in Handler, Acquire(h)
  PROVE  TrafficInv' /\ [Next]_vars
<1> DEFINE x == handlers[h]
<1>1. handlers[h] # NotStarted /\ x.stage = "acquire"
  BY DEF Acquire, At
<1>2. UNCHANGED <<outcomes, hosts, wire>>
  BY DEF Acquire
<1>3. outcomes' \subseteq Report /\ hosts' \subseteq [ip : Addr, seen : Nat]
  BY <1>1, <1>2, RequestFacts
<1>4. CASE UNCHANGED vars /\ GateClosed(h)
  <2>1. CooldownInv' /\ Later /\ [Next]_vars
    BY <1>4, IdleIsLater DEF TrafficInv
  <2>2. QED
    BY <1>1, <1>2, <1>4, <2>1, Refused
<1>5. ASSUME NEW l \in LeaseId, AcquireFor(h, l)
      PROVE  /\ CooldownInv' /\ Later /\ [Next]_vars
             /\ \E g \in granted' :
                  g.lease = l /\ g.ip = x.ip /\ g.purpose = x.purpose
  <2>1. /\ x \in Invocation /\ CooldownInv
        /\ Rightful(x, granted, emissions, wire, now)
    BY <1>1, RequestFacts
  <2>2. /\ x.purpose \in {"hosted_self", "owned_canary"}
        /\ x.purpose = "hosted_self" => x.ip \in HostedCallers
        /\ x.purpose = "owned_canary" => x.ip \in CanaryTargets
        /\ x.asn \in AnyAsn
    BY <1>1, <2>1 DEF Rightful, Invocation, Purpose
  <2> DEFINE g == [lease |-> l, ip |-> x.ip, asn |-> x.asn,
                   purpose |-> x.purpose, at |-> now]
  <2>3. g.lease = l /\ g.ip = x.ip /\ g.purpose = x.purpose
    OBVIOUS
  <2>4. Next /\ g \in granted'
    <3>1. CASE x.purpose = "hosted_self"
      <4>1. AcquireHosted(l, x.ip, x.asn)
        BY <1>5, <3>1 DEF AcquireFor
      <4>2. g \in granted'
        BY <3>1, <4>1 DEF AcquireHosted, Grant
      <4>3. QED
        BY <2>2, <3>1, <4>1, <4>2 DEF Next
    <3>2. CASE x.purpose = "owned_canary"
      <4>1. AcquireCanary(l, x.ip, x.asn)
        BY <1>5, <3>2 DEF AcquireFor
      <4>2. g \in granted'
        BY <3>2, <4>1 DEF AcquireCanary, Grant
      <4>3. QED
        BY <2>2, <3>2, <4>1, <4>2 DEF Next
    <3>3. QED
      BY <2>2, <3>1, <3>2
  <2> HIDE DEF g
  <2>5. CooldownInv' /\ Later
    BY <2>1, <2>4, InvariantStep, NextIsLater
  <2>6. QED
    BY <2>3, <2>4, <2>5
<1>6. ASSUME NEW l \in LeaseId, AcquireFor(h, l), GateClosed(h)
      PROVE  TrafficInv' /\ [Next]_vars
  BY <1>1, <1>2, <1>5, <1>6, Refused
<1>7. ASSUME NEW l \in LeaseId, AcquireFor(h, l), NEW s \in x.todo,
             handlers' = [handlers EXCEPT
               ![h].stage = "consume", ![h].lease = l, ![h].todo = x.todo \ {s}]
      PROVE  TrafficInv' /\ [Next]_vars
  <2> DEFINE y == [x EXCEPT !.stage = "consume", !.lease = l, !.todo = x.todo \ {s}]
  <2>1. handlers' = [handlers EXCEPT ![h] = y]
    BY <1>1, <1>7, RequestFacts DEF Invocation
  <2>2. /\ y \in Invocation /\ y.stage = "consume" /\ y.lease = l
        /\ y.purpose = x.purpose /\ y.ip = x.ip /\ y.todo \subseteq x.todo
    BY <1>1, RequestFacts DEF Invocation, Stage
  <2> HIDE DEF y
  <2>3. \E g \in granted' : IsFor(g, y)
    BY <1>5, <1>7, <2>2 DEF IsFor
  <2>4. Rightful(y, granted', emissions', wire, now')
    BY <1>1, <2>2, <2>3, RequestFacts DEF Rightful
  <2>5. QED
    BY <1>2, <1>3, <1>5, <1>7, <2>1, <2>2, <2>4, RequestMoves
<1>8. QED
  BY <1>4, <1>6, <1>7 DEF Acquire

LEMMA ConsumeInvariantOfRequest ==
  ASSUME TrafficInv, NEW h \in Handler, Consume(h)
  PROVE  TrafficInv' /\ [Next]_vars
<1> DEFINE x == handlers[h]
<1>1. /\ handlers[h] # NotStarted /\ x.stage = "consume"
      /\ UNCHANGED <<outcomes, hosts, wire>>
  BY DEF Consume, At
<1>2. /\ x \in Invocation /\ CooldownInv
      /\ Rightful(x, granted, emissions, wire, now)
      /\ outcomes' \subseteq Report /\ hosts' \subseteq [ip : Addr, seen : Nat]
  BY <1>1, RequestFacts
<1>3. CASE UNCHANGED vars /\ GateClosed(h)
  <2>1. CooldownInv' /\ Later /\ [Next]_vars
    BY <1>3, IdleIsLater DEF TrafficInv
  <2>2. QED
    BY <1>1, <1>3, <2>1, Refused
<1>4. ASSUME NEW p \in permits, p.lease = x.lease, ConsumePermit(p, x.purpose)
      PROVE  CooldownInv' /\ Later /\ [Next]_vars
  <2>1. Next
    BY <1>2, <1>4 DEF Next, Invocation
  <2>2. QED
    BY <1>2, <2>1, InvariantStep, NextIsLater
<1>5. ASSUME NEW p \in permits, p.lease = x.lease, ConsumePermit(p, x.purpose),
             GateClosed(h)
      PROVE  TrafficInv' /\ [Next]_vars
  BY <1>1, <1>4, <1>5, Refused
<1>6. ASSUME NEW p \in permits, p.lease = x.lease, ConsumePermit(p, x.purpose),
             Moves(h, "probe")
      PROVE  TrafficInv' /\ [Next]_vars
  <2> DEFINE y == [x EXCEPT !.stage = "probe"]
  <2>1. handlers' = [handlers EXCEPT ![h] = y]
    BY <1>1, <1>6, RequestFacts DEF Moves, Invocation
  <2>2. /\ y \in Invocation /\ y.stage = "probe" /\ y.lease = x.lease
        /\ y.purpose = x.purpose /\ y.ip = x.ip /\ y.todo = x.todo
    BY <1>2 DEF Invocation, Stage
  <2> HIDE DEF y
  <2>3. CooldownInv' /\ Later /\ [Next]_vars
    BY <1>4, <1>6
  <2>4. PICK g \in granted : IsFor(g, x)
    BY <1>1, <1>2 DEF Rightful
  <2>5. p.ip = x.ip
    BY <1>2, <1>6, <2>4, PermitIsOfGrant DEF IsFor
  <2>6. x.purpose \in Purpose
    BY <1>2 DEF Invocation
  <2>7. /\ \A e \in emissions : e.lease # x.lease
        /\ \E e \in emissions' : IsFor(e, x) /\ e.at <= now
    BY <1>2, <1>6, <2>5, <2>6, ConsumeRecords DEF IsFor
  <2>8. now' = now
    BY <1>6 DEF ConsumePermit
  <2>9. \A w \in wire : w.lease # x.lease
    BY <2>7 DEF TrafficInv, TrafficAccounted
  <2>10. \A k \in Handler : At(k, "probe") => handlers[k].lease # x.lease
    BY <2>7 DEF TrafficInv, RequestsRightful, Rightful, IsFor, At
  <2>11. \E e \in emissions' : IsFor(e, y) /\ e.at <= now'
    BY <2>2, <2>7, <2>8 DEF IsFor
  <2>12. Rightful(y, granted', emissions', wire, now')
    BY <1>1, <1>2, <2>2, <2>9, <2>11 DEF Rightful
  <2>13. QED
    BY <1>1, <1>2, <2>1, <2>2, <2>3, <2>10, <2>12, RequestMoves
<1>7. QED
  BY <1>3, <1>5, <1>6 DEF Consume

(* The one step that opens a socket. *)
LEMMA ProbeInvariant ==
  ASSUME TrafficInv, NEW h \in Handler, Probe(h)
  PROVE  TrafficInv' /\ [Next]_vars
<1> DEFINE x == handlers[h]
<1>1. /\ handlers[h] # NotStarted /\ x.stage = "probe" /\ At(h, "probe")
      /\ UNCHANGED <<vars, outcomes, hosts>>
  BY DEF Probe, At
<1>2. /\ x \in Invocation /\ CooldownInv /\ TypeOK /\ HandlerTypeOK
      /\ Rightful(x, granted, emissions, wire, now)
      /\ handlers \in [Handler -> Invocation \cup {NotStarted}]
  BY <1>1, RequestFacts
<1>3. CooldownInv' /\ Later /\ [Next]_vars
  BY <1>1, <1>2, IdleIsLater
<1>4. PICK o \in Outcome :
        /\ handlers' = [handlers EXCEPT
             ![h].stage = "complete", ![h].outcome = o,
             ![h].exposed = x.exposed \/ o = "exposed"]
        /\ \/ wire' = wire \cup
                {[by |-> h, lease |-> x.lease, ip |-> x.ip,
                  purpose |-> x.purpose, outcome |-> o, at |-> now]}
           \/ UNCHANGED wire
  BY DEF Probe
<1> DEFINE y == [x EXCEPT !.stage = "complete", !.outcome = o,
                   !.exposed = x.exposed \/ o = "exposed"]
           w == [by |-> h, lease |-> x.lease, ip |-> x.ip,
                 purpose |-> x.purpose, outcome |-> o, at |-> now]
<1>5. PICK e \in emissions : IsFor(e, x) /\ e.at <= now
  BY <1>1, <1>2 DEF Rightful
<1>6. x.lease \in LeaseId /\ now \in Nat
  BY <1>2, <1>5 DEF IsFor, TypeOK, ProbeRecord
<1>7. handlers' = [handlers EXCEPT ![h] = y]
  BY <1>2, <1>4 DEF Invocation
<1>8. /\ y \in Invocation /\ y.stage = "complete" /\ y.lease = x.lease
      /\ y.purpose = x.purpose /\ y.ip = x.ip /\ y.todo = x.todo
      /\ y.outcome = o
  <2>1. (x.exposed \/ o = "exposed") \in BOOLEAN
    OBVIOUS
  <2>2. QED
    BY <1>2, <2>1 DEF Invocation, Stage
<1>9. /\ w \in Probed /\ w.lease = x.lease /\ w.ip = x.ip
      /\ w.purpose = x.purpose /\ w.at = now
  BY <1>2, <1>6 DEF Probed, Invocation
<1> HIDE DEF y, w
<1>10. UNCHANGED <<granted, emissions, now>>
  BY <1>1 DEF vars
<1>11. /\ handlers' \in [Handler -> Invocation \cup {NotStarted}]
       /\ \A k \in Handler : handlers'[k] = IF k = h THEN y ELSE handlers[k]
  BY <1>2, <1>7, <1>8
<1>12. wire' \subseteq wire \cup {w} /\ wire \subseteq wire'
  BY <1>4 DEF w
<1>13. \A v \in wire : v.lease # x.lease
  BY <1>1, <1>2 DEF Rightful
<1>14. HandlerTypeOK'
  <2>1. wire' \subseteq Probed
    BY <1>2, <1>9, <1>12 DEF HandlerTypeOK
  <2>2. QED
    BY <1>1, <1>2, <1>3, <1>11, <2>1 DEF HandlerTypeOK, CooldownInv
<1>15. TrafficAccounted'
  <2>1. \A v \in wire' : \E f \in emissions' :
          f.lease = v.lease /\ f.ip = v.ip /\ f.purpose = v.purpose /\ f.at <= v.at
    BY <1>5, <1>9, <1>10, <1>12 DEF TrafficInv, TrafficAccounted, IsFor
  <2>2. \A u, v \in wire' : u.lease = v.lease => u = v
    BY <1>9, <1>12, <1>13 DEF TrafficInv, TrafficAccounted
  <2>3. QED
    BY <2>1, <2>2 DEF TrafficAccounted
<1>16. OneAtTheSocket'
  BY <1>8, <1>11 DEF TrafficInv, OneAtTheSocket, At
<1>17. ASSUME NEW k \in Handler, handlers'[k] # NotStarted
       PROVE  Rightful(handlers'[k], granted', emissions', wire', now')
  <2>1. CASE k = h
    BY <1>2, <1>6, <1>8, <1>11, <2>1 DEF Rightful
  <2>2. CASE k # h
    <3>1. /\ handlers'[k] = handlers[k] /\ handlers[k] # NotStarted
          /\ Rightful(handlers[k], granted, emissions, wire, now)
      BY <1>11, <1>17, <2>2 DEF TrafficInv, RequestsRightful
    <3>2. handlers[k].stage = "probe" => handlers[k].lease # x.lease
      BY <1>1, <2>2, <3>1 DEF TrafficInv, OneAtTheSocket, At
    <3>3. handlers[k].stage = "probe" =>
            \A v \in wire' : v.lease # handlers[k].lease
      BY <1>9, <1>12, <3>1, <3>2 DEF Rightful
    <3>4. QED
      BY <1>10, <3>1, <3>3 DEF Rightful
  <2>3. QED
    BY <2>1, <2>2
<1>18. QED
  BY <1>3, <1>14, <1>15, <1>16, <1>17 DEF TrafficInv, RequestsRightful

LEMMA ProceedsInvariant ==
  ASSUME TrafficInv, CooldownInv', Later, NEW h \in Handler, handlers[h] # NotStarted,
         handlers[h].stage = "complete", Proceeds(h) \/ Unconfirmed(h),
         outcomes' \subseteq Report, UNCHANGED <<hosts, wire>>
  PROVE  TrafficInv'
<1> DEFINE x == handlers[h]
<1>1. /\ x \in Invocation /\ Rightful(x, granted, emissions, wire, now)
      /\ hosts' \subseteq [ip : Addr, seen : Nat]
  BY RequestFacts
<1>2. ASSUME NEW answer \in Answer, Answers(h, answer)
      PROVE  TrafficInv'
  BY <1>1, <1>2, Answered
<1>3. ASSUME NEW stage \in {"acquire", "store"}, Moves(h, stage),
             stage = "acquire" => x.todo # {}
      PROVE  TrafficInv'
  <2> DEFINE y == [x EXCEPT !.stage = stage]
  <2>1. handlers' = [handlers EXCEPT ![h] = y]
    BY <1>3, RequestFacts DEF Moves, Invocation
  <2>2. /\ y \in Invocation /\ y.stage = stage /\ y.lease = x.lease
        /\ y.purpose = x.purpose /\ y.ip = x.ip /\ y.todo = x.todo
    BY <1>1 DEF Invocation, Stage
  <2> HIDE DEF y
  <2>3. Rightful(y, granted', emissions', wire, now')
    BY <1>1, <1>3, <2>2 DEF Rightful
  <2>4. QED
    BY <1>1, <2>1, <2>2, <2>3, RequestMoves
<1>4. /\ "ok" \in Answer /\ "completion_failed" \in Answer
  BY DEF Answer
<1>5. QED
  BY <1>2, <1>3, <1>4 DEF Proceeds, Unconfirmed

LEMMA CompleteInvariantOfRequest ==
  ASSUME TrafficInv, NEW h \in Handler, Complete(h)
  PROVE  TrafficInv' /\ [Next]_vars
<1> DEFINE x == handlers[h]
<1>1. /\ handlers[h] # NotStarted /\ x.stage = "complete"
      /\ UNCHANGED <<hosts, wire>>
  BY DEF Complete, At
<1>2. /\ x \in Invocation /\ CooldownInv /\ outcomes \subseteq Report
      /\ Rightful(x, granted, emissions, wire, now)
  BY <1>1, RequestFacts
<1>3. x.lease \in LeaseId /\ x.outcome \in Outcome /\ x.purpose \in Purpose
  BY <1>1, <1>2 DEF Rightful, Invocation
<1>4. CASE UNCHANGED <<vars, outcomes>> /\ Unconfirmed(h)
  <2>1. CooldownInv' /\ Later /\ [Next]_vars
    BY <1>2, <1>4, IdleIsLater
  <2>2. outcomes' \subseteq Report
    BY <1>2, <1>4
  <2>3. QED
    BY <1>1, <1>4, <2>1, <2>2, ProceedsInvariant
<1>5. CASE /\ CompleteLease(x.lease, x.purpose)
           /\ Told(x.lease, x.outcome, "handler")
           /\ Proceeds(h) \/ Unconfirmed(h)
  <2>1. Next
    BY <1>3, <1>5 DEF Next
  <2>2. CooldownInv' /\ Later
    BY <1>2, <2>1, InvariantStep, NextIsLater
  <2>3. outcomes' \subseteq Report
    BY <1>2, <1>3, <1>5 DEF Told, Report
  <2>4. QED
    BY <1>1, <1>5, <2>1, <2>2, <2>3, ProceedsInvariant
<1>6. QED
  BY <1>4, <1>5 DEF Complete

LEMMA UpsertType ==
  ASSUME hosts \subseteq [ip : Addr, seen : Nat], now \in Nat,
         NEW ip \in Addr, UpsertHost(ip)
  PROVE  hosts' \subseteq [ip : Addr, seen : Nat]
BY DEF UpsertHost

LEMMA StoreInvariant ==
  ASSUME TrafficInv, NEW h \in Handler, Store(h)
  PROVE  TrafficInv' /\ [Next]_vars
<1>1. /\ handlers[h] # NotStarted /\ UNCHANGED <<vars, outcomes, wire>>
      /\ UpsertHost(handlers[h].ip) \/ UNCHANGED hosts
  BY DEF Store, At
<1>2. CooldownInv' /\ Later /\ [Next]_vars
  BY <1>1, IdleIsLater DEF TrafficInv
<1>3. /\ outcomes' \subseteq Report /\ handlers[h].ip \in Addr /\ now \in Nat
      /\ hosts \subseteq [ip : Addr, seen : Nat]
  BY <1>1, RequestFacts DEF Invocation, TypeOK
<1>4. hosts' \subseteq [ip : Addr, seen : Nat]
  BY <1>1, <1>3, UpsertType
<1>5. PICK answer \in Answer : Answers(h, answer)
  BY DEF Store, Answer
<1>6. QED
  BY <1>1, <1>2, <1>3, <1>4, <1>5, Answered

LEMMA StartInvariant ==
  ASSUME TrafficInv, NEW h \in Handler,
         \/ \E ip \in HostedCallers, asn \in RequestAsn,
               services \in (SUBSET Service) \ {{}} :
              StartCheck(h, ip, asn, services)
         \/ \E ip \in CanaryTargets : StartCanary(h, ip)
         \/ \E g \in granted : StartProbe(h, g)
  PROVE  TrafficInv' /\ [Next]_vars
<1>1. /\ "acquire" \in Stage /\ "consume" \in Stage
      /\ "hosted_self" \in Purpose /\ "owned_canary" \in Purpose
      /\ "active_discovery" \in Purpose
      /\ UnknownAsn \in AnyAsn /\ HostedCallers \subseteq Addr
      /\ CanaryTargets \subseteq Addr /\ RequestAsn \subseteq AnyAsn
  BY PermitAssumption, HandlerAssumption DEF Stage, Purpose, AnyAsn
<1>2. ASSUME NEW ip \in HostedCallers, NEW asn \in RequestAsn,
             NEW services \in (SUBSET Service) \ {{}},
             StartCheck(h, ip, asn, services)
      PROVE  TrafficInv' /\ [Next]_vars
  BY <1>1, <1>2, BeginInvariant DEF StartCheck
<1>3. ASSUME NEW ip \in CanaryTargets, StartCanary(h, ip)
      PROVE  TrafficInv' /\ [Next]_vars
  BY <1>1, <1>3, BeginInvariant DEF StartCanary
<1>4. ASSUME NEW g \in granted, StartProbe(h, g)
      PROVE  TrafficInv' /\ [Next]_vars
  <2>1. /\ g.ip \in Addr /\ g.asn \in AnyAsn /\ g.lease \in LeaseId
        /\ g.purpose = "active_discovery"
        /\ Begin(h, "consume", "active_discovery", g.ip, g.asn, {}, g.lease)
    BY <1>4 DEF StartProbe, TrafficInv, CooldownInv, TypeOK, ProbeRecord
  <2>2. QED
    BY <1>1, <2>1, BeginInvariant
<1>5. QED
  BY <1>2, <1>3, <1>4

-----------------------------------------------------------------------------
(* The steps beside the requests.                                          *)

LEMMA BesideInvariant ==
  ASSUME TrafficInv, Beside, UNCHANGED handlerVars
  PROVE  TrafficInv' /\ [Next]_vars
<1>1. Next
  BY DEF Beside, Next
<1>2. CooldownInv' /\ Later
  BY <1>1, InvariantStep, NextIsLater DEF TrafficInv
<1>3. /\ outcomes' \subseteq Report /\ hosts' \subseteq [ip : Addr, seen : Nat]
      /\ UNCHANGED <<handlers, wire>>
  BY DEF handlerVars, TrafficInv, HandlerTypeOK
<1>4. QED
  BY <1>1, <1>2, <1>3, RequestsWait

LEMMA DirectInvariant ==
  ASSUME TrafficInv,
         \/ \E p \in permits : ConsumeDirectly(p)
         \/ \E l \in LeaseId, o \in Outcome : CompleteDirectly(l, o)
  PROVE  TrafficInv' /\ [Next]_vars
<1>1. "active_discovery" \in Purpose
  BY DEF Purpose
<1>2. ASSUME NEW p \in permits, ConsumeDirectly(p)
      PROVE  TrafficInv' /\ [Next]_vars
  <2>1. Next /\ UNCHANGED handlerVars
    BY <1>1, <1>2 DEF ConsumeDirectly, Next
  <2>2. CooldownInv' /\ Later
    BY <2>1, InvariantStep, NextIsLater DEF TrafficInv
  <2>3. /\ outcomes' \subseteq Report /\ hosts' \subseteq [ip : Addr, seen : Nat]
        /\ UNCHANGED <<handlers, wire>>
    BY <2>1 DEF handlerVars, TrafficInv, HandlerTypeOK
  <2>4. QED
    BY <2>1, <2>2, <2>3, RequestsWait
<1>3. ASSUME NEW l \in LeaseId, NEW o \in Outcome, CompleteDirectly(l, o)
      PROVE  TrafficInv' /\ [Next]_vars
  <2>1. Next /\ UNCHANGED <<handlers, hosts, wire>>
    BY <1>1, <1>3 DEF CompleteDirectly, Next
  <2>2. CooldownInv' /\ Later
    BY <2>1, InvariantStep, NextIsLater DEF TrafficInv
  <2>3. outcomes' \subseteq Report
    BY <1>3 DEF CompleteDirectly, Told, Report, TrafficInv, HandlerTypeOK
  <2>4. hosts' \subseteq [ip : Addr, seen : Nat]
    BY <2>1 DEF TrafficInv, HandlerTypeOK
  <2>5. QED
    BY <2>1, <2>2, <2>3, <2>4, RequestsWait
<1>4. QED
  BY <1>2, <1>3

LEMMA CorpusInvariant ==
  ASSUME TrafficInv, UNCHANGED <<vars, handlers, outcomes, wire>>,
         hosts' \subseteq hosts
  PROVE  TrafficInv' /\ [Next]_vars
<1>1. CooldownInv' /\ Later /\ [Next]_vars
  BY IdleIsLater DEF TrafficInv
<1>2. outcomes' \subseteq Report /\ hosts' \subseteq [ip : Addr, seen : Nat]
  BY DEF TrafficInv, HandlerTypeOK
<1>3. QED
  BY <1>1, <1>2, RequestsWait

-----------------------------------------------------------------------------
LEMMA HandlerStep == TrafficInv /\ [HandlerNext]_allVars => TrafficInv' /\ [Next]_vars
<1> SUFFICES ASSUME TrafficInv, [HandlerNext]_allVars
             PROVE  TrafficInv' /\ [Next]_vars
  OBVIOUS
<1>1. ASSUME NEW h \in Handler, Handles(h)
      PROVE  TrafficInv' /\ [Next]_vars
  BY <1>1, StartInvariant, AcquireInvariant, ConsumeInvariantOfRequest,
     ProbeInvariant, CompleteInvariantOfRequest, StoreInvariant DEF Handles
<1>2. CASE Beside /\ UNCHANGED handlerVars
  BY <1>2, BesideInvariant
<1>3. ASSUME \/ \E p \in permits : ConsumeDirectly(p)
             \/ \E l \in LeaseId, o \in Outcome : CompleteDirectly(l, o)
      PROVE  TrafficInv' /\ [Next]_vars
  BY <1>3, DirectInvariant
<1>4. ASSUME NEW ip \in Addr, RetireHost(ip)
      PROVE  TrafficInv' /\ [Next]_vars
  BY <1>4, CorpusInvariant DEF RetireHost
<1>5. ASSUME NEW r \in exclusions, NEW page \in SUBSET hosts, PurgeHosts(r, page)
      PROVE  TrafficInv' /\ [Next]_vars
  BY <1>5, CorpusInvariant DEF PurgeHosts
<1>6. CASE UNCHANGED allVars
  BY <1>6, CorpusInvariant DEF allVars, handlerVars
<1>7. QED
  BY <1>1, <1>2, <1>3, <1>4, <1>5, <1>6 DEF HandlerNext

LEMMA HandlerInitially == HandlerInit => TrafficInv
<1> SUFFICES ASSUME HandlerInit PROVE TrafficInv
  OBVIOUS
<1>1. Init => CooldownInv
  BY DEF Init, CooldownInv, TypeOK, AttemptClock, CooldownHeld, GrantsOnce, GrantsPast,
         GrantSpacing, PermitsGranted, EmissionsGranted, SpentLeases
<1>2. QED
  BY <1>1 DEF HandlerInit, TrafficInv, HandlerTypeOK, RequestsRightful,
              OneAtTheSocket, TrafficAccounted, At, CooldownInv

THEOREM TrafficInvariant == HandlerSpec => []TrafficInv
BY HandlerInitially, HandlerStep, PTL DEF HandlerSpec

(* Whatever the handlers, the runner and the maintainers do, each of their    *)
(* steps is one of the permit path's: its theorems hold of the whole.        *)
THEOREM HandlersUsePermits == HandlerSpec => Spec
<1>1. HandlerInit => Init
  BY DEF HandlerInit
<1>2. QED
  BY <1>1, TrafficInvariant, HandlerStep, PTL DEF HandlerSpec, Spec

(* "a crash, replay, late opt-out, or overlapping request cannot emit         *)
(* unaccounted traffic". *)
THEOREM TrafficIsAccounted == HandlerSpec => []TrafficAccounted
<1>1. TrafficInv => TrafficAccounted
  BY DEF TrafficInv
<1>2. QED
  BY <1>1, TrafficInvariant, PTL

-----------------------------------------------------------------------------
(* Evidence: what stays true of a finding while others act.                *)

Known == wire \subseteq wire' /\ outcomes \subseteq outcomes'

(* Why a host may be gone. *)
HostsKept ==
  \A y \in hosts :
    \/ \E z \in hosts' : z.ip = y.ip /\ y.seen <= z.seen
    \/ \E r \in exclusions' : MayCover(r, y.ip)
    \/ FoundSilent(y.ip, y.seen)'

LEMMA KeptStays ==
  ASSUME HandlerTypeOK, HandlerTypeOK', Later, Known, HostsKept,
         NEW ip \in Addr, NEW t \in Nat, Kept(ip, t)
  PROVE  Kept(ip, t)'
<1>1. /\ \A w \in wire' : w.at \in Nat
      /\ \A e \in emissions' : e.at \in Nat
      /\ \A x \in hosts : x.seen \in Nat
      /\ \A x \in hosts' : x.seen \in Nat
  BY DEF HandlerTypeOK, TypeOK, Probed, ProbeRecord
<1>2. CASE FoundSilent(ip, t)
  <2>1. FoundSilent(ip, t)'
    BY <1>2 DEF FoundSilent, Known, Later
  <2>2. QED
    BY <2>1 DEF Kept
<1>3. CASE \E r \in exclusions : MayCover(r, ip)
  BY <1>3 DEF Kept, Later, MayCover
<1>4. ASSUME NEW x \in hosts, x.ip = ip, t <= x.seen
      PROVE  Kept(ip, t)'
  <2>1. CASE \E z \in hosts' : z.ip = x.ip /\ x.seen <= z.seen
    BY <1>1, <1>4, <2>1 DEF Kept
  <2>2. CASE \E r \in exclusions' : MayCover(r, x.ip)
    BY <1>4, <2>2 DEF Kept, MayCover
  <2>3. CASE FoundSilent(x.ip, x.seen)'
    <3>1. FoundSilent(ip, t)'
      BY <1>1, <1>4, <2>3 DEF FoundSilent
    <3>2. QED
      BY <3>1 DEF Kept
  <2>4. QED
    BY <2>1, <2>2, <2>3 DEF HostsKept
<1>5. QED
  BY <1>2, <1>3, <1>4 DEF Kept

LEMMA SawStays ==
  ASSUME TypeOK, Later, Known, NEW h, NEW v, HandlerTypeOK, SawExposure(h, v)
  PROVE  SawExposure(h, v)' /\ v.at \in Nat
<1>1. v.at \in Nat
  BY DEF SawExposure, HandlerTypeOK, Probed
<1>2. QED
  BY <1>1 DEF SawExposure, Later, Known

(* A request that does not move. *)
LEMMA StillEvident ==
  ASSUME HandlerTypeOK, HandlerTypeOK', Later, Known, HostsKept,
         NEW k \in Handler, Evident(k), handlers'[k] = handlers[k]
  PROVE  Evident(k)'
<1>1. FindingBacked(k)'
  BY DEF Evident, FindingBacked, At, Known
<1>2. ExposureBacked(k)'
  BY SawStays DEF Evident, ExposureBacked, SawExposure, Known, HandlerTypeOK
<1>3. StoredSince(k)'
  <2>1. SUFFICES ASSUME At(k, "answered"), handlers[k].answer = "ok",
                        handlers[k].exposed, handlers[k].purpose # "owned_canary"
                 PROVE  \E v \in wire' : SawExposure(k, v)' /\ Kept(handlers[k].ip, v.at)'
    BY DEF StoredSince, At
  <2>2. PICK v \in wire : SawExposure(k, v) /\ Kept(handlers[k].ip, v.at)
    BY <2>1 DEF Evident, StoredSince
  <2>3. handlers[k].ip \in Addr
    BY <2>1 DEF At, HandlerTypeOK, Invocation
  <2>4. SawExposure(k, v)' /\ v.at \in Nat /\ v \in wire'
    BY <2>2, SawStays DEF HandlerTypeOK, Known
  <2>5. Kept(handlers[k].ip, v.at)'
    BY <2>2, <2>3, <2>4, KeptStays
  <2>6. QED
    BY <2>4, <2>5
<1>4. QED
  BY <1>1, <1>2, <1>3 DEF Evident

(* A request that moves on without probing, and answers "ok" only if it has   *)
(* no exposure to store. *)
LEMMA MovedEvident ==
  ASSUME HandlerTypeOK, Later, Known, NEW h \in Handler, Evident(h),
         handlers[h] # NotStarted, handlers'[h].stage # "complete",
         handlers'[h].exposed = handlers[h].exposed,
         handlers'[h].purpose = handlers[h].purpose,
         handlers'[h].stage = "answered" /\ handlers'[h].answer = "ok" =>
           ~(handlers[h].exposed /\ handlers[h].purpose # "owned_canary")
  PROVE  Evident(h)'
<1>1. FindingBacked(h)'
  BY DEF FindingBacked, At
<1>2. ExposureBacked(h)'
  BY SawStays DEF Evident, ExposureBacked, SawExposure, Known, HandlerTypeOK
<1>3. StoredSince(h)'
  BY DEF StoredSince, At
<1>4. QED
  BY <1>1, <1>2, <1>3 DEF Evident

(* What a step of one request leaves of the others. *)
Alone(h) == \A k \in Handler : k # h => handlers'[k] = handlers[k]

LEMMA MovesAlone ==
  ASSUME HandlerTypeOK, NEW h \in Handler, handlers[h] # NotStarted,
         NEW stage, Moves(h, stage)
  PROVE  /\ Alone(h) /\ handlers'[h].stage = stage
         /\ handlers'[h].exposed = handlers[h].exposed
         /\ handlers'[h].purpose = handlers[h].purpose
BY DEF HandlerTypeOK, Invocation, Moves, Alone

LEMMA AnswersAlone ==
  ASSUME HandlerTypeOK, NEW h \in Handler, handlers[h] # NotStarted,
         NEW answer, Answers(h, answer)
  PROVE  /\ Alone(h) /\ handlers'[h].stage = "answered"
         /\ handlers'[h].answer = answer
         /\ handlers'[h].exposed = handlers[h].exposed
         /\ handlers'[h].purpose = handlers[h].purpose
         /\ handlers'[h].ip = handlers[h].ip
BY DEF HandlerTypeOK, Invocation, Answers, Alone

LEMMA RefusedEvident ==
  ASSUME HandlerTypeOK, Later, Known, NEW h \in Handler, Evident(h),
         handlers[h] # NotStarted, GateClosed(h)
  PROVE  Alone(h) /\ Evident(h)'
<1>1. PICK answer \in {"denied", "no_traffic", "rate_limited"} : Answers(h, answer)
  BY DEF GateClosed
<1>2. QED
  BY <1>1, AnswersAlone, MovedEvident

(* The reports and the corpus where a step does not touch them. *)
LEMMA ReportsStay ==
  ASSUME ReportsBacked, Later, Known, outcomes' = outcomes
  PROVE  ReportsBacked'
BY DEF ReportsBacked, Later, Known, Leases

LEMMA HostsStay ==
  ASSUME HandlerTypeOK, Later, HostsOnce, hosts' = hosts
  PROVE  HostsKept /\ HostsOnce'
<1>1. \A x \in hosts : x.seen \in Nat
  BY DEF HandlerTypeOK
<1>2. QED
  BY <1>1 DEF HostsKept, HostsOnce, Later

(* A step of one request that reports and stores nothing. *)
LEMMA EvidenceStays ==
  ASSUME HandlerTypeOK, HandlerTypeOK', Later, Known, EvidenceInv,
         UNCHANGED <<outcomes, hosts>>, NEW h \in Handler, Alone(h), Evident(h)'
  PROVE  EvidenceInv'
<1>1. ReportsBacked' /\ HostsKept /\ HostsOnce'
  BY ReportsStay, HostsStay DEF EvidenceInv
<1>2. \A k \in Handler : Evident(k)'
  BY <1>1, StillEvident DEF EvidenceInv, Alone
<1>3. QED
  BY <1>1, <1>2 DEF EvidenceInv

(* A step of no request. *)
LEMMA EvidenceWaits ==
  ASSUME HandlerTypeOK, HandlerTypeOK', Later, Known, EvidenceInv,
         handlers' = handlers, ReportsBacked', HostsKept, HostsOnce'
  PROVE  EvidenceInv'
<1>1. \A k \in Handler : Evident(k)'
  BY StillEvident DEF EvidenceInv
<1>2. QED
  BY <1>1 DEF EvidenceInv

-----------------------------------------------------------------------------
(* The steps of a request.                                                 *)

(* What every step of the whole may rely on. *)
Sound ==
  /\ TrafficInv /\ TrafficInv' /\ HandlerTypeOK /\ HandlerTypeOK'
  /\ RowsBacked /\ EvidenceInv /\ Later

LEMMA BeginEvidence ==
  ASSUME Sound, NEW h \in Handler, NEW stage \in {"acquire", "consume"},
         NEW purpose, NEW ip, NEW asn, NEW todo, NEW lease,
         Begin(h, stage, purpose, ip, asn, todo, lease)
  PROVE  EvidenceInv'
<1>1. /\ Known /\ UNCHANGED <<outcomes, hosts>>
      /\ Alone(h) /\ handlers'[h].stage = stage /\ handlers'[h].exposed = FALSE
  BY DEF Begin, Known, Alone, Sound, HandlerTypeOK
<1>2. Evident(h)'
  BY <1>1 DEF Evident, FindingBacked, ExposureBacked, StoredSince, At
<1>3. QED
  BY <1>1, <1>2, EvidenceStays DEF Sound

LEMMA AcquireEvidence ==
  ASSUME Sound, NEW h \in Handler, Acquire(h)
  PROVE  EvidenceInv'
<1>1. /\ Known /\ UNCHANGED <<outcomes, hosts>> /\ handlers[h] # NotStarted
      /\ Evident(h)
  BY DEF Acquire, Known, At, Sound, EvidenceInv
<1>2. CASE GateClosed(h)
  BY <1>1, <1>2, RefusedEvident, EvidenceStays DEF Sound
<1>3. ASSUME NEW l \in LeaseId, NEW s \in handlers[h].todo,
             handlers' = [handlers EXCEPT
               ![h].stage = "consume", ![h].lease = l,
               ![h].todo = handlers[h].todo \ {s}]
      PROVE  EvidenceInv'
  <2>1. /\ Alone(h) /\ handlers'[h].stage = "consume"
        /\ handlers'[h].exposed = handlers[h].exposed
        /\ handlers'[h].purpose = handlers[h].purpose
    BY <1>1, <1>3 DEF Sound, HandlerTypeOK, Invocation, Alone
  <2>2. Evident(h)'
    BY <1>1, <2>1, MovedEvident DEF Sound
  <2>3. QED
    BY <1>1, <2>1, <2>2, EvidenceStays DEF Sound
<1>4. QED
  BY <1>2, <1>3 DEF Acquire

LEMMA ConsumeEvidence ==
  ASSUME Sound, NEW h \in Handler, Consume(h)
  PROVE  EvidenceInv'
<1>1. /\ Known /\ UNCHANGED <<outcomes, hosts>> /\ handlers[h] # NotStarted
      /\ Evident(h)
  BY DEF Consume, Known, At, Sound, EvidenceInv
<1>2. CASE GateClosed(h)
  BY <1>1, <1>2, RefusedEvident, EvidenceStays DEF Sound
<1>3. CASE Moves(h, "probe")
  <2>1. Alone(h) /\ Evident(h)'
    BY <1>1, <1>3, MovesAlone, MovedEvident DEF Sound
  <2>2. QED
    BY <1>1, <2>1, EvidenceStays DEF Sound
<1>4. QED
  BY <1>2, <1>3 DEF Consume

(* What a request knows after its probe, the probe shows: only a platform    *)
(* error may have opened no socket. *)
LEMMA ProbeEvidence ==
  ASSUME Sound, NEW h \in Handler, Probe(h)
  PROVE  EvidenceInv'
<1> DEFINE x == handlers[h]
<1>1. /\ Known /\ UNCHANGED <<outcomes, hosts>> /\ x # NotStarted
      /\ Evident(h) /\ UNCHANGED vars /\ now \in Nat
  BY DEF Probe, Known, At, Sound, EvidenceInv, HandlerTypeOK, TypeOK
<1>2. PICK o \in Outcome :
        /\ handlers' = [handlers EXCEPT
             ![h].stage = "complete", ![h].outcome = o,
             ![h].exposed = x.exposed \/ o = "exposed"]
        /\ \/ wire' = wire \cup
                {[by |-> h, lease |-> x.lease, ip |-> x.ip,
                  purpose |-> x.purpose, outcome |-> o, at |-> now]}
           \/ o = "platform_error" /\ UNCHANGED wire
  BY DEF Probe
<1> DEFINE w == [by |-> h, lease |-> x.lease, ip |-> x.ip,
                 purpose |-> x.purpose, outcome |-> o, at |-> now]
<1>3. /\ Alone(h) /\ handlers'[h].stage = "complete"
      /\ handlers'[h].outcome = o /\ handlers'[h].lease = x.lease
      /\ handlers'[h].exposed => x.exposed \/ o = "exposed"
  BY <1>1, <1>2 DEF Sound, HandlerTypeOK, Invocation, Alone
<1>4. o # "platform_error" => w \in wire'
  BY <1>2
<1>5. /\ w.by = h /\ w.lease = x.lease /\ w.outcome = o /\ w.at = now
  OBVIOUS
<1>6. now' = now
  BY <1>1 DEF vars
<1> HIDE DEF w
<1>7. FindingBacked(h)'
  BY <1>3, <1>4, <1>5 DEF FindingBacked
<1>8. ExposureBacked(h)'
  <2>1. CASE o = "exposed"
    BY <1>1, <1>4, <1>5, <1>6, <2>1 DEF ExposureBacked, SawExposure
  <2>2. CASE o # "exposed"
    BY <1>1, <1>3, <1>6, <2>2
    DEF ExposureBacked, SawExposure, Evident, Known
  <2>3. QED
    BY <2>1, <2>2
<1>9. StoredSince(h)'
  BY <1>3 DEF StoredSince, At
<1>10. QED
  BY <1>1, <1>3, <1>7, <1>8, <1>9, EvidenceStays DEF Sound, Evident

(* A completion is accepted only for a row that was emitted, and reports what *)
(* the probe showed. *)
LEMMA CompletionBacked ==
  ASSUME Sound, NEW l \in LeaseId, NEW expected, CompleteLease(l, expected)
  PROVE  l \in Leases(emissions)
<1>1. PICK a \in attempts : a.lease = l /\ a.state = "emitted"
  BY DEF CompleteLease
<1>2. QED
  BY <1>1 DEF Sound, RowsBacked

LEMMA ProceedsEvident ==
  ASSUME HandlerTypeOK, Later, Known, NEW h \in Handler, Evident(h),
         handlers[h] # NotStarted, Proceeds(h) \/ Unconfirmed(h)
  PROVE  Alone(h) /\ Evident(h)'
<1>1. CASE Moves(h, "acquire") \/ Moves(h, "store")
  BY <1>1, MovesAlone, MovedEvident
<1>2. CASE Answers(h, "completion_failed")
  BY <1>2, AnswersAlone, MovedEvident
<1>3. CASE /\ ~(handlers[h].exposed /\ handlers[h].purpose # "owned_canary")
           /\ Answers(h, "ok")
  BY <1>3, AnswersAlone, MovedEvident
<1>4. QED
  BY <1>1, <1>2, <1>3 DEF Proceeds, Unconfirmed

LEMMA CompleteEvidence ==
  ASSUME Sound, NEW h \in Handler, Complete(h)
  PROVE  EvidenceInv'
<1> DEFINE x == handlers[h]
<1>1. /\ UNCHANGED <<hosts, wire>> /\ x # NotStarted /\ At(h, "complete")
      /\ Evident(h)
      /\ Proceeds(h) \/ Unconfirmed(h)
  BY DEF Complete, At, Sound, EvidenceInv
<1>2. Known
  BY DEF Complete, Told, Known
<1>3. Alone(h) /\ Evident(h)'
  BY <1>1, <1>2, ProceedsEvident DEF Sound
<1>4. CASE UNCHANGED outcomes
  BY <1>1, <1>2, <1>3, <1>4, EvidenceStays DEF Sound
<1>5. CASE CompleteLease(x.lease, x.purpose) /\ Told(x.lease, x.outcome, "handler")
  <2>1. x.lease \in LeaseId
    BY <1>1 DEF Sound, TrafficInv, RequestsRightful, Rightful, At
  <2>2. x.lease \in Leases(emissions)
    BY <1>5, <2>1, CompletionBacked
  <2>3. x.outcome # "platform_error" =>
          \E w \in wire : w.lease = x.lease /\ w.outcome = x.outcome
    BY <1>1 DEF Evident, FindingBacked
  <2>4. ReportsBacked'
    <3>1. SUFFICES ASSUME NEW o \in outcomes'
                   PROVE  /\ o.lease \in Leases(emissions')
                          /\ o.by = "handler" /\ o.outcome # "platform_error" =>
                               \E w \in wire' : w.lease = o.lease /\ w.outcome = o.outcome
      BY DEF ReportsBacked
    <3>2. Leases(emissions) \subseteq Leases(emissions')
      BY DEF Sound, Later, Leases
    <3>3. CASE o \in outcomes
      BY <1>1, <3>2, <3>3 DEF Sound, EvidenceInv, ReportsBacked
    <3>4. CASE o \notin outcomes
      <4>1. o.lease = x.lease /\ o.outcome = x.outcome
        BY <1>5, <3>1, <3>4 DEF Told
      <4>2. QED
        BY <1>1, <2>2, <2>3, <3>2, <4>1
    <3>5. QED
      BY <3>3, <3>4
  <2>5. HostsKept /\ HostsOnce'
    BY <1>1, HostsStay DEF Sound, EvidenceInv
  <2>6. \A k \in Handler : Evident(k)'
    BY <1>2, <1>3, <2>5, StillEvident DEF Sound, EvidenceInv, Alone
  <2>7. QED
    BY <2>4, <2>5, <2>6 DEF EvidenceInv
<1>6. QED
  BY <1>4, <1>5 DEF Complete

LEMMA UpsertKeeps ==
  ASSUME HandlerTypeOK, HostsOnce, now' = now, NEW ip, UpsertHost(ip)
  PROVE  HostsKept /\ HostsOnce'
<1>1. /\ now \in Nat
      /\ \A x \in hosts : x.seen \in Nat /\ x.seen <= now
  BY DEF HandlerTypeOK, TypeOK, HostsOnce
<1> DEFINE row == [ip |-> ip, seen |-> now]
<1>2. /\ hosts' = {x \in hosts : x.ip # ip} \cup {row}
      /\ row.ip = ip /\ row.seen = now
  BY DEF UpsertHost
<1> HIDE DEF row
<1>3. HostsKept
  <2>1. SUFFICES ASSUME NEW y \in hosts
                 PROVE  \E z \in hosts' : z.ip = y.ip /\ y.seen <= z.seen
    BY DEF HostsKept
  <2>2. CASE y.ip = ip
    BY <1>1, <1>2, <2>2
  <2>3. CASE y.ip # ip
    BY <1>1, <1>2, <2>3
  <2>4. QED
    BY <2>2, <2>3
<1>4. HostsOnce'
  BY <1>1, <1>2 DEF HostsOnce
<1>5. QED
  BY <1>3, <1>4

LEMMA StoreEvidence ==
  ASSUME Sound, NEW h \in Handler, Store(h)
  PROVE  EvidenceInv'
<1> DEFINE x == handlers[h]
<1>1. /\ UNCHANGED <<vars, outcomes, wire>> /\ x # NotStarted /\ Evident(h)
      /\ Known /\ now' = now
  BY DEF Store, At, Known, Sound, EvidenceInv, vars
<1>2. CASE UNCHANGED hosts /\ Answers(h, "storage_failed")
  BY <1>1, <1>2, AnswersAlone, MovedEvident, EvidenceStays DEF Sound
<1>3. CASE UpsertHost(x.ip) /\ (Answers(h, "ok") \/ Answers(h, "storage_failed"))
  <2>1. HostsKept /\ HostsOnce'
    BY <1>1, <1>3, UpsertKeeps DEF Sound, EvidenceInv
  <2>2. CASE Answers(h, "storage_failed")
    <3>1. Alone(h) /\ Evident(h)'
      BY <1>1, <2>2, AnswersAlone, MovedEvident DEF Sound
    <3>2. \A k \in Handler : Evident(k)'
      BY <1>1, <2>1, <3>1, StillEvident DEF Sound, EvidenceInv, Alone
    <3>3. QED
      BY <1>1, <2>1, <3>2, ReportsStay DEF Sound, EvidenceInv
  <2>3. CASE Answers(h, "ok")
    <3>1. /\ Alone(h) /\ handlers'[h].stage = "answered"
          /\ handlers'[h].exposed = x.exposed /\ handlers'[h].ip = x.ip
      BY <1>1, <2>3, AnswersAlone DEF Sound
    <3>2. FindingBacked(h)'
      BY <3>1 DEF FindingBacked, At
    <3>3. ExposureBacked(h)'
      BY <1>1, <3>1, SawStays
      DEF Sound, Evident, ExposureBacked, SawExposure, Known, HandlerTypeOK
    <3>4. StoredSince(h)'
      <4>1. SUFFICES ASSUME x.exposed
                     PROVE  \E v \in wire' :
                              SawExposure(h, v)' /\ Kept(handlers[h].ip, v.at)'
        BY <3>1 DEF StoredSince
      <4>2. PICK v \in wire : SawExposure(h, v)
        BY <1>1, <4>1 DEF Evident, ExposureBacked
      <4>3. v.at <= now /\ SawExposure(h, v)' /\ v \in wire'
        BY <1>1, <4>2 DEF SawExposure
      <4>4. [ip |-> x.ip, seen |-> now] \in hosts'
        BY <1>3 DEF UpsertHost
      <4>5. Kept(handlers[h].ip, v.at)'
        BY <3>1, <4>3, <4>4 DEF Kept
      <4>6. QED
        BY <4>3, <4>5
    <3>5. \A k \in Handler : Evident(k)'
      BY <1>1, <2>1, <3>1, <3>2, <3>3, <3>4, StillEvident
      DEF Sound, EvidenceInv, Alone, Evident
    <3>6. QED
      BY <1>1, <2>1, <3>5, ReportsStay DEF Sound, EvidenceInv
  <2>4. QED
    BY <1>3, <2>2, <2>3
<1>4. QED
  BY <1>2, <1>3 DEF Store

-----------------------------------------------------------------------------
(* The steps beside the requests.                                          *)

(* The row a host is retired on was granted when it says, its outcome was     *)
(* reported after the packet left, and a handler reports what it saw. *)
LEMMA RetirementEvidence ==
  ASSUME Sound, NEW ip \in Addr, RetireHost(ip), NEW x \in hosts, x.ip = ip
  PROVE  FoundSilent(ip, x.seen)
<1>1. PICK y \in hosts, a \in attempts :
        /\ y.ip = ip
        /\ a.ip = ip /\ a.purpose = "active_discovery" /\ a.state = "complete"
        /\ a.last >= y.seen
        /\ "silent" \in OutcomesOf(a)
  BY DEF RetireHost
<1>2. y = x
  BY <1>1 DEF Sound, EvidenceInv, HostsOnce
<1>3. PICK o \in outcomes : o.lease = a.lease /\ o.outcome = "silent"
  BY <1>1 DEF OutcomesOf
<1>4. o.lease \in LeaseId /\ o.by \in {"handler", "maintainer"}
  BY DEF Sound, HandlerTypeOK, Report
<1>5. PICK g \in granted : /\ g.lease = a.lease /\ g.ip = ip
                           /\ g.purpose = "active_discovery" /\ g.at = a.last
  BY <1>1, <1>3, <1>4 DEF Sound, RowsBacked
<1>6. ASSUME NEW e \in emissions, e.lease = a.lease
      PROVE  /\ e.ip = ip /\ e.purpose = "active_discovery"
             /\ e.at >= x.seen /\ e.at \in Nat
  <2>1. PICK f \in granted : /\ f.lease = e.lease /\ f.ip = e.ip
                             /\ f.purpose = e.purpose /\ f.at <= e.at
    BY DEF Sound, TrafficInv, CooldownInv, EmissionsGranted
  <2>2. f = g
    BY <1>5, <1>6, <2>1 DEF Sound, TrafficInv, CooldownInv, GrantsOnce
  <2>3. e.at \in Nat /\ g.at \in Nat /\ x.seen \in Nat
    BY DEF Sound, HandlerTypeOK, TypeOK, ProbeRecord
  <2>4. QED
    BY <1>1, <1>2, <1>5, <2>1, <2>2, <2>3
<1>7. CASE o.by = "maintainer"
  <2>1. PICK e \in emissions : e.lease = o.lease
    BY DEF Sound, EvidenceInv, ReportsBacked, Leases
  <2>2. QED
    BY <1>3, <1>6, <1>7, <2>1 DEF FoundSilent
<1>8. CASE o.by = "handler"
  <2>1. PICK w \in wire : w.lease = o.lease /\ w.outcome = "silent"
    BY <1>3, <1>8 DEF Sound, EvidenceInv, ReportsBacked
  <2>2. PICK e \in emissions : /\ e.lease = w.lease /\ e.ip = w.ip
                               /\ e.purpose = w.purpose /\ e.at <= w.at
    BY DEF Sound, TrafficInv, TrafficAccounted
  <2>3. w.at \in Nat /\ x.seen \in Nat
    BY DEF Sound, HandlerTypeOK, Probed
  <2>4. /\ w.ip = ip /\ w.purpose = "active_discovery" /\ w.at >= x.seen
    BY <1>3, <1>6, <2>1, <2>2, <2>3
  <2>5. QED
    BY <2>1, <2>4 DEF FoundSilent
<1>9. QED
  BY <1>4, <1>7, <1>8

LEMMA HostsOnceFewer ==
  ASSUME HandlerTypeOK, HostsOnce, Later, hosts' \subseteq hosts
  PROVE  HostsOnce'
<1>1. \A x \in hosts : x.seen \in Nat
  BY DEF HandlerTypeOK
<1>2. QED
  BY <1>1 DEF HostsOnce, Later

LEMMA RetireKeeps ==
  ASSUME Sound, NEW ip \in Addr, RetireHost(ip)
  PROVE  HostsKept
<1>1. hosts' = {x \in hosts : x.ip # ip} /\ UNCHANGED <<vars, outcomes, wire>>
  BY DEF RetireHost
<1>2. SUFFICES ASSUME NEW y \in hosts
               PROVE  \/ \E z \in hosts' : z.ip = y.ip /\ y.seen <= z.seen
                      \/ FoundSilent(y.ip, y.seen)'
  BY DEF HostsKept
<1>3. CASE y.ip = ip
  <2>1. FoundSilent(y.ip, y.seen)
    BY <1>3, RetirementEvidence
  <2>2. emissions' = emissions
    BY <1>1 DEF vars
  <2>3. QED
    BY <1>1, <2>1, <2>2 DEF FoundSilent
<1>4. CASE y.ip # ip
  <2>1. y \in hosts' /\ y.seen \in Nat
    BY <1>1, <1>4 DEF Sound, HandlerTypeOK
  <2>2. QED
    BY <2>1
<1>5. QED
  BY <1>3, <1>4

LEMMA PurgeKeeps ==
  ASSUME Sound, NEW r \in exclusions, NEW page \in SUBSET hosts,
         PurgeHosts(r, page)
  PROVE  HostsKept
<1>1. /\ hosts' = hosts \ page /\ exclusions' = exclusions
      /\ \A x \in page : MayCover(r, x.ip)
  BY DEF PurgeHosts, vars
<1>2. SUFFICES ASSUME NEW y \in hosts
               PROVE  \/ \E z \in hosts' : z.ip = y.ip /\ y.seen <= z.seen
                      \/ MayCover(r, y.ip)
  BY <1>1 DEF HostsKept, MayCover
<1>3. y.seen \in Nat
  BY DEF Sound, HandlerTypeOK
<1>4. QED
  BY <1>1, <1>3

LEMMA BesideEvidence ==
  ASSUME Sound,
         \/ UNCHANGED handlerVars
         \/ \E l \in LeaseId, o \in Outcome : CompleteDirectly(l, o)
  PROVE  EvidenceInv'
<1>1. UNCHANGED <<handlers, hosts, wire>> /\ Known
  BY DEF handlerVars, CompleteDirectly, Told, Known
<1>2. HostsKept /\ HostsOnce'
  BY <1>1, HostsStay DEF Sound, EvidenceInv
<1>3. CASE UNCHANGED handlerVars
  BY <1>1, <1>2, <1>3, ReportsStay, EvidenceWaits
  DEF Sound, EvidenceInv, handlerVars
<1>4. ASSUME NEW l \in LeaseId, NEW o \in Outcome, CompleteDirectly(l, o)
      PROVE  EvidenceInv'
  <2>1. CompleteLease(l, "active_discovery") /\ Told(l, o, "maintainer")
    BY <1>4 DEF CompleteDirectly
  <2>2. l \in Leases(emissions) /\ Leases(emissions) \subseteq Leases(emissions')
    BY <2>1, CompletionBacked DEF Sound, Later, Leases
  <2>3. \A p \in outcomes' :
          p \in outcomes \/ (p.lease = l /\ p.by = "maintainer")
    BY <2>1 DEF Told
  <2>4. ReportsBacked'
    BY <1>1, <2>2, <2>3 DEF Sound, EvidenceInv, ReportsBacked
  <2>5. QED
    BY <1>1, <1>2, <2>4, EvidenceWaits DEF Sound
<1>5. QED
  BY <1>3, <1>4

LEMMA CorpusEvidence ==
  ASSUME Sound, UNCHANGED <<vars, handlers, outcomes, wire>>,
         hosts' \subseteq hosts, HostsKept
  PROVE  EvidenceInv'
<1>1. Known /\ ReportsBacked' /\ HostsOnce'
  BY ReportsStay, HostsOnceFewer DEF Sound, EvidenceInv, Known
<1>2. QED
  BY <1>1, EvidenceWaits DEF Sound

LEMMA EvidenceStep == Sound /\ [HandlerNext]_allVars => EvidenceInv'
<1> SUFFICES ASSUME Sound, [HandlerNext]_allVars PROVE EvidenceInv'
  OBVIOUS
<1>1. ASSUME NEW h \in Handler, Handles(h)
      PROVE  EvidenceInv'
  BY <1>1, BeginEvidence, AcquireEvidence, ConsumeEvidence, ProbeEvidence,
     CompleteEvidence, StoreEvidence
  DEF Handles, StartCheck, StartCanary, StartProbe
<1>2. CASE Beside /\ UNCHANGED handlerVars
  BY <1>2, BesideEvidence
<1>3. ASSUME NEW p \in permits, ConsumeDirectly(p)
      PROVE  EvidenceInv'
  BY <1>3, BesideEvidence DEF ConsumeDirectly
<1>4. CASE \E l \in LeaseId, o \in Outcome : CompleteDirectly(l, o)
  BY <1>4, BesideEvidence
<1>5. ASSUME NEW ip \in Addr, RetireHost(ip)
      PROVE  EvidenceInv'
  BY <1>5, RetireKeeps, CorpusEvidence DEF RetireHost
<1>6. ASSUME NEW r \in exclusions, NEW page \in SUBSET hosts, PurgeHosts(r, page)
      PROVE  EvidenceInv'
  BY <1>6, PurgeKeeps, CorpusEvidence DEF PurgeHosts
<1>7. CASE UNCHANGED allVars
  BY <1>7, BesideEvidence DEF allVars
<1>8. QED
  BY <1>1, <1>2, <1>3, <1>4, <1>5, <1>6, <1>7 DEF HandlerNext

(* A step from the invariant meets what the lemmas above assume of it. *)
LEMMA InvariantIsSound ==
  HandlerInv /\ [HandlerNext]_allVars => Sound /\ RowsBacked'
<1> SUFFICES ASSUME HandlerInv, [HandlerNext]_allVars PROVE Sound /\ RowsBacked'
  OBVIOUS
<1>1. TrafficInv /\ TrafficInv' /\ [Next]_vars
  BY HandlerStep DEF HandlerInv
<1>2. CooldownInv /\ HandlerTypeOK /\ HandlerTypeOK'
  BY <1>1 DEF TrafficInv
<1>3. Later /\ RowsBacked'
  BY <1>1, <1>2, NextIsLater, RowsStep DEF HandlerInv
<1>4. QED
  BY <1>1, <1>2, <1>3 DEF Sound, HandlerInv

(* The inductive invariant of the handlers over the permit path: what each   *)
(* request may rely on, and what the reports and the corpus rest on. *)
THEOREM HandlersInvariant == HandlerSpec => []HandlerInv
<1>1. HandlerInit => HandlerInv
  <2>1. HandlerInit => TrafficInv
    BY HandlerInitially
  <2>2. HandlerInit => RowsBacked /\ EvidenceInv
    BY DEF HandlerInit, Init, RowsBacked, EvidenceInv, ReportsBacked, HostsOnce,
           Evident, FindingBacked, ExposureBacked, StoredSince, At
  <2>3. QED
    BY <2>1, <2>2 DEF HandlerInv
<1>2. HandlerInv /\ [HandlerNext]_allVars => HandlerInv'
  BY InvariantIsSound, EvidenceStep DEF HandlerInv, Sound
<1>3. QED
  BY <1>1, <1>2, PTL DEF HandlerSpec

(* An exposure answered with success is in the corpus, unless a rule has      *)
(* taken it or a later discovery found nothing any more. *)
THEOREM ExposureIsStored == HandlerSpec => []ExposureStored
<1>1. HandlerInv => ExposureStored
  BY DEF HandlerInv, EvidenceInv, Evident, StoredSince, SawExposure, Kept,
         ExposureStored
<1>2. QED
  BY <1>1, HandlersInvariant, PTL

(* A host that no rule covers leaves the corpus only after a discovery of its *)
(* address, sent since it last answered, found nothing. *)
THEOREM RetirementNeedsEvidence == HandlerSpec => RetiredOnEvidence
<1> DEFINE Evidenced ==
      \A x \in hosts :
        /\ \A y \in hosts' : y.ip # x.ip
        /\ \A r \in exclusions : ~MayCover(r, x.ip)
        => FoundSilent(x.ip, x.seen)
<1>1. ASSUME HandlerInv, [HandlerNext]_allVars
      PROVE  Evidenced
  <2>1. Sound
    BY <1>1, InvariantIsSound
  <2>2. SUFFICES ASSUME NEW x \in hosts, \A y \in hosts' : y.ip # x.ip,
                        \A r \in exclusions : ~MayCover(r, x.ip)
                 PROVE  FoundSilent(x.ip, x.seen)
    OBVIOUS
  <2>3. x.ip \in Addr
    BY <2>1 DEF Sound, HandlerTypeOK
  <2>4. ASSUME NEW ip \in Addr, RetireHost(ip)
        PROVE  FoundSilent(x.ip, x.seen)
    <3>1. x.ip = ip
      BY <2>2, <2>4 DEF RetireHost
    <3>2. QED
      BY <2>1, <2>4, <3>1, RetirementEvidence
  <2>5. ASSUME NEW r \in exclusions, NEW page \in SUBSET hosts, PurgeHosts(r, page)
        PROVE  FALSE
    BY <2>2, <2>5 DEF PurgeHosts
  <2>6. ASSUME NEW h \in Handler, Store(h)
        PROVE  FALSE
    <3>1. CASE UNCHANGED hosts
      BY <2>2, <3>1
    <3>2. CASE UpsertHost(handlers[h].ip)
      <4> DEFINE row == [ip |-> handlers[h].ip, seen |-> now]
      <4>1. row.ip = handlers[h].ip
        OBVIOUS
      <4>2. hosts' = {y \in hosts : y.ip # handlers[h].ip} \cup {row}
        BY <3>2 DEF UpsertHost
      <4> HIDE DEF row
      <4>3. QED
        BY <2>2, <4>1, <4>2
    <3>3. QED
      BY <2>6, <3>1, <3>2 DEF Store
  <2>7. CASE hosts' = hosts
    BY <2>2, <2>7
  <2>8. ASSUME NEW h \in Handler, Handles(h), ~Store(h)
        PROVE  hosts' = hosts
    BY <2>8 DEF Handles, StartCheck, StartCanary, StartProbe, Begin, Acquire,
                Consume, Probe, Complete
  <2>9. QED
    BY <1>1, <2>4, <2>5, <2>6, <2>7, <2>8
    DEF HandlerNext, handlerVars, allVars, ConsumeDirectly, CompleteDirectly
<1>2. QED
  BY <1>1, HandlersInvariant, PTL DEF HandlerSpec, RetiredOnEvidence
=============================================================================
