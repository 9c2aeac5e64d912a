---------------------- MODULE ExclusionActivation_proofs ----------------------
(***************************************************************************)
(* Proofs about ExclusionActivation, for any number of requests and rules:  *)
(* what an answer claims about the Durable Object is true.                 *)
(***************************************************************************)
EXTENDS ExclusionActivation, TLAPS

-----------------------------------------------------------------------------
(* Rules stay active and receipts stay valid, whoever works on them.  A step *)
(* that moves only one request keeps what the others rely on. *)
Grows ==
  /\ active \subseteq active' /\ active' \subseteq Rule
  /\ job' \in [Rule -> JobState]
  /\ \A r \in Rule : job[r] = "complete" => job'[r] = "complete"

LEMMA GrowsKeeps ==
  ASSUME TypeOK, Grows, NEW h \in Handler,
         HandlerInv(h, active, job)
  PROVE  HandlerInv(h, active', job')
BY DEF TypeOK, Grows, Handler, HandlerInv

LEMMA AddGrows ==
  ASSUME TypeOK, NEW rules \in SUBSET Rule, AddRules(rules)
  PROVE  Grows /\ active' = active \cup rules
BY DEF TypeOK, AddRules, Grows, JobState

LEMMA JobStepGrows ==
  ASSUME TypeOK, NEW r \in Rule, JobStep(r), active' = active
  PROVE  Grows
BY DEF TypeOK, JobStep, Grows, JobState

LEMMA SameGrows ==
  ASSUME TypeOK, UNCHANGED <<active, job>>
  PROVE  Grows
BY DEF TypeOK, Grows

(* The obligations of a step that moves request q to h. *)
LEMMA MoveInvariant ==
  ASSUME ActivationInv, Grows, NEW q \in Request, NEW h \in Handler,
         requests' = [requests EXCEPT ![q] = h], HandlerInv(h, active', job'),
         mirror' \subseteq active', records' \subseteq records
  PROVE  ActivationInv'
<1>1. /\ TypeOK
      /\ \A p \in Request :
           requests[p] \in Handler /\ HandlerInv(requests[p], active, job)
  BY DEF ActivationInv, TypeOK, HandlersInv
<1>2. /\ requests' \in [Request -> Handler]
      /\ \A p \in Request : requests'[p] = IF p = q THEN h ELSE requests[p]
  BY <1>1 DEF TypeOK
<1>3. \A p \in Request : HandlerInv(requests'[p], active', job')
  BY <1>1, <1>2, GrowsKeeps
<1>4. TypeOK' /\ AuthorityFirst'
  BY <1>1, <1>2 DEF TypeOK, Grows, AuthorityFirst
<1>5. QED
  BY <1>3, <1>4 DEF ActivationInv, HandlersInv

(* A step that moves no request. *)
LEMMA ObjectInvariant ==
  ASSUME ActivationInv, Grows, UNCHANGED <<mirror, records, requests>>
  PROVE  ActivationInv'
<1>1. /\ TypeOK
      /\ \A p \in Request :
           requests[p] \in Handler /\ HandlerInv(requests[p], active, job)
  BY DEF ActivationInv, TypeOK, HandlersInv
<1>2. \A p \in Request : HandlerInv(requests'[p], active', job')
  BY <1>1, GrowsKeeps
<1>3. TypeOK' /\ AuthorityFirst'
  BY <1>1 DEF TypeOK, Grows, AuthorityFirst, ActivationInv
<1>4. QED
  BY <1>2, <1>3 DEF ActivationInv, HandlersInv

(* What is known of the request a step moves. *)
LEMMA HandlerFacts ==
  ASSUME ActivationInv, NEW q \in Request
  PROVE  /\ TypeOK /\ mirror \subseteq active /\ active \subseteq Rule
         /\ requests[q] \in Handler /\ HandlerInv(requests[q], active, job)
         /\ Entries(q) = requests[q].existing \cup requests[q].accepted
         /\ Entries(q) \subseteq Rule
BY DEF ActivationInv, TypeOK, AuthorityFirst, Entries, Handler, HandlersInv

-----------------------------------------------------------------------------
(* The steps of a request.                                                 *)

LEMMA LoadInvariant ==
  ASSUME ActivationInv, NEW q \in Request, NEW lines \in SUBSET Rule,
         Load(q, lines)
  PROVE  ActivationInv'
<1> DEFINE h == [requests[q] EXCEPT !.existing = mirror,
                   !.accepted = lines \ mirror,
                   !.stage = IF mirror \cup lines = {} THEN "purge" ELSE "activate"]
<1>1. /\ requests[q].stage = "idle" /\ requests' = [requests EXCEPT ![q] = h]
      /\ UNCHANGED <<active, job, mirror, records>>
  BY DEF Load, ActivationInv, TypeOK, Handler
<1>2. h \in Handler
  BY HandlerFacts DEF Handler, Stage, TypeOK
<1>3. HandlerInv(h, active', job')
  BY <1>1, HandlerFacts DEF HandlerInv, Handler, ActiveAnswers
<1>4. Grows /\ mirror' \subseteq active'
  BY <1>1, HandlerFacts, SameGrows
<1> HIDE DEF h
<1>5. QED
  BY <1>1, <1>2, <1>3, <1>4, MoveInvariant

LEMMA ActivateInvariant ==
  ASSUME ActivationInv, NEW q \in Request, Activate(q)
  PROVE  ActivationInv'
<1> DEFINE finished == {r \in Entries(q) : job[r] = "complete"}
           h == [requests[q] EXCEPT !.stage = "purge",
                   !.todo = Entries(q) \ finished, !.confirmed = (finished = {})]
           failed == [requests[q] EXCEPT !.stage = "answered",
                        !.answer = "inactive", !.trouble = TRUE]
<1>1. requests[q].stage = "activate" /\ UNCHANGED <<mirror, records>>
  BY DEF Activate
<1>2. CASE AddRules(Entries(q)) /\ requests' = [requests EXCEPT ![q] = h]
  <2>1. Grows /\ active' = active \cup Entries(q)
    BY <1>2, HandlerFacts, AddGrows
  <2>2. h \in Handler
    BY HandlerFacts DEF Handler, Stage
  <2>3. HandlerInv(h, active', job')
    BY <1>1, <2>1, HandlerFacts DEF HandlerInv, Handler, ActiveAnswers, Grows
  <2>4. mirror' \subseteq active'
    BY <1>1, <2>1, HandlerFacts
  <2> HIDE DEF h
  <2>5. QED
    BY <1>1, <1>2, <2>1, <2>2, <2>3, <2>4, MoveInvariant
<1>3. CASE /\ AddRules(Entries(q)) \/ UNCHANGED <<active, job>>
           /\ requests' = [requests EXCEPT ![q] = failed]
  <2>1. Grows
    BY <1>3, HandlerFacts, AddGrows, SameGrows
  <2>2. failed \in Handler
    BY HandlerFacts DEF Handler, Stage, Answer
  <2>3. HandlerInv(failed, active', job')
    BY <1>1, <2>1, HandlerFacts DEF HandlerInv, Handler, ActiveAnswers, Grows
  <2>4. mirror' \subseteq active'
    BY <1>1, <2>1, HandlerFacts DEF Grows
  <2> HIDE DEF failed
  <2>5. QED
    BY <1>1, <1>3, <2>1, <2>2, <2>3, <2>4, MoveInvariant
<1>4. QED
  BY <1>2, <1>3 DEF Activate, ActivationInv, TypeOK, Handler

LEMMA ResumeInvariant ==
  ASSUME ActivationInv, NEW q \in Request, NEW r \in Rule, Resume(q, r)
  PROVE  ActivationInv'
<1> DEFINE steps == requests[q].steps + 1
           done == job'[r] = "complete"
           cutShort == ~done /\ steps = ResumeLimit
           h == [requests[q] EXCEPT
                   !.todo = requests[q].todo \ (IF done \/ cutShort THEN {r} ELSE {}),
                   !.resuming = IF done \/ cutShort THEN NoRule ELSE r,
                   !.steps = IF done \/ cutShort THEN 0 ELSE steps,
                   !.confirmed = requests[q].confirmed /\ ~cutShort,
                   !.trouble = requests[q].trouble \/ cutShort]
           failed == [requests[q] EXCEPT !.todo = requests[q].todo \ {r},
                        !.resuming = NoRule, !.steps = 0, !.confirmed = FALSE,
                        !.trouble = TRUE]
<1>1. /\ requests[q].stage = "purge" /\ r \in requests[q].todo
      /\ UNCHANGED <<active, mirror, records>>
  BY DEF Resume
<1>2. Grows /\ mirror' \subseteq active'
  <2>1. JobStep(r) \/ UNCHANGED job
    BY DEF Resume
  <2>2. QED
    BY <1>1, <2>1, HandlerFacts, JobStepGrows, SameGrows
<1>3. CASE requests' = [requests EXCEPT ![q] = h]
  <2>1. h \in Handler
    <3>1. /\ requests[q].steps \in 0..(ResumeLimit - 1) /\ ResumeLimit \in Nat \ {0}
          /\ requests[q].todo \subseteq Rule
      BY HandlerFacts, ActivationAssumption DEF Handler
    <3>2. (IF done \/ cutShort THEN 0 ELSE steps) \in 0..(ResumeLimit - 1)
      BY <3>1
    <3>3. /\ requests[q].todo \ (IF done \/ cutShort THEN {r} ELSE {}) \in SUBSET Rule
          /\ (IF done \/ cutShort THEN NoRule ELSE r) \in Rule \cup {NoRule}
          /\ (requests[q].confirmed /\ ~cutShort) \in BOOLEAN
          /\ (requests[q].trouble \/ cutShort) \in BOOLEAN
      BY <3>1
    <3>4. ASSUME NEW todo \in SUBSET Rule, NEW resuming \in Rule \cup {NoRule},
                 NEW count \in 0..(ResumeLimit - 1), NEW confirmed \in BOOLEAN,
                 NEW trouble \in BOOLEAN
          PROVE  [requests[q] EXCEPT !.todo = todo, !.resuming = resuming,
                    !.steps = count, !.confirmed = confirmed,
                    !.trouble = trouble] \in Handler
      BY HandlerFacts DEF Handler
    <3> HIDE DEF done, cutShort, steps
    <3>5. QED
      BY <3>2, <3>3, <3>4
  <2>2. HandlerInv(h, active', job')
    <3>1. /\ h.existing = requests[q].existing /\ h.accepted = requests[q].accepted
          /\ h.stage = "purge" /\ h.answer = requests[q].answer
          /\ h.confirmed = (requests[q].confirmed /\ ~cutShort)
          /\ h.todo = requests[q].todo \ (IF done \/ cutShort THEN {r} ELSE {})
      BY <1>1, HandlerFacts DEF Handler
    <3> HIDE DEF h
    <3>2. \A s \in requests[q].todo \ h.todo : h.confirmed => job'[s] = "complete"
      BY <3>1
    <3>3. HandlerInv(requests[q], active', job')
      BY <1>2, HandlerFacts, GrowsKeeps
    <3> HIDE DEF done, cutShort
    <3>4. QED
      BY <1>1, <3>1, <3>2, <3>3 DEF HandlerInv, ActiveAnswers
  <2> HIDE DEF h
  <2>3. QED
    BY <1>1, <1>2, <1>3, <2>1, <2>2, MoveInvariant
<1>4. CASE requests' = [requests EXCEPT ![q] = failed]
  <2>1. failed \in Handler
    <3>1. 0 \in 0..(ResumeLimit - 1)
      BY ActivationAssumption
    <3>2. QED
      BY <3>1, HandlerFacts DEF Handler
  <2>2. HandlerInv(failed, active', job')
    BY <1>1, <1>2, HandlerFacts DEF HandlerInv, Handler, ActiveAnswers, Grows
  <2> HIDE DEF failed
  <2>3. QED
    BY <1>1, <1>2, <1>4, <2>1, <2>2, MoveInvariant
<1>5. QED
  BY <1>3, <1>4 DEF Resume, ActivationInv, TypeOK, Handler

LEMMA StoreInvariant ==
  ASSUME ActivationInv, NEW q \in Request, Store(q)
  PROVE  ActivationInv'
<1> DEFINE h == [requests[q] EXCEPT !.stage = "sweep"]
           failed == [requests[q] EXCEPT !.stage = "answered",
                        !.answer = "mirror_failed", !.trouble = TRUE]
<1>1. /\ requests[q].stage = "purge" /\ requests[q].todo = {}
      /\ UNCHANGED <<active, job, records>>
  BY DEF Store
<1>2. Entries(q) \subseteq active /\ Grows
  BY <1>1, HandlerFacts, SameGrows DEF HandlerInv
<1>3. CASE mirror' = Entries(q) /\ requests' = [requests EXCEPT ![q] = h]
  <2>1. h \in Handler
    BY HandlerFacts DEF Handler, Stage
  <2>2. HandlerInv(h, active', job')
    BY <1>1, <1>2, HandlerFacts DEF HandlerInv, Handler, ActiveAnswers
  <2> HIDE DEF h
  <2>3. QED
    BY <1>1, <1>2, <1>3, <2>1, <2>2, MoveInvariant
<1>4. CASE mirror' = mirror /\ requests' = [requests EXCEPT ![q] = failed]
  <2>1. failed \in Handler
    BY HandlerFacts DEF Handler, Stage, Answer
  <2>2. HandlerInv(failed, active', job')
    BY <1>1, <1>2, HandlerFacts DEF HandlerInv, Handler, ActiveAnswers
  <2>3. mirror' \subseteq active'
    BY <1>1, <1>4, HandlerFacts
  <2> HIDE DEF failed
  <2>4. QED
    BY <1>1, <1>2, <1>4, <2>1, <2>2, <2>3, MoveInvariant
<1>5. QED
  BY <1>3, <1>4 DEF Store, ActivationInv, TypeOK, Handler

LEMMA ReadMirrorInvariant ==
  ASSUME ActivationInv, NEW q \in Request, ReadMirror(q)
  PROVE  ActivationInv'
<1> DEFINE h == [requests[q] EXCEPT !.stage = "delete", !.sweep = mirror]
<1>1. /\ requests[q].stage = "sweep" /\ requests' = [requests EXCEPT ![q] = h]
      /\ UNCHANGED <<active, job, mirror, records>>
  BY DEF ReadMirror, ActivationInv, TypeOK, Handler
<1>2. h \in Handler
  BY HandlerFacts DEF Handler, Stage, TypeOK
<1>3. HandlerInv(h, active', job')
  BY <1>1, HandlerFacts DEF HandlerInv, Handler, ActiveAnswers
<1>4. Grows /\ mirror' \subseteq active'
  BY <1>1, HandlerFacts, SameGrows
<1> HIDE DEF h
<1>5. QED
  BY <1>1, <1>2, <1>3, <1>4, MoveInvariant

LEMMA DeleteInvariant ==
  ASSUME ActivationInv, NEW q \in Request, Delete(q)
  PROVE  ActivationInv'
<1>1. /\ requests[q].stage = "delete"
      /\ UNCHANGED <<active, job, mirror>> /\ records' \subseteq records
  BY DEF Delete
<1>2. PICK whole \in BOOLEAN :
        requests' = [requests EXCEPT
          ![q].stage = "answered",
          ![q].answer = IF requests[q].confirmed /\ whole THEN "complete"
                        ELSE "pending",
          ![q].trouble = requests[q].trouble \/ ~whole]
  BY DEF Delete
<1> DEFINE h == [requests[q] EXCEPT !.stage = "answered",
                   !.answer = IF requests[q].confirmed /\ whole THEN "complete"
                              ELSE "pending",
                   !.trouble = requests[q].trouble \/ ~whole]
<1>3. requests' = [requests EXCEPT ![q] = h]
  BY <1>2 DEF ActivationInv, TypeOK, Handler
<1>4. h \in Handler
  BY HandlerFacts DEF Handler, Stage, Answer
<1>5. HandlerInv(h, active', job')
  BY <1>1, HandlerFacts DEF HandlerInv, Handler, ActiveAnswers
<1>6. Grows /\ mirror' \subseteq active'
  BY <1>1, HandlerFacts, SameGrows
<1> HIDE DEF h
<1>7. QED
  BY <1>1, <1>3, <1>4, <1>5, <1>6, MoveInvariant

-----------------------------------------------------------------------------
LEMMA InitialInvariant == Init => ActivationInv
<1> SUFFICES ASSUME Init PROVE ActivationInv
  OBVIOUS
<1>1. Idle \in Handler
  BY ActivationAssumption DEF Idle, Handler, Stage, Answer
<1>2. TypeOK
  BY <1>1 DEF Init, TypeOK, JobState
<1>3. HandlerInv(Idle, active, job)
  BY DEF Idle, HandlerInv, ActiveAnswers
<1>4. QED
  BY <1>2, <1>3 DEF Init, ActivationInv, HandlersInv, AuthorityFirst

LEMMA InvariantStep == ActivationInv /\ [Next]_vars => ActivationInv'
<1> SUFFICES ASSUME ActivationInv, [Next]_vars PROVE ActivationInv'
  OBVIOUS
<1>1. ASSUME NEW q \in Request, NEW lines \in SUBSET Rule, Load(q, lines)
      PROVE  ActivationInv'
  BY <1>1, LoadInvariant
<1>2. ASSUME NEW q \in Request, Activate(q)
      PROVE  ActivationInv'
  BY <1>2, ActivateInvariant
<1>3. ASSUME NEW q \in Request, NEW r \in Rule, Resume(q, r)
      PROVE  ActivationInv'
  BY <1>3, ResumeInvariant
<1>4. ASSUME NEW q \in Request, Store(q)
      PROVE  ActivationInv'
  BY <1>4, StoreInvariant
<1>5. ASSUME NEW q \in Request, ReadMirror(q)
      PROVE  ActivationInv'
  BY <1>5, ReadMirrorInvariant
<1>6. ASSUME NEW q \in Request, Delete(q)
      PROVE  ActivationInv'
  BY <1>6, DeleteInvariant
<1>7. ASSUME NEW r \in Rule, AddDirectly(r) \/ ResumeDirectly(r)
      PROVE  ActivationInv'
  <2>1. TypeOK
    BY DEF ActivationInv
  <2>2. CASE AddDirectly(r)
    BY <2>1, <2>2, AddGrows, ObjectInvariant DEF AddDirectly
  <2>3. CASE ResumeDirectly(r)
    BY <2>1, <2>3, JobStepGrows, ObjectInvariant DEF ResumeDirectly
  <2>4. QED
    BY <1>7, <2>2, <2>3
<1>8. CASE UNCHANGED vars
  <2>1. Grows
    BY <1>8, SameGrows DEF ActivationInv, vars
  <2>2. QED
    BY <1>8, <2>1, ObjectInvariant DEF vars
<1>9. QED
  BY <1>1, <1>2, <1>3, <1>4, <1>5, <1>6, <1>7, <1>8 DEF Next

(* The strengthening of the three properties below, by handler stage. *)
THEOREM ActivationInvariant == Spec => []ActivationInv
BY InitialInvariant, InvariantStep, PTL DEF Spec

(* Rules reach the mirror only after the Durable Object enforces them. *)
THEOREM AuthorityAlwaysFirst == Spec => []AuthorityFirst
<1>1. ActivationInv => AuthorityFirst
  BY DEF ActivationInv
<1>2. QED
  BY <1>1, ActivationInvariant, PTL

(* "active" is never answered too early and never becomes false. *)
THEOREM ActiveAnswersHold == Spec => []AnsweredActive
<1>1. ActivationInv => AnsweredActive
  BY DEF ActivationInv, HandlersInv, HandlerInv, AnsweredActive, Entries
<1>2. QED
  BY <1>1, ActivationInvariant, PTL

(* deletion_complete needs a receipt for every rule of the request. *)
THEOREM CompletionAlwaysConfirmed == Spec => []CompletionConfirmed
<1>1. ActivationInv => CompletionConfirmed
  BY DEF ActivationInv, HandlersInv, HandlerInv, CompletionConfirmed, Entries
<1>2. QED
  BY <1>1, ActivationInvariant, PTL
=============================================================================
