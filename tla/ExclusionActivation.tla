------------------------- MODULE ExclusionActivation -------------------------
(***************************************************************************)
(* Honouring a removal request (handleAdminExclusions): the rules of the   *)
(* request and of the KV mirror are activated in the Durable Object, their  *)
(* purge jobs resumed, the mirror rewritten and the KV corpus swept.  Every *)
(* one of these is a call the handler awaits, so requests interleave: a      *)
(* removal issue that is opened, edited and labelled files several at once. *)
(*                                                                         *)
(* Lines that do not parse, or are held as too broad, change nothing and     *)
(* are left out.  A purge job is reduced to whether it is complete;          *)
(* ExclusionPurge has its steps.                                            *)
(***************************************************************************)
EXTENDS ExclusionRules, Integers, FiniteSets

CONSTANTS
  Request,      \* bound: requests ever filed
  ResumeLimit,  \* purge steps a request takes per job: 20
  NoRule

ASSUME ActivationAssumption ==
  /\ ResumeLimit \in Nat \ {0}
  /\ NoRule \notin Rule

VARIABLES
  active,    \* exclusions of the Durable Object
  job,       \* per rule: its purge job, "none" before it was ever added
  mirror,    \* exclusions in KV, one value under one key
  records,   \* hosts the KV corpus still holds, with their attribution
  requests   \* progress of the request handlers

vars == <<active, job, mirror, records, requests>>

-----------------------------------------------------------------------------
JobState == {"none", "pending", "complete"}

Stage == {"idle", "activate", "purge", "sweep", "delete", "answered"}

(* What a caller hears: 503 exclusion_activation_failed, 503                *)
(* exclusion_mirror_failed, or 200 with deletion_complete false or true. *)
Answer == {"none", "inactive", "mirror_failed", "pending", "complete"}

(* confirmed is control_plane.ok.  The last two fields are history: did a    *)
(* call fail, a bound cut a purge short? What was found to sweep by? *)
Handler ==
  [stage : Stage, existing : SUBSET Rule, accepted : SUBSET Rule,
   todo : SUBSET Rule, resuming : Rule \cup {NoRule}, steps : 0..(ResumeLimit - 1),
   confirmed : BOOLEAN, sweep : SUBSET Rule, answer : Answer, trouble : BOOLEAN]

Entries(q) == requests[q].existing \cup requests[q].accepted

Idle ==
  [stage |-> "idle", existing |-> {}, accepted |-> {}, todo |-> {},
   resuming |-> NoRule, steps |-> 0, confirmed |-> TRUE, sweep |-> {},
   answer |-> "none", trouble |-> FALSE]

(* Migration has activated and purged what the mirror held; the KV corpus    *)
(* is what it left. *)
Init ==
  /\ mirror \in SUBSET Rule
  /\ active = mirror
  /\ job = [r \in Rule |-> IF r \in mirror THEN "complete" ELSE "none"]
  /\ records \in SUBSET (Addr \X AnyAsn)
  /\ \A x, y \in records : x[1] = y[1] => x = y
  /\ requests = [q \in Request |-> Idle]

-----------------------------------------------------------------------------
(* The Durable Object.                                                     *)

(* addExclusions: rules become active, a rule never seen gets a job. *)
AddRules(rules) ==
  /\ active' = active \cup rules
  /\ job' = [r \in Rule |-> IF r \in rules /\ job[r] = "none" THEN "pending" ELSE job[r]]

(* A step of a job finishes it or does not; a complete one stays complete. *)
JobStep(r) ==
  \E s \in {"pending", "complete"} :
    /\ job[r] = "complete" => s = "complete"
    /\ job' = [job EXCEPT ![r] = s]

-----------------------------------------------------------------------------
(* handleAdminExclusions.                                                  *)

(* The mirror is read once, before the first call; with nothing in it and    *)
(* nothing accepted there is nothing to activate. *)
Load(q, lines) ==
  /\ requests[q].stage = "idle"
  /\ requests' = [requests EXCEPT
       ![q].existing = mirror,
       ![q].accepted = lines \ mirror,
       ![q].stage = IF mirror \cup lines = {} THEN "purge" ELSE "activate"]
  /\ UNCHANGED <<active, job, mirror, records>>

(* Mutant: the mirror is written although the activation failed. *)
ActivateAnyway(q) ==
  /\ requests[q].stage = "activate"
  /\ \/ AddRules(Entries(q))
     \/ UNCHANGED <<active, job>>
  /\ requests' = [requests EXCEPT
       ![q].stage = "purge",
       ![q].todo = {}]
  /\ UNCHANGED <<mirror, records>>

(* The jobs come back with the status they had.  One that is complete        *)
(* already is not resumed, so no receipt is fetched for it. *)
Activate(q) ==
  /\ requests[q].stage = "activate"
  /\ \/ LET finished == {r \in Entries(q) : job[r] = "complete"}
        IN  /\ AddRules(Entries(q))
            /\ requests' = [requests EXCEPT
                 ![q].stage = "purge",
                 ![q].todo = Entries(q) \ finished,
                 ![q].confirmed = finished = {}]
     \/ \* The call fails, before or after the object has done its work.
        /\ AddRules(Entries(q)) \/ UNCHANGED <<active, job>>
        /\ requests' = [requests EXCEPT
             ![q].stage = "answered",
             ![q].answer = "inactive",
             ![q].trouble = TRUE]
  /\ UNCHANGED <<mirror, records>>

(* Mutant: running out of steps counts as done. *)
ResumeUnconfirmed(q, r) ==
  /\ requests[q].stage = "purge"
  /\ r \in requests[q].todo
  /\ requests[q].resuming \in {r, NoRule}
  /\ JobStep(r)
  /\ LET steps == requests[q].steps + 1
         settled == job'[r] = "complete" \/ steps = ResumeLimit
     IN  requests' = [requests EXCEPT
           ![q].todo = requests[q].todo \ (IF settled THEN {r} ELSE {}),
           ![q].resuming = IF settled THEN NoRule ELSE r,
           ![q].steps = IF settled THEN 0 ELSE steps]
  /\ UNCHANGED <<active, mirror, records>>

(* One call of the loop over one job: until its receipt, an error, or the    *)
(* last step allowed. *)
Resume(q, r) ==
  /\ requests[q].stage = "purge"
  /\ r \in requests[q].todo
  /\ requests[q].resuming \in {r, NoRule}
  /\ \/ /\ JobStep(r)
        /\ LET steps == requests[q].steps + 1
               done == job'[r] = "complete"
               cutShort == ~done /\ steps = ResumeLimit
           IN  requests' = [requests EXCEPT
                 ![q].todo = requests[q].todo \ (IF done \/ cutShort THEN {r} ELSE {}),
                 ![q].resuming = IF done \/ cutShort THEN NoRule ELSE r,
                 ![q].steps = IF done \/ cutShort THEN 0 ELSE steps,
                 ![q].confirmed = requests[q].confirmed /\ ~cutShort,
                 ![q].trouble = requests[q].trouble \/ cutShort]
     \/ /\ JobStep(r) \/ UNCHANGED job
        /\ requests' = [requests EXCEPT
             ![q].todo = requests[q].todo \ {r},
             ![q].resuming = NoRule,
             ![q].steps = 0,
             ![q].confirmed = FALSE,
             ![q].trouble = TRUE]
  /\ UNCHANGED <<active, mirror, records>>

(* storeExclusions writes the list as the handler read it, with its own      *)
(* additions. *)
Store(q) ==
  /\ requests[q].stage = "purge"
  /\ requests[q].todo = {}
  /\ \/ /\ mirror' = Entries(q)
        /\ requests' = [requests EXCEPT ![q].stage = "sweep"]
     \/ /\ mirror' = mirror
        /\ requests' = [requests EXCEPT
             ![q].stage = "answered",
             ![q].answer = "mirror_failed",
             ![q].trouble = TRUE]
  /\ UNCHANGED <<active, job, records>>

(* purgeExcludedRecords reads the stored list again... *)
ReadMirror(q) ==
  /\ requests[q].stage = "sweep"
  /\ requests' = [requests EXCEPT
       ![q].stage = "delete",
       ![q].sweep = mirror]
  /\ UNCHANGED <<active, job, mirror, records>>

(* ...and deletes what it covers, or fails or runs out of reads half-way;    *)
(* then the request is answered. *)
Delete(q) ==
  LET covered == {x \in records : IsExcluded(requests[q].sweep, x[1], x[2])}
  IN  /\ requests[q].stage = "delete"
      /\ \E deleted \in SUBSET covered, whole \in BOOLEAN :
           /\ whole => deleted = covered
           /\ records' = records \ deleted
           /\ requests' = [requests EXCEPT
                ![q].stage = "answered",
                ![q].answer = IF requests[q].confirmed /\ whole THEN "complete" ELSE "pending",
                ![q].trouble = requests[q].trouble \/ ~whole]
      /\ UNCHANGED <<active, job, mirror>>

-----------------------------------------------------------------------------
(* Maintainers work on the Durable Object directly. *)

AddDirectly(r) ==
  /\ AddRules({r})
  /\ UNCHANGED <<mirror, records, requests>>

ResumeDirectly(r) ==
  /\ job[r] = "pending"
  /\ JobStep(r)
  /\ UNCHANGED <<active, mirror, records, requests>>

-----------------------------------------------------------------------------
Next ==
  \/ \E q \in Request :
       \/ \E lines \in SUBSET Rule : Load(q, lines)
       \/ Activate(q)
       \/ \E r \in Rule : Resume(q, r)
       \/ Store(q)
       \/ ReadMirror(q)
       \/ Delete(q)
  \/ \E r \in Rule : AddDirectly(r) \/ ResumeDirectly(r)

Spec == Init /\ [][Next]_vars

-----------------------------------------------------------------------------
(* Properties.                                                             *)

(* State variables have their types. *)
TypeOK ==
  /\ active \subseteq Rule
  /\ job \in [Rule -> JobState]
  /\ mirror \subseteq Rule
  /\ records \subseteq Addr \X AnyAsn
  /\ requests \in [Request -> Handler]

(* The authority is never behind the mirror: whoever reads the mirror, the   *)
(* runner or a second request, reads rules that already block permits.       *)
AuthorityFirst == mirror \subseteq active

(* An answer that says "active" is true from then on: every rule the         *)
(* request named or found blocks permits. *)
ActiveAnswers == {"mirror_failed", "pending", "complete"}

AnsweredActive ==
  \A q \in Request : requests[q].answer \in ActiveAnswers => Entries(q) \subseteq active

(* deletion_complete is never claimed before every job of the request has    *)
(* its receipt, however requests share jobs and calls fail. *)
CompletionConfirmed ==
  \A q \in Request : requests[q].answer = "complete" =>
    \A r \in Entries(q) : job[r] = "complete"

(* The inductive invariant behind the three, by the stage a request is at. *)
HandlerInv(h, act, jobs) ==
  LET entries == h.existing \cup h.accepted
  IN  /\ h.existing \subseteq act
      /\ h.answer # "none" => h.stage = "answered"
      /\ (h.stage \in {"purge", "sweep", "delete"} \/ h.answer \in ActiveAnswers) =>
           entries \subseteq act
      /\ (h.stage = "purge" /\ h.confirmed) =>
           \A r \in entries \ h.todo : jobs[r] = "complete"
      /\ ((h.stage \in {"sweep", "delete"} /\ h.confirmed) \/ h.answer = "complete") =>
           \A r \in entries : jobs[r] = "complete"

HandlersInv == \A q \in Request : HandlerInv(requests[q], active, job)

ActivationInv == TypeOK /\ AuthorityFirst /\ HandlersInv

(* The comment on the issue says of what the request added that existing     *)
(* records are deleted only when the KV corpus holds none it covers. *)
NothingLeftBehind ==
  \A q \in Request : requests[q].answer = "complete" =>
    \A x \in records : ~IsExcluded(requests[q].accepted, x[1], x[2])

(* The comment on the issue says that the bounded purge did not confirm      *)
(* every deletion only when some step of it did not. *)
PendingForAReason ==
  \A q \in Request :
    requests[q].answer = "pending" /\ requests[q].accepted # {} => requests[q].trouble
=============================================================================
