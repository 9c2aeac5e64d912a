-------------------------- MODULE KvRemoval_proofs --------------------------
(***************************************************************************)
(* What a removal from KV may answer, for every set of hosts, systems,     *)
(* requests and rules and every number of records it may read: one that    *)
(* says it is complete is.  Beside CorpusInv this takes RemovalInv, which  *)
(* follows the rules that name a system from the list of hosts a purge     *)
(* reads to the records it deletes.                                        *)
(***************************************************************************)
EXTENDS KvCorpus_proofs

-----------------------------------------------------------------------------
(* What a removal may answer.  Only a purge reads for a rule and answers;  *)
(* so first, what other requests go on to.                                 *)
Matchless(todo) ==
  todo \in Seq(Entries(todo)) /\ \A t \in Entries(todo) : t.op \notin {"match", "answer"}

(* The tasks of others, by name.                                           *)
LEMMA MatchlessTasks ==
  /\ Matchless(<<>>)
  /\ \A key, change : Matchless(<<Update(key, change)>>)
  /\ \A key, change, other, third : Matchless(<<Update(key, change), Update(other, third)>>)
  /\ \A a, r, seen : Matchless(<<Put(a, r, seen)>>)
  /\ \A a, r, seen, key, change : Matchless(<<Put(a, r, seen), Update(key, change)>>)
  /\ \A a, r, seen, key, change, other, third :
       Matchless(<<Put(a, r, seen), Update(key, change), Update(other, third)>>)
  /\ \A key, value : Matchless(<<Set(key, value)>>)
  /\ \A v, w, x, y : Matchless(<<Publish("corpus", v, w), Publish("geo", x, w), Set("staged", y)>>)
<1>1. \A key, change : Update(key, change).op = "update"
  BY DEF Update
<1>2. \A a, r, seen : Put(a, r, seen).op = "put"
  BY DEF Put
<1>3. \A key, value : Set(key, value).op = "set"
  BY DEF Set
<1>4. \A key, value, whole : Publish(key, value, whole).op = "publish"
  BY DEF Publish
<1>5. Matchless(<<>>)
  BY Written DEF Matchless
<1>6. ASSUME NEW t, t.op \notin {"match", "answer"} PROVE Matchless(<<t>>)
  BY <1>6, Written DEF Matchless
<1>7. ASSUME NEW t, t.op \notin {"match", "answer"}, NEW u, u.op \notin {"match", "answer"}
      PROVE  Matchless(<<t, u>>)
  BY <1>7, Written DEF Matchless
<1>8. ASSUME NEW t, t.op \notin {"match", "answer"}, NEW u, u.op \notin {"match", "answer"},
             NEW v, v.op \notin {"match", "answer"}
      PROVE  Matchless(<<t, u, v>>)
  BY <1>8, Written DEF Matchless
<1>9. ASSUME NEW key, NEW change PROVE Matchless(<<Update(key, change)>>)
  BY <1>1, <1>6
<1>10. ASSUME NEW key, NEW change, NEW other, NEW third
       PROVE  Matchless(<<Update(key, change), Update(other, third)>>)
  BY <1>1, <1>7
<1>11. ASSUME NEW a, NEW r, NEW seen PROVE Matchless(<<Put(a, r, seen)>>)
  BY <1>2, <1>6
<1>12. ASSUME NEW a, NEW r, NEW seen, NEW key, NEW change
       PROVE  Matchless(<<Put(a, r, seen), Update(key, change)>>)
  BY <1>1, <1>2, <1>7
<1>13. ASSUME NEW a, NEW r, NEW seen, NEW key, NEW change, NEW other, NEW third
       PROVE  Matchless(<<Put(a, r, seen), Update(key, change), Update(other, third)>>)
  BY <1>1, <1>2, <1>8
<1>14. ASSUME NEW key, NEW value PROVE Matchless(<<Set(key, value)>>)
  BY <1>3, <1>6
<1>15. ASSUME NEW v, NEW w, NEW x, NEW y
       PROVE  Matchless(<<Publish("corpus", v, w), Publish("geo", x, w), Set("staged", y)>>)
  BY <1>3, <1>4, <1>8
<1>16. QED
  BY <1>5, <1>9, <1>10, <1>11, <1>12, <1>13, <1>14, <1>15

(* Such tasks one after the other.                                         *)
LEMMA MatchlessJoined ==
  ASSUME NEW s, Matchless(s), NEW t, Matchless(t)
  PROVE  Matchless(s \o t)
<1>1. s \in Seq(Entries(s)) /\ t \in Seq(Entries(t))
  BY DEF Matchless
<1>2. s \o t \in Seq(Entries(s \o t)) /\ Entries(s \o t) = Entries(s) \cup Entries(t)
  BY <1>1, JoinedSeq
<1>3. QED
  BY <1>2 DEF Matchless

(* A request that is no purge goes on to such tasks only.                  *)
LEMMA MatchlessRest ==
  ASSUME CorpusInv, NEW p \in Active,
         Head(requests[p].todo).op \in
           {"flush", "screen", "contact", "sweep", "resume", "scan",
            "recount", "compare", "page", "publish"}
  PROVE  Matchless(Tail(requests[p].todo)) /\ Matchless(requests[p].todo)
<1>1. PICK q : q = requests[p]
  OBVIOUS
<1>2. q.todo # <<>> /\ TodoOK(q.todo)
  BY <1>1, Before
<1>3. PICK kind \in Kind : \A t \in Entries(q.todo) : Fits(kind, t)
  BY <1>2 DEF TodoOK
<1>4. /\ Head(q.todo) \in Entries(q.todo) /\ q.todo \in Seq(Entries(q.todo))
      /\ Tail(q.todo) \in Seq(Entries(Tail(q.todo)))
      /\ Entries(q.todo) = {Head(q.todo)} \cup Entries(Tail(q.todo))
  BY <1>2, TodoFacts
<1>5. kind # "forgetting"
  <2>1. Fits(kind, Head(q.todo))
    BY <1>3, <1>4
  <2>2. QED
    BY <1>1, <1>3, <2>1, OpKinds
<1>6. \A t \in Entries(q.todo) : t.op \notin {"match", "answer"}
  BY <1>3, <1>5, OpKinds
<1>7. QED
  BY <1>1, <1>4, <1>6 DEF Matchless

(* What a request is left with when it goes on to some tasks.              *)
LEMMA GoneOn ==
  ASSUME CorpusInv, NEW p \in Active, NEW tasks, Continue(p, tasks)
  PROVE  requests'[p].todo = tasks \o Tail(requests[p].todo)
<1>1. p \in DOMAIN requests
  BY DEF CorpusInv, TypeOK, Active
<1>2. "todo" \in DOMAIN requests[p]
  BY DEF CorpusInv, TypeOK, HandlerOK, Active
<1>3. PICK todo : todo = tasks \o Tail(requests[p].todo)
  OBVIOUS
<1>4. requests'[p] = IF todo = <<>> THEN Idle
                     ELSE [requests[p] EXCEPT !.todo = todo, !.read = Nothing]
  BY <1>1, <1>3 DEF Continue, Rest
<1>5. Idle.todo = <<>>
  BY DEF Idle
<1>6. QED
  BY <1>2, <1>3, <1>4, <1>5

(* Nothing new is matched or answered by a request that is no purge.       *)
LEMMA StaysMatchless ==
  ASSUME CorpusInv, NEW p \in Request,
         \/ Screen(p) \/ RecordExposedHost(p) \/ FlushWriteBatch(p)
         \/ SweepStart(p) \/ SweepResume(p) \/ SweepScan(p) \/ SweepThrows(p)
         \/ RecountIndex(p) \/ RecountResume(p) \/ RecountPage(p)
  PROVE  Matchless(requests'[p].todo)
<1>1. PICK q : q = requests[p]
  OBVIOUS
<1>2. p \in DOMAIN requests /\ "todo" \in DOMAIN q /\ DOMAIN q = {"todo", "read", "batch", "walk", "alone"}
  BY <1>1 DEF CorpusInv, TypeOK, HandlerOK
<1>3. ASSUME NEW op \in {"flush", "screen", "contact", "sweep", "resume", "scan",
                         "recount", "compare", "page"}, At(p, op)
      PROVE  /\ p \in Active /\ Head(q.todo).op = op /\ Matchless(Tail(q.todo))
             /\ q.todo # <<>> /\ TodoOK(q.todo)
             /\ \E kind \in Kind : /\ \A t \in Entries(q.todo) : Fits(kind, t)
                                   /\ Fits(kind, Head(q.todo))
  <2>1. p \in Active /\ Head(q.todo).op = op
    BY <1>1, <1>3 DEF At, Head1
  <2>2. q.todo # <<>> /\ TodoOK(q.todo)
    BY <1>1, <2>1, Before
  <2>3. Head(q.todo) \in Entries(q.todo)
    BY <2>2, TodoFacts
  <2>4. \E kind \in Kind : /\ \A t \in Entries(q.todo) : Fits(kind, t)
                           /\ Fits(kind, Head(q.todo))
    BY <2>2, <2>3 DEF TodoOK
  <2>5. QED
    BY <1>1, <2>1, <2>2, <2>4, MatchlessRest
<1>4. ASSUME p \in Active, Matchless(Tail(q.todo)), NEW tasks, Matchless(tasks), Continue(p, tasks)
      PROVE  Matchless(requests'[p].todo)
  BY <1>1, <1>4, GoneOn, MatchlessJoined
<1>5. CASE Screen(p)
  <2>1. At(p, "screen")
    BY <1>5 DEF Screen
  <2>2. Head(q.todo).batch \in Seq(Contact)
    BY <1>3, <2>1, TaskTypes
  <2>3. PICK tasks : Screened(Head(q.todo).batch, tasks)
    BY Zenon DEF Screened
  <2>4. Continue(p, tasks)
    BY <1>1, <1>5, <2>3, Zenon DEF Screened, Screen, Head1
  <2>5. tasks \in Seq(Entries(tasks)) /\ \A t \in Entries(tasks) : Screening(t)
    BY <2>2, <2>3, ScreenTasks
  <2>6. Matchless(tasks)
    BY <2>5 DEF Matchless, Screening
  <2>7. QED
    BY <1>3, <1>4, <2>1, <2>4, <2>6
<1>6. CASE RecordExposedHost(p)
  <2>1. At(p, "contact")
    BY <1>6 DEF RecordExposedHost
  <2>2. CASE q.batch.open
    <3>1. PICK c, old, new : Contacting(q, c, old, new)
      BY <1>3, <2>1 DEF Contacting
    <3>2. Answered(c) \in BOOLEAN
      BY <1>1, <1>3, <2>1, <3>1, ContactFacts
    <3>3. PICK moved \in BOOLEAN : moved <=> (Answered(c) /\ old.marker # new.marker)
      BY <3>2
    <3>4. PICK B : Batched(q.batch, c.a, old, new, Answered(c), moved, B)
      BY DEF Batched
    <3>5. PICK put : put = Put(c.a, new, Answered(c))
      OBVIOUS
    <3>6. requests' = [requests EXCEPT ![p].todo = <<put>> \o Tail(q.todo), ![p].batch = B]
      <4>1. requests[p].batch.open
        BY <1>1, <2>2
      <4>2. QED
        BY <1>1, <1>6, <3>1, <3>3, <3>4, <3>5, <4>1, Zenon
        DEF Batched, Contacting, Answered, RecordExposedHost, Head1, Rest
    <3>7. requests'[p].todo = <<put>> \o Tail(q.todo)
      BY <1>1, <1>2, <3>6
    <3>8. QED
      BY <1>3, <2>1, <3>5, <3>7, MatchlessTasks, MatchlessJoined
  <2>3. CASE ~q.batch.open
    <3>1. PICK moved, old, new, a, seen :
            Continue(p, (IF moved THEN CountTasks(old, new) ELSE <<>>)
                        \o <<Put(a, new, seen), Update("index", <<a>>)>>)
      BY <1>1, <1>6, <2>3 DEF RecordExposedHost
    <3>2. Matchless(CountTasks(old, new))
      BY MatchlessTasks DEF CountTasks
    <3>3. PICK first : first = IF moved THEN CountTasks(old, new) ELSE <<>>
      OBVIOUS
    <3>4. Matchless(first)
      BY <3>2, <3>3, MatchlessTasks
    <3>5. Matchless(first \o <<Put(a, new, seen), Update("index", <<a>>)>>)
      BY <3>4, MatchlessTasks, MatchlessJoined
    <3>6. QED
      BY <1>3, <1>4, <2>1, <3>1, <3>3, <3>5
  <2>4. QED
    BY <2>2, <2>3
<1>7. CASE FlushWriteBatch(p)
  <2>1. At(p, "flush")
    BY <1>7 DEF FlushWriteBatch
  <2>2. PICK one, two, three :
          /\ one = IF q.batch.rekeyed THEN <<Update("geo", q.batch.geo)>> ELSE <<>>
          /\ two = IF q.batch.hits > 0 THEN <<Update("corpus", q.batch.corpus)>> ELSE <<>>
          /\ three = IF q.batch.adds # <<>> THEN <<Update("index", q.batch.adds)>> ELSE <<>>
    OBVIOUS
  <2>3. Continue(p, one \o two \o three)
    BY <1>1, <1>7, <2>2 DEF FlushWriteBatch
  <2>4. Matchless(one) /\ Matchless(two) /\ Matchless(three)
    BY <2>2, MatchlessTasks
  <2>5. Matchless(one \o two \o three)
    BY <2>4, MatchlessJoined
  <2>6. QED
    BY <1>3, <1>4, <2>1, <2>3, <2>5
<1>8. ASSUME NEW t, t.op \in {"resume", "scan", "compare", "page"} PROVE Matchless(<<t>>)
  BY <1>8, Written DEF Matchless
<1>9. \A w, i : Matchless(SweepEnd(w, i))
  <2>1. TAKE w, i
  <2>2. PICK next, cursor :
          /\ next = SubSeq(w.base, 1, w.start - 1) \o w.kept \o SubSeq(w.base, i, Len(w.base))
          /\ cursor = IF i > Len(w.base) THEN NoAddress ELSE w.base[i]
    OBVIOUS
  <2>3. PICK first : first = IF Len(next) # Len(w.base) THEN <<Set("index", next)>> ELSE <<>>
    OBVIOUS
  <2>4. Matchless(first) /\ Matchless(<<Set("cursor", cursor)>>)
    BY <2>3, MatchlessTasks
  <2>5. QED
    BY <2>2, <2>3, <2>4, MatchlessJoined DEF SweepEnd
<1>10. CASE SweepStart(p)
  <2>1. At(p, "sweep")
    BY <1>10 DEF SweepStart
  <2>2. CASE kv.index = <<>>
    BY <1>3, <1>4, <1>10, <2>1, <2>2, MatchlessTasks DEF SweepStart
  <2>3. CASE kv.index # <<>>
    <3>1. PICK walk : requests' = [requests EXCEPT ![p].todo = <<Do("resume")>> \o Rest(p),
                                                   ![p].walk = walk]
      BY <1>10, <2>3 DEF SweepStart
    <3>2. requests'[p].todo = <<Do("resume")>> \o Tail(q.todo)
      BY <1>1, <1>2, <3>1 DEF Rest
    <3>3. Do("resume").op = "resume"
      BY DEF Do
    <3>4. QED
      BY <1>3, <1>8, <2>1, <3>2, <3>3, MatchlessJoined
  <2>4. QED
    BY <2>2, <2>3
<1>11. CASE SweepResume(p)
  <2>1. At(p, "resume")
    BY <1>11 DEF SweepResume
  <2>2. PICK scan, start :
          /\ scan = [op |-> "scan", step |-> 0]
          /\ requests' = [requests EXCEPT ![p].todo = <<scan>> \o Rest(p),
                                          ![p].walk = [@ EXCEPT !.start = start, !.pos = start]]
    BY <1>11, Zenon DEF SweepResume
  <2>3. requests'[p].todo = <<scan>> \o Tail(q.todo)
    BY <1>1, <1>2, <2>2 DEF Rest
  <2>4. scan.op = "scan"
    BY <2>2
  <2>5. QED
    BY <1>3, <1>8, <2>1, <2>3, <2>4, MatchlessJoined
<1>12. CASE SweepScan(p)
  <2>1. At(p, "scan")
    BY <1>12 DEF SweepScan
  <2>2. PICK w, i : w = q.walk /\ i = w.pos + Head(q.todo).step
    OBVIOUS
  <2>3. CASE i > Len(w.base) \/ i - w.start >= ScanLimit \/ w.deleted >= DeleteLimit
    <3>1. requests' = [requests EXCEPT ![p].todo = SweepEnd(w, i) \o Tail(q.todo),
                                       ![p].walk = NoWalk]
      BY <1>1, <1>12, <2>2, <2>3, Zenon DEF SweepScan, Head1, Rest
    <3>2. requests'[p].todo = SweepEnd(w, i) \o Tail(q.todo)
      BY <1>1, <1>2, <3>1
    <3>3. QED
      BY <1>3, <1>9, <2>1, <3>2, MatchlessJoined
  <2>4. CASE ~(i > Len(w.base) \/ i - w.start >= ScanLimit \/ w.deleted >= DeleteLimit)
    <3>1. PICK a : a = w.base[i]
      OBVIOUS
    <3>2. ~(requests[p].walk.pos + Head1(p).step > Len(requests[p].walk.base)
              \/ (requests[p].walk.pos + Head1(p).step) - requests[p].walk.start >= ScanLimit
              \/ requests[p].walk.deleted >= DeleteLimit)
      BY <1>1, <2>2, <2>4 DEF Head1
    <3>3. /\ i = requests[p].walk.pos + Head1(p).step
          /\ a = requests[p].walk.base[requests[p].walk.pos + Head1(p).step]
      BY <1>1, <2>2, <3>1 DEF Head1
    <3>4. PICK walk :
            requests' =
              [requests EXCEPT
                 ![p].todo = (IF records[a] # NoRecord /\ a \in overdue
                              THEN ForgetTasks(a, records[a]) ELSE <<>>)
                             \o <<[op |-> "scan", step |-> 1]>> \o Rest(p),
                 ![p].walk = walk]
      <4>1. requests' =
              [requests EXCEPT
                 ![p].todo = (IF records[a] # NoRecord /\ a \in overdue
                              THEN ForgetTasks(a, records[a]) ELSE <<>>)
                             \o <<[op |-> "scan", step |-> 1]>> \o Rest(p),
                 ![p].walk = [requests[p].walk EXCEPT
                    !.pos = i,
                    !.kept = IF records[a] # NoRecord /\ a \notin overdue
                             THEN Append(@, a) ELSE @,
                    !.deleted = IF records[a] # NoRecord /\ a \in overdue THEN @ + 1 ELSE @]]
        BY <1>12, <3>2, <3>3, Zenon DEF SweepScan
      <4>2. QED
        BY <4>1, Zenon
    <3>5. PICK first, scan :
            /\ first = IF records[a] # NoRecord /\ a \in overdue
                       THEN ForgetTasks(a, records[a]) ELSE <<>>
            /\ scan = [op |-> "scan", step |-> 1]
      OBVIOUS
    <3>6. requests'[p].todo = first \o <<scan>> \o Tail(q.todo)
      BY <1>1, <1>2, <3>4, <3>5 DEF Rest
    <3>7. Matchless(ForgetTasks(a, records[a]))
      BY MatchlessTasks DEF ForgetTasks
    <3>8. Matchless(first)
      BY <3>5, <3>7, MatchlessTasks
    <3>9. scan.op = "scan"
      BY <3>5
    <3>10. QED
      BY <1>3, <1>8, <2>1, <3>6, <3>8, <3>9, MatchlessJoined
  <2>5. QED
    BY <2>3, <2>4
<1>13. CASE SweepThrows(p)
  <2>1. PICK w, i : /\ w = q.walk
                    /\ i = IF Head(q.todo).op = "scan" THEN w.pos + Head(q.todo).step ELSE w.pos
    OBVIOUS
  <2>2. requests' = [requests EXCEPT ![p].todo = SweepEnd(w, i), ![p].read = Nothing,
                                     ![p].walk = NoWalk]
    BY <1>1, <1>13, <2>1, Zenon DEF SweepThrows, Head1
  <2>3. requests'[p].todo = SweepEnd(w, i)
    BY <1>1, <1>2, <2>2
  <2>4. QED
    BY <1>9, <2>3
<1>14. CASE RecountIndex(p)
  <2>1. At(p, "recount")
    BY <1>14 DEF RecountIndex
  <2>2. PICK t : t = [op |-> "compare", limit |-> Head(q.todo).limit, index |-> kv.index]
    OBVIOUS
  <2>3. Continue(p, <<t>>) /\ t.op = "compare"
    BY <1>1, <1>14, <2>2 DEF RecountIndex, Head1
  <2>4. QED
    BY <1>3, <1>4, <1>8, <2>1, <2>3
<1>15. CASE RecountResume(p)
  <2>1. At(p, "compare")
    BY <1>15 DEF RecountResume
  <2>2. PICK t : t = [op |-> "page", limit |-> Head(q.todo).limit,
                      staged |-> IF kv.staged.ips = Head(q.todo).index THEN kv.staged
                                 ELSE Fresh(Head(q.todo).index)]
    OBVIOUS
  <2>3. Continue(p, <<t>>) /\ t.op = "page"
    BY <1>1, <1>15, <2>2 DEF RecountResume, Head1
  <2>4. QED
    BY <1>3, <1>4, <1>8, <2>1, <2>3
<1>16. CASE RecountPage(p)
  <2>1. At(p, "page")
    BY <1>16 DEF RecountPage
  <2>2. PICK st, page, new, whole, counts :
        /\ st = Head(q.todo).staged /\ page = Page(st, Head(q.todo).limit)
        /\ new = [st EXCEPT !.cursor = @ + Cardinality(page),
                            !.found = [a \in Address |-> IF a \in page THEN LabelOf(a)
                                                         ELSE st.found[a]]]
        /\ whole = (\A a \in Entries(st.ips) : new.found[a] = LabelOf(a))
        /\ counts = [l \in Label |-> Cardinality(FoundWith(new, l))]
    OBVIOUS
  <2>3. PICK tasks : tasks = IF new.cursor < Len(st.ips) THEN <<Set("staged", new)>>
                             ELSE <<Publish("corpus", Cardinality(FoundAny(new)), whole),
                                    Publish("geo", counts, whole), Set("staged", NoStaged)>>
    OBVIOUS
  <2>4. Continue(p, tasks)
    BY <1>1, <1>16, <2>2, <2>3, Zenon DEF RecountPage, Head1
  <2>5. Matchless(tasks)
    BY <2>3, MatchlessTasks
  <2>6. QED
    BY <1>3, <1>4, <2>1, <2>4, <2>5
<1>17. QED
  BY <1>5, <1>6, <1>7, <1>10, <1>11, <1>12, <1>13, <1>14, <1>15, <1>16

(* Such a request has nothing to answer for.                               *)
LEMMA Unmatched ==
  ASSUME NEW m, Matchless(m.todo) PROVE WholeInv(m) /\ WholeInv(m)'
<1>1. \A t \in Entries(m.todo) : t.op # "match" /\ t.op # "answer"
  BY DEF Matchless
<1>2. WholeInv(m)
  BY <1>1 DEF WholeInv
<1>3. WholeInv(m)'
  BY <1>1 DEF WholeInv
<1>4. QED
  BY <1>2, <1>3

(* A request goes on to tasks that remove whatever its first task had to.  *)
LEMMA WholeGoesOn ==
  ASSUME CorpusInv, NEW p \in Active, NEW q, q = requests[p], WholeInv(q),
         NEW tasks, Matchless(tasks), Continue(p, tasks), rules' = rules,
         \A a \in Held' : a \in Held /\ records'[a] = records[a],
         \A a \in Held' : Removes(Head(q.todo), a) => \E v \in Entries(tasks) : Removes(v, a)
  PROVE  \A m : m = requests'[p] => WholeInv(m)'
<1>1. q.todo # <<>> /\ TodoOK(q.todo)
  BY Before
<1>2. /\ Head(q.todo) \in Entries(q.todo) /\ q.todo \in Seq(Entries(q.todo))
      /\ Tail(q.todo) \in Seq(Entries(Tail(q.todo)))
      /\ Entries(q.todo) = {Head(q.todo)} \cup Entries(Tail(q.todo))
  BY <1>1, TodoFacts
<1>3. SUFFICES ASSUME NEW m, m = requests'[p] PROVE WholeInv(m)'
  OBVIOUS
<1>4. m.todo = tasks \o Tail(q.todo)
  BY <1>3, GoneOn
<1>5. Entries(m.todo) = Entries(tasks) \cup Entries(Tail(q.todo))
  BY <1>2, <1>4, JoinedSeq DEF Matchless
<1>6. ASSUME NEW t \in Entries(m.todo), t.op \in {"match", "answer"} PROVE t \in Entries(q.todo)
  BY <1>2, <1>5, <1>6 DEF Matchless
<1>7. ASSUME NEW a \in Held', NEW u \in Entries(q.todo), Removes(u, a)
      PROVE  \E v \in Entries(m.todo) : Removes(v, a)
  BY <1>2, <1>5, <1>7
<1>8. ASSUME NEW t \in Entries(m.todo)
      PROVE  /\ t.op = "match" => t.entries = rules'
             /\ t.op = "match" /\ t.whole =>
                  \A a \in Held' : records'[a].label \in rules' =>
                    a \in Entries(t.doomed) \cup Entries(t.rest)
             /\ t.op = "answer" /\ t.whole =>
                  \A a \in Held' : records'[a].label \in rules' =>
                    \E u \in Entries(m.todo) : Removes(u, a)
  <2>1. CASE t.op \notin {"match", "answer"}
    BY <2>1
  <2>2. CASE t.op = "match"
    <3>1. t \in Entries(q.todo)
      BY <1>6, <2>2
    <3>2. /\ t.entries = rules
          /\ t.whole => \A a \in Held : records[a].label \in rules =>
                          a \in Entries(t.doomed) \cup Entries(t.rest)
      BY <2>2, <3>1 DEF WholeInv
    <3>3. QED
      BY <2>2, <3>2
  <2>3. CASE t.op = "answer"
    <3>1. t \in Entries(q.todo)
      BY <1>6, <2>3
    <3>2. t.whole => \A a \in Held : records[a].label \in rules =>
                       \E u \in Entries(q.todo) : Removes(u, a)
      BY <2>3, <3>1 DEF WholeInv
    <3>3. QED
      BY <1>7, <2>3, <3>2
  <2>4. QED
    BY <2>1, <2>2, <2>3
<1>9. QED
  BY <1>8 DEF WholeInv

(* A step is of one request, and no rule is filed by it.                   *)
LEMMA OthersStay ==
  ASSUME CorpusInv, NEW p \in Request, Step(p) \/ SweepThrows(p)
  PROVE  /\ \A r \in Request : r # p => requests'[r] = requests[r]
         /\ lossless' = lossless /\ rules' = rules
<1>1. DOMAIN requests = Request
  BY DEF CorpusInv, TypeOK
<1>2. ASSUME NEW tasks, Continue(p, tasks)
      PROVE  \A r \in Request : r # p => requests'[r] = requests[r]
  <2>1. PICK m : requests' = [requests EXCEPT ![p] = m]
    BY <1>2, Zenon DEF Continue
  <2>2. QED
    BY <1>1, <2>1
<1>3. ASSUME NEW todo, NEW batch, NEW walk, NEW read,
             \/ requests' = [requests EXCEPT ![p].todo = todo, ![p].batch = batch]
             \/ requests' = [requests EXCEPT ![p].todo = todo, ![p].walk = walk]
             \/ requests' = [requests EXCEPT ![p].read = read]
             \/ requests' = [requests EXCEPT ![p].todo = todo, ![p].read = read, ![p].walk = walk]
      PROVE  \A r \in Request : r # p => requests'[r] = requests[r]
  BY <1>1, <1>3
<1>4. CASE Screen(p)
  <2>1. PICK tasks : Continue(p, tasks)
    BY <1>4, Zenon DEF Screen
  <2>2. QED
    BY <1>2, <1>4, <2>1 DEF Screen
<1>5. CASE RecordExposedHost(p)
  <2>1. lossless' = lossless /\ rules' = rules
    BY <1>5, Zenon DEF RecordExposedHost
  <2>2. \/ \E tasks : Continue(p, tasks)
        \/ \E todo, batch : requests' = [requests EXCEPT ![p].todo = todo, ![p].batch = batch]
    BY <1>5, Zenon DEF RecordExposedHost
  <2>3. QED
    BY <1>2, <1>3, <2>1, <2>2
<1>6. CASE FlushWriteBatch(p)
  <2>1. PICK tasks : Continue(p, tasks)
    BY <1>6, Zenon DEF FlushWriteBatch
  <2>2. QED
    BY <1>2, <1>6, <2>1 DEF FlushWriteBatch
<1>7. CASE PutRecord(p) \/ WriteKey(p) \/ SetKey(p) \/ PublishKey(p) \/ AnswerPurge(p)
  <2>1. Continue(p, <<>>)
    BY <1>7 DEF PutRecord, WriteKey, SetKey, PublishKey, AnswerPurge
  <2>2. QED
    BY <1>2, <1>7, <2>1 DEF PutRecord, WriteKey, SetKey, PublishKey, AnswerPurge
<1>8. CASE ReadKey(p)
  BY <1>3, <1>8 DEF ReadKey
<1>9. CASE ForgetHosts(p)
  <2>1. PICK tasks : Continue(p, tasks)
    BY <1>9, Zenon DEF ForgetHosts
  <2>2. QED
    BY <1>2, <1>9, <2>1 DEF ForgetHosts
<1>10. CASE ForgetHost(p)
  <2>1. PICK tasks : Continue(p, tasks)
    BY <1>10, Zenon DEF ForgetHost
  <2>2. QED
    BY <1>2, <1>10, <2>1 DEF ForgetHost
<1>11. CASE PurgeExcluded(p)
  <2>1. PICK tasks : Continue(p, tasks)
    BY <1>11, Zenon DEF PurgeExcluded
  <2>2. QED
    BY <1>2, <1>11, <2>1 DEF PurgeExcluded
<1>12. CASE MatchRecord(p)
  <2>1. PICK tasks : Continue(p, tasks)
    BY <1>12, Zenon DEF MatchRecord
  <2>2. QED
    BY <1>2, <1>12, <2>1 DEF MatchRecord
<1>13. CASE PurgeAttempts(p)
  <2>1. PICK tasks : Continue(p, tasks)
    BY <1>13, Zenon DEF PurgeAttempts
  <2>2. QED
    BY <1>2, <1>13, <2>1 DEF PurgeAttempts
<1>14. CASE SweepStart(p)
  <2>1. lossless' = lossless /\ rules' = rules
    BY <1>14, Zenon DEF SweepStart
  <2>2. \/ \E tasks : Continue(p, tasks)
        \/ \E todo, walk : requests' = [requests EXCEPT ![p].todo = todo, ![p].walk = walk]
    BY <1>14, Zenon DEF SweepStart
  <2>3. QED
    BY <1>2, <1>3, <2>1, <2>2
<1>15. CASE SweepResume(p)
  <2>1. lossless' = lossless /\ rules' = rules
    BY <1>15, Zenon DEF SweepResume
  <2>2. PICK todo, walk : requests' = [requests EXCEPT ![p].todo = todo, ![p].walk = walk]
    BY <1>15, Zenon DEF SweepResume
  <2>3. QED
    BY <1>3, <2>1, <2>2
<1>16. CASE SweepScan(p)
  <2>1. lossless' = lossless /\ rules' = rules
    BY <1>16, Zenon DEF SweepScan
  <2>2. PICK todo, walk : requests' = [requests EXCEPT ![p].todo = todo, ![p].walk = walk]
    BY <1>16, Zenon DEF SweepScan
  <2>3. QED
    BY <1>3, <2>1, <2>2
<1>17. CASE SweepThrows(p)
  <2>1. lossless' = lossless /\ rules' = rules
    BY <1>17, Zenon DEF SweepThrows
  <2>2. PICK todo, read, walk :
          requests' = [requests EXCEPT ![p].todo = todo, ![p].read = read, ![p].walk = walk]
    BY <1>17, Zenon DEF SweepThrows
  <2>3. QED
    BY <1>3, <2>1, <2>2
<1>18. CASE RecountIndex(p) \/ RecountResume(p) \/ RecountPage(p)
  <2>1. PICK tasks : Continue(p, tasks)
    BY <1>18, Zenon DEF RecountIndex, RecountResume, RecountPage
  <2>2. QED
    BY <1>2, <1>18, <2>1 DEF RecountIndex, RecountResume, RecountPage
<1>19. QED
  BY <1>4, <1>5, <1>6, <1>7, <1>8, <1>9, <1>10, <1>11, <1>12, <1>13, <1>14, <1>15, <1>16,
     <1>17, <1>18 DEF Step

(* So what matters is what it makes of that request.                       *)
LEMMA RemovalStep ==
  ASSUME CorpusInv, RemovalInv, NEW p \in Active, Step(p) \/ SweepThrows(p),
         NEW m, m = requests'[p],
         lossless /\ Cardinality(Address) <= MaxIndex => WholeInv(m)'
  PROVE  RemovalInv'
<1>1. p \in Request
  BY Before
<1>2. /\ \A r \in Request : r # p => requests'[r] = requests[r]
      /\ lossless' = lossless
  BY <1>1, OthersStay
<1>3. ASSUME lossless, Cardinality(Address) <= MaxIndex, NEW r \in Active'
      PROVE  WholeInv(requests[r])'
  <2>1. Active = {p} /\ r \in Request
    BY <1>3, Before DEF Active
  <2>2. r = p
    BY <1>2, <1>3, <2>1 DEF Active
  <2>3. WholeInv(m)'
    BY <1>3
  <2>4. QED
    BY <2>2, <2>3
<1>4. QED
  BY <1>2, <1>3 DEF RemovalInv

(* Steps that neither read for a rule nor answer.                          *)
LEMMA OthersWhole ==
  ASSUME CorpusInv, RemovalInv, NEW p \in Request, NEW q, q = requests[p], WholeInv(q),
         NEW m, m = requests'[p],
         \/ PutRecord(p) \/ ReadKey(p) \/ WriteKey(p) \/ SetKey(p) \/ PublishKey(p)
         \/ ForgetHosts(p) \/ ForgetHost(p) \/ PurgeAttempts(p) \/ AnswerPurge(p)
  PROVE  WholeInv(m)'
<1>1. ASSUME NEW op, At(p, op) PROVE p \in Active /\ Head(q.todo).op = op
  BY <1>1 DEF At, Head1
<1>2. Matchless(<<>>)
  BY MatchlessTasks
<1>3. rules' = rules
  BY OthersStay DEF Step
<1>4. ASSUME records' = records PROVE \A a \in Held' : a \in Held /\ records'[a] = records[a]
  BY <1>4 DEF Held
<1>5. CASE PutRecord(p)
  <2>1. At(p, "put") /\ Continue(p, <<>>)
    BY <1>5 DEF PutRecord
  <2>2. p \in Active /\ Head(q.todo).op = "put"
    BY <1>1, <2>1
  <2>3. q.todo # <<>> /\ TodoOK(q.todo) /\ records \in [Address -> Record \cup {NoRecord}]
    BY <2>2, Before
  <2>4. PICK kind \in Kind : \A t \in Entries(q.todo) : Fits(kind, t)
    BY <2>3 DEF TodoOK
  <2>5. /\ Head(q.todo) \in Entries(q.todo) /\ q.todo \in Seq(Entries(q.todo))
        /\ Tail(q.todo) \in Seq(Entries(Tail(q.todo)))
        /\ Entries(q.todo) = {Head(q.todo)} \cup Entries(Tail(q.todo))
    BY <2>3, TodoFacts
  <2>6. Fits(kind, Head(q.todo))
    BY <2>4, <2>5
  <2>7. CASE kind = "recording"
    <3>1. \A t \in Entries(Tail(q.todo)) : t.op \notin {"match", "answer"}
      BY <2>4, <2>5, <2>7, OpKinds
    <3>2. Matchless(Tail(q.todo))
      BY <2>5, <3>1 DEF Matchless
    <3>3. m.todo = <<>> \o Tail(q.todo)
      BY <2>1, <2>2, GoneOn
    <3>4. Matchless(m.todo)
      BY <1>2, <3>2, <3>3, MatchlessJoined
    <3>5. QED
      BY <3>4, Unmatched
  <2>8. CASE kind # "recording"
    <3>1. PICK t : t = Head(q.todo)
      OBVIOUS
    <3>2. t.op = "put" /\ t.a \in Address /\ t.record = NoRecord
      <4>1. kind \in Kind /\ Fits(kind, t) /\ t.op = "put"
        BY <2>2, <2>4, <2>6, <3>1
      <4>2. t.a \in Address
        BY <4>1, TaskTypes
      <4>3. t.record = NoRecord
        BY <2>8, <4>1, OpKinds
      <4>4. QED
        BY <4>1, <4>2, <4>3
    <3>3. records' = [records EXCEPT ![t.a] = NoRecord]
      BY <1>5, <3>1, <3>2 DEF PutRecord, Head1
    <3>4. \A a \in Held' : a \in Held /\ records'[a] = records[a] /\ a # t.a
      BY <2>3, <3>2, <3>3 DEF Held
    <3>5. \A a \in Held' : ~Removes(Head(q.todo), a)
      BY <3>1, <3>2, <3>4 DEF Removes
    <3>6. QED
      BY <1>2, <1>3, <2>1, <2>2, <3>4, <3>5, WholeGoesOn
  <2>9. QED
    BY <2>7, <2>8
<1>6. CASE ReadKey(p)
  <2>1. At(p, "update") /\ records' = records
    BY <1>6 DEF ReadKey
  <2>2. DOMAIN requests = Request /\ DOMAIN q = {"todo", "read", "batch", "walk", "alone"}
    BY DEF CorpusInv, TypeOK, HandlerOK
  <2>3. PICK value : requests' = [requests EXCEPT ![p].read = value]
    BY <1>6 DEF ReadKey
  <2>4. m.todo = q.todo
    BY <2>2, <2>3
  <2>5. WholeInv(m)
    BY <2>4 DEF WholeInv
  <2>6. QED
    BY <1>3, <2>1, <2>5 DEF WholeInv, Held
<1>7. CASE WriteKey(p) \/ SetKey(p) \/ PublishKey(p) \/ AnswerPurge(p)
  <2>1. PICK op \in {"update", "set", "publish", "answer"} : At(p, op)
    BY <1>7 DEF WriteKey, SetKey, PublishKey, AnswerPurge
  <2>2. p \in Active /\ Head(q.todo).op = op
    BY <1>1, <2>1
  <2>3. Continue(p, <<>>) /\ records' = records
    BY <1>7 DEF WriteKey, SetKey, PublishKey, AnswerPurge
  <2>4. \A a : ~Removes(Head(q.todo), a)
    BY <2>2 DEF Removes
  <2>5. QED
    BY <1>2, <1>3, <1>4, <2>2, <2>3, <2>4, WholeGoesOn
<1>8. CASE PurgeAttempts(p)
  <2>1. At(p, "purgeAttempts") /\ records' = records
    BY <1>8 DEF PurgeAttempts
  <2>2. p \in Active /\ Head(q.todo).op = "purgeAttempts"
    BY <1>1, <2>1
  <2>3. PICK stale : stale = kv.attempts \cap Head(q.todo).entries
    OBVIOUS
  <2>4. PICK tasks : tasks = IF stale = {} THEN <<>> ELSE <<DropAttempts(stale)>>
    OBVIOUS
  <2>5. Continue(p, tasks)
    BY <1>8, <2>3, <2>4 DEF PurgeAttempts, Head1
  <2>6. Matchless(tasks)
    BY <2>4, MatchlessTasks DEF DropAttempts
  <2>7. \A a : ~Removes(Head(q.todo), a)
    BY <2>2 DEF Removes
  <2>8. QED
    BY <1>3, <1>4, <2>1, <2>2, <2>5, <2>6, <2>7, WholeGoesOn
<1>9. CASE ForgetHost(p)
  <2>1. At(p, "forget") /\ records' = records
    BY <1>9 DEF ForgetHost
  <2>2. p \in Active /\ Head(q.todo).op = "forget"
    BY <1>1, <2>1
  <2>3. PICK a : a = Head(q.todo).a
    OBVIOUS
  <2>4. PICK tasks : tasks = IF records[a] = NoRecord THEN <<>> ELSE ForgetTasks(a, records[a])
    OBVIOUS
  <2>5. Continue(p, tasks)
    BY <1>9, <2>3, <2>4 DEF ForgetHost, Head1
  <2>6. Matchless(tasks)
    <3>1. Matchless(ForgetTasks(a, records[a]))
      BY MatchlessTasks DEF ForgetTasks
    <3>2. QED
      BY <1>2, <2>4, <3>1
  <2>7. ASSUME NEW b \in Held', Removes(Head(q.todo), b)
        PROVE  \E v \in Entries(tasks) : Removes(v, b)
    <3>1. b = a
      BY <2>2, <2>3, <2>7 DEF Removes
    <3>2. b \in Address /\ b \in Held
      BY <2>1, <2>7 DEF Held
    <3>3. records \in [Address -> Record \cup {NoRecord}]
      BY DEF CorpusInv, TypeOK
    <3>4. records[a] \in Record /\ records[a] # NoRecord
      BY <3>1, <3>2, <3>3 DEF Held
    <3>5. tasks = ForgetTasks(a, records[a]) /\ a \in Address
      BY <2>4, <3>1, <3>2, <3>4
    <3>6. PICK r \in Record : r = records[a]
      BY <3>4
    <3>7. \E v \in Entries(tasks) : v.op = "put" /\ v.a = a /\ v.record = NoRecord
      BY <3>5, <3>6, ForgetFacts
    <3>8. QED
      BY <3>1, <3>7 DEF Removes
  <2>8. QED
    BY <1>3, <1>4, <2>1, <2>2, <2>5, <2>6, <2>7, WholeGoesOn
<1>10. CASE ForgetHosts(p)
  <2>1. At(p, "forgetHosts") /\ records' = records
    BY <1>10 DEF ForgetHosts
  <2>2. p \in Active /\ Head(q.todo).op = "forgetHosts"
    BY <1>1, <2>1
  <2>3. q.todo # <<>> /\ TodoOK(q.todo)
    BY <2>2, Before
  <2>4. Head(q.todo).ips \in Index
    <3>1. PICK kind \in Kind : \A t \in Entries(q.todo) : Fits(kind, t)
      BY <2>3 DEF TodoOK
    <3>2. Fits(kind, Head(q.todo))
      BY <2>3, <3>1, TodoFacts
    <3>3. QED
      BY <2>2, <3>2, TaskTypes
  <2>5. PICK ips \in Index : ips = Head(q.todo).ips
    BY <2>4
  <2>6. PICK kept, forgets, writes, drops :
          /\ kept = Less(kv.index, Entries(ips))
          /\ forgets = [i \in DOMAIN ips |-> Forget(ips[i])]
          /\ writes = IF kept = kv.index THEN <<>> ELSE <<Set("index", kept)>>
          /\ drops = <<DropAttempts(Entries(ips))>>
    OBVIOUS
  <2>7. Continue(p, forgets \o writes \o drops)
    BY <1>10, <2>5, <2>6, Zenon DEF ForgetHosts, Head1
  <2>8. /\ forgets \in Seq(Entries(forgets))
        /\ Entries(forgets) = {Forget(a) : a \in Entries(ips)}
    <3>1. /\ Len(ips) \in Nat /\ DOMAIN ips = 1..Len(ips)
      BY IndexFacts
    <3>2. forgets \in Seq({Forget(a) : a \in Entries(ips)})
      <4>1. forgets \in [1..Len(ips) -> {Forget(a) : a \in Entries(ips)}]
        BY <2>6, <3>1 DEF Entries
      <4>2. QED
        BY <3>1, <4>1, SeqDef
    <3>3. Entries(forgets) = {Forget(a) : a \in Entries(ips)}
      BY <2>6 DEF Entries
    <3>4. QED
      BY <3>2, <3>3, OwnSeq
  <2>9. \A a : Forget(a).op = "forget" /\ Forget(a).a = a
    BY DEF Forget
  <2>10. Matchless(forgets)
    BY <2>8, <2>9 DEF Matchless
  <2>11. Matchless(writes) /\ Matchless(drops)
    BY <1>2, <2>6, MatchlessTasks DEF DropAttempts
  <2>12. Matchless(forgets \o writes) /\ Matchless(forgets \o writes \o drops)
    BY <2>10, <2>11, MatchlessJoined
  <2>13. Entries(forgets) \subseteq Entries(forgets \o writes \o drops)
    <3>1. PICK both : both = forgets \o writes
      OBVIOUS
    <3>2. /\ writes \in Seq(Entries(writes)) /\ drops \in Seq(Entries(drops))
          /\ both \in Seq(Entries(both))
      BY <2>11, <2>12, <3>1 DEF Matchless
    <3>3. Entries(both) = Entries(forgets) \cup Entries(writes)
      BY <2>8, <3>1, <3>2, JoinedSeq
    <3>4. Entries(both \o drops) = Entries(both) \cup Entries(drops)
      BY <3>2, JoinedSeq
    <3>5. QED
      BY <3>1, <3>3, <3>4
  <2>14. ASSUME NEW b \in Held', Removes(Head(q.todo), b)
         PROVE  \E v \in Entries(forgets \o writes \o drops) : Removes(v, b)
    <3>1. b \in Entries(ips)
      BY <2>2, <2>5, <2>14 DEF Removes
    <3>2. Forget(b) \in Entries(forgets \o writes \o drops)
      BY <2>8, <2>13, <3>1
    <3>3. Removes(Forget(b), b)
      BY <2>9 DEF Removes
    <3>4. QED
      BY <3>2, <3>3
  <2>15. QED
    BY <1>3, <1>4, <2>1, <2>2, <2>7, <2>12, <2>14, WholeGoesOn
<1>11. QED
  BY <1>5, <1>6, <1>7, <1>8, <1>9, <1>10

(* The purge sets out with every host listed that a rule covers, or may by *)
(* its system; or it says that there were more.                            *)
LEMMA PurgeWhole ==
  ASSUME CorpusInv, lossless, Cardinality(Address) <= MaxIndex,
         NEW p \in Request, NEW q, q = requests[p], PurgeExcluded(p), NEW m, m = requests'[p]
  PROVE  WholeInv(m)'
<1>1. p \in Active /\ Head(q.todo).op = "purge"
  BY DEF PurgeExcluded, At, Head1
<1>2. /\ q.todo # <<>> /\ TodoOK(q.todo) /\ kv \in Store /\ rules \subseteq Ruled
      /\ ListedInv(q) /\ records \in [Address -> Record \cup {NoRecord}]
  BY <1>1, Before
<1>3. Tail(q.todo) = <<>> /\ Entries(q.todo) = {Head(q.todo)}
  BY <1>1, <1>2, LastTask
<1>4. Held \subseteq Entries(kv.index)
  <2>1. Coming(q) = {}
    BY <1>1, <1>3 DEF Coming, Has
  <2>2. QED
    BY <1>2, <2>1 DEF ListedInv
<1>5. PICK doomed, others : /\ doomed = Picked(kv.index, {i \in DOMAIN kv.index : kv.index[i] \in rules})
                            /\ others = IF rules \cap Label = {} THEN <<>> ELSE Less(kv.index, rules)
  OBVIOUS
<1>6. PICK first, whole, t : /\ first = FirstOf(others, MaxReads)
                            /\ whole = (Len(others) <= MaxReads)
                            /\ t = Match(first, doomed, rules, whole)
  OBVIOUS
<1>7. /\ Continue(p, <<t>>) /\ records' = records /\ rules' = rules
  BY <1>5, <1>6 DEF PurgeExcluded
<1>8. /\ t.op = "match" /\ t.rest = first /\ t.doomed = doomed /\ t.entries = rules
      /\ t.whole = whole
  BY <1>6 DEF Match
<1>9. /\ Entries(doomed) = Entries(kv.index) \cap rules
      /\ others \in Index
      /\ rules \cap Label # {} => Entries(others) = Entries(kv.index) \ rules
  <2>1. kv.index \in Index /\ <<>> \in Index
    BY <1>2, Written DEF Store, Index
  <2>2. QED
    BY <1>5, <2>1, FilteredIndex
<1>10. whole => Entries(first) = Entries(others)
  BY <1>6, <1>9, FirstOfIndex, KvAssumption
<1>11. ASSUME whole, NEW a \in Held, records[a].label \in rules
       PROVE  a \in Entries(doomed) \cup Entries(first)
  <2>1. records[a].label \in Label
    BY <1>2, KvAssumption DEF Held, Record, NoRecord
  <2>2. QED
    BY <1>4, <1>9, <1>10, <1>11, <2>1
<1>12. m.todo = <<t>>
  <2>1. m.todo = <<t>> \o Tail(q.todo)
    BY <1>1, <1>7, GoneOn
  <2>2. QED
    BY <1>3, <2>1, NoTasks, Written
<1>13. Entries(m.todo) = {t}
  BY <1>12, Written
<1>14. QED
  BY <1>7, <1>8, <1>11, <1>13 DEF WholeInv, Held

(* A record read is matched; when all are, what is matched is forgotten.   *)
LEMMA MatchWhole ==
  ASSUME CorpusInv, NEW p \in Request, NEW q, q = requests[p], WholeInv(q),
         MatchRecord(p), NEW m, m = requests'[p]
  PROVE  WholeInv(m)'
<1>1. PICK t : t = Head(q.todo)
  OBVIOUS
<1>2. p \in Active /\ t.op = "match"
  BY <1>1 DEF MatchRecord, At, Head1
<1>3. q.todo # <<>> /\ TodoOK(q.todo)
  BY <1>2, Before
<1>4. Tail(q.todo) = <<>> /\ Entries(q.todo) = {t}
  BY <1>1, <1>2, <1>3, LastTask
<1>5. t.rest \in Index /\ t.doomed \in Index /\ t.whole \in BOOLEAN
  <2>1. PICK kind \in Kind : \A u \in Entries(q.todo) : Fits(kind, u)
    BY <1>3 DEF TodoOK
  <2>2. Fits(kind, t)
    BY <1>4, <2>1
  <2>3. QED
    BY <1>2, <2>2, TaskTypes
<1>6. /\ t.entries = rules
      /\ t.whole => \A a \in Held : records[a].label \in rules =>
                      a \in Entries(t.doomed) \cup Entries(t.rest)
  BY <1>2, <1>4 DEF WholeInv
<1>7. records' = records /\ rules' = rules
  BY DEF MatchRecord
<1>8. ASSUME NEW tasks, tasks \in Seq(Entries(tasks)), Continue(p, tasks)
      PROVE  Entries(m.todo) = Entries(tasks)
  <2>1. m.todo = tasks \o Tail(q.todo)
    BY <1>2, <1>8, GoneOn
  <2>2. m.todo = tasks
    BY <1>4, <1>8, <2>1, NoTasks
  <2>3. QED
    BY <2>2
<1>9. ASSUME t.rest # <<>> PROVE WholeInv(m)'
  <2>1. PICK hit : hit = IF records[Head(t.rest)].label \in t.entries
                         THEN Add(t.doomed, Head(t.rest)) ELSE t.doomed
    OBVIOUS
  <2>2. PICK u : u = Match(Tail(t.rest), hit, t.entries, t.whole)
    OBVIOUS
  <2>3. Continue(p, <<u>>)
    BY <1>1, <1>9, <2>1, <2>2 DEF MatchRecord, Head1
  <2>4. Entries(m.todo) = {u}
    BY <1>8, <2>3, Written
  <2>5. Head(t.rest) \in Address /\ Entries(t.rest) = {Head(t.rest)} \cup Entries(Tail(t.rest))
    BY <1>5, <1>9, RestOfIndex
  <2>6. /\ Entries(t.doomed) \subseteq Entries(hit)
        /\ records[Head(t.rest)].label \in rules => Head(t.rest) \in Entries(hit)
    BY <1>5, <1>6, <2>1, <2>5, AddedHost
  <2>7. /\ u.op = "match" /\ u.rest = Tail(t.rest) /\ u.doomed = hit
        /\ u.entries = t.entries /\ u.whole = t.whole
    BY <2>2 DEF Match
  <2>8. u.whole => \A a \in Held : records[a].label \in rules =>
                     a \in Entries(u.doomed) \cup Entries(u.rest)
    BY <1>6, <2>5, <2>6, <2>7
  <2>9. QED
    BY <1>6, <1>7, <2>4, <2>7, <2>8 DEF WholeInv, Held
<1>10. ASSUME t.rest = <<>> PROVE WholeInv(m)'
  <2>1. PICK first, second, last :
          /\ first = [op |-> "forgetHosts", ips |-> t.doomed]
          /\ second = [op |-> "purgeAttempts", entries |-> t.entries \cap Address]
          /\ last = [op |-> "answer", whole |-> t.whole]
    OBVIOUS
  <2>2. /\ first.op = "forgetHosts" /\ first.ips = t.doomed
        /\ second.op = "purgeAttempts"
        /\ last.op = "answer" /\ last.whole = t.whole
    BY <2>1
  <2>3. PICK tasks : tasks = (IF t.doomed = <<>> THEN <<>> ELSE <<first>>) \o <<second, last>>
    OBVIOUS
  <2>4. Continue(p, tasks)
    BY <1>1, <1>10, <2>1, <2>3 DEF MatchRecord, Head1
  <2>5. /\ tasks \in Seq(Entries(tasks))
        /\ Entries(tasks) = (IF t.doomed = <<>> THEN {} ELSE {first}) \cup {second, last}
    <3>1. CASE t.doomed = <<>>
      <4>1. tasks = <<second, last>>
        BY <2>3, <3>1, Written, NoTasks
      <4>2. QED
        BY <3>1, <4>1, Written
    <3>2. CASE t.doomed # <<>>
      <4>1. tasks = <<first>> \o <<second, last>>
        BY <2>3, <3>2
      <4>2. /\ <<first>> \in Seq(Entries(<<first>>)) /\ Entries(<<first>>) = {first}
            /\ <<second, last>> \in Seq(Entries(<<second, last>>))
            /\ Entries(<<second, last>>) = {second, last}
        BY Written
      <4>3. PICK one, two : one = <<first>> /\ two = <<second, last>>
        OBVIOUS
      <4>4. one \o two \in Seq(Entries(one \o two)) /\ Entries(one \o two) = Entries(one) \cup Entries(two)
        BY <4>2, <4>3, JoinedSeq
      <4>5. QED
        BY <3>2, <4>1, <4>2, <4>3, <4>4
    <3>3. QED
      BY <3>1, <3>2
  <2>6. Entries(m.todo) = Entries(tasks)
    BY <1>8, <2>4, <2>5
  <2>7. ASSUME t.whole, NEW a \in Held, records[a].label \in rules
        PROVE  \E u \in Entries(m.todo) : Removes(u, a)
    <3>1. a \in Entries(t.doomed)
      BY <1>6, <1>10, <2>7, Written
    <3>2. first \in Entries(m.todo)
      BY <2>5, <2>6, <3>1, Written
    <3>3. Removes(first, a)
      BY <2>2, <3>1 DEF Removes
    <3>4. QED
      BY <3>2, <3>3
  <2>8. \A u \in Entries(m.todo) : u.op # "match" /\ (u.op = "answer" => u.whole = t.whole)
    BY <2>2, <2>5, <2>6
  <2>9. QED
    BY <1>7, <2>7, <2>8 DEF WholeInv, Held
<1>11. QED
  BY <1>9, <1>10

(* So every step keeps it.                                                 *)
LEMMA StepWhole ==
  ASSUME CorpusInv, RemovalInv, NEW p \in Request, Step(p) \/ SweepThrows(p)
  PROVE  RemovalInv'
<1>1. PICK q, m : q = requests[p] /\ m = requests'[p]
  OBVIOUS
<1>2. p \in Active
  <2>1. CASE SweepThrows(p)
    BY <2>1, ThrowFacts DEF SweepThrows
  <2>2. CASE Step(p)
    BY <2>2 DEF Step, Screen, RecordExposedHost, FlushWriteBatch, PutRecord, ReadKey, WriteKey,
       SetKey, PublishKey, ForgetHosts, ForgetHost, PurgeExcluded, MatchRecord, PurgeAttempts,
       AnswerPurge, SweepStart, SweepResume, SweepScan, RecountIndex, RecountResume,
       RecountPage, At
  <2>3. QED
    BY <2>1, <2>2
<1>3. ASSUME lossless, Cardinality(Address) <= MaxIndex PROVE WholeInv(m)'
  <2>1. WholeInv(q)
    BY <1>1, <1>2, <1>3 DEF RemovalInv
  <2>2. CASE \/ Screen(p) \/ RecordExposedHost(p) \/ FlushWriteBatch(p)
             \/ SweepStart(p) \/ SweepResume(p) \/ SweepScan(p) \/ SweepThrows(p)
             \/ RecountIndex(p) \/ RecountResume(p) \/ RecountPage(p)
    BY <1>1, <2>2, StaysMatchless, Unmatched
  <2>3. CASE \/ PutRecord(p) \/ ReadKey(p) \/ WriteKey(p) \/ SetKey(p) \/ PublishKey(p)
             \/ ForgetHosts(p) \/ ForgetHost(p) \/ PurgeAttempts(p) \/ AnswerPurge(p)
    BY <1>1, <2>1, <2>3, OthersWhole
  <2>4. CASE PurgeExcluded(p)
    BY <1>1, <1>3, <2>4, PurgeWhole
  <2>5. CASE MatchRecord(p)
    BY <1>1, <2>1, <2>5, MatchWhole
  <2>6. QED
    BY <2>2, <2>3, <2>4, <2>5 DEF Step
<1>4. QED
  BY <1>1, <1>2, <1>3, RemovalStep

(* A request that begins has nothing to answer for, if it is alone.        *)
LEMMA BeginWhole ==
  ASSUME CorpusInv, NEW p \in Request, NEW todo, NEW batch, Begin(p, todo, batch),
         Matchless(todo)
  PROVE  RemovalInv'
<1>1. DOMAIN requests = Request /\ \A r \in Request : HandlerOK(requests[r])
  BY DEF CorpusInv, TypeOK
<1>2. lossless' => Active = {}
  BY DEF Begin
<1>3. PICK m : m = [Idle EXCEPT !.todo = todo, !.batch = batch, !.alone = (Active = {})]
  BY Zenon
<1>4. m.todo = todo
  BY <1>3 DEF Idle
<1>5. /\ requests'[p] = m
      /\ \A r \in Request : r # p => requests'[r] = [requests[r] EXCEPT !.alone = FALSE]
  BY <1>3 DEF Begin
<1>6. ASSUME NEW r \in Request, r # p PROVE requests'[r].todo = requests[r].todo
  <2>1. PICK q, u : q = requests[r] /\ u = requests'[r]
    OBVIOUS
  <2>2. HandlerOK(q) /\ u = [q EXCEPT !.alone = FALSE]
    BY <1>1, <1>5, <1>6, <2>1
  <2>3. u.todo = q.todo
    BY <2>2, Unalone
  <2>4. QED
    BY <2>1, <2>3
<1>7. WholeInv(m)'
  BY <1>4, Unmatched
<1>8. ASSUME Active = {}, NEW r \in Active' PROVE WholeInv(requests[r])'
  <2>1. r = p
    BY <1>6, <1>8 DEF Active
  <2>2. QED
    BY <1>5, <1>7, <2>1
<1>9. QED
  BY <1>2, <1>8 DEF RemovalInv

(* What a purge will answer stays true of the corpus.                      *)
LEMMA RemovalHolds ==
  ASSUME CorpusInv, RemovalInv, [Next]_vars PROVE RemovalInv'
<1>1. ASSUME NEW p \in Client, Start(p) PROVE RemovalInv'
  <2>1. PICK t, batch : Begin(p, <<t>>, batch) /\ t.op \notin {"match", "answer"}
    <3>1. CASE StartCheck(p)
      <4>1. PICK a \in Address \ rules :
              Call(p, <<Touch([a |-> a, label |-> Unlabelled, answered |-> TRUE])>>, NoBatch)
        BY <3>1 DEF StartCheck
      <4>2. PICK t : t = Touch([a |-> a, label |-> Unlabelled, answered |-> TRUE])
        OBVIOUS
      <4>3. t.op = "contact"
        BY <4>2 DEF Touch
      <4>4. QED
        BY <4>1, <4>2, <4>3 DEF Call
    <3>2. CASE StartIngest(p)
      <4>1. PICK given : Call(p, <<[op |-> "screen", batch |-> given]>>, OpenBatch)
        BY <3>2 DEF StartIngest
      <4>2. PICK t : t = [op |-> "screen", batch |-> given]
        OBVIOUS
      <4>3. t.op = "screen"
        BY <4>2
      <4>4. QED
        BY <4>1, <4>2, <4>3 DEF Call
    <3>3. CASE StartRetire(p)
      <4>1. PICK a : Call(p, <<[op |-> "forgetHosts", ips |-> <<a>>]>>, NoBatch)
        BY <3>3 DEF StartRetire
      <4>2. PICK t : t = [op |-> "forgetHosts", ips |-> <<a>>]
        OBVIOUS
      <4>3. t.op = "forgetHosts"
        BY <4>2
      <4>4. QED
        BY <4>1, <4>2, <4>3 DEF Call
    <3>4. CASE StartPurge(p)
      BY <3>4 DEF StartPurge, Call, Do
    <3>5. CASE StartSweep(p)
      BY <3>5 DEF StartSweep, Call, Do
    <3>6. CASE StartReconcile(p)
      BY <3>6 DEF StartReconcile, Call
    <3>7. QED
      BY <1>1, <3>1, <3>2, <3>3, <3>4, <3>5, <3>6 DEF Start
  <2>2. Matchless(<<t>>)
    BY <2>1, Written DEF Matchless
  <2>3. QED
    BY <2>1, <2>2, BeginWhole DEF Request
<1>2. ASSUME Scheduled PROVE RemovalInv'
  <2>1. PICK sweep, recount : /\ sweep = Do("sweep")
                              /\ recount = [op |-> "recount", limit |-> PageSize]
    OBVIOUS
  <2>2. Matchless(<<sweep, recount>>)
    BY <2>1, Written DEF Matchless, Do
  <2>3. Begin(Cron, <<sweep, recount>>, NoBatch)
    BY <1>2, <2>1 DEF Scheduled
  <2>4. QED
    BY <2>2, <2>3, BeginWhole DEF Request
<1>3. ASSUME NEW p \in Request, Step(p) \/ SweepThrows(p) PROVE RemovalInv'
  BY <1>3, StepWhole
<1>4. ASSUME NEW p \in Request, BreaksOff(p) PROVE RemovalInv'
  BY <1>4 DEF BreaksOff, RemovalInv
<1>5. ASSUME NEW a \in Address, Silent(a) PROVE RemovalInv'
  BY <1>5 DEF Silent, RemovalInv, WholeInv, Active, Held
<1>6. ASSUME NEW a \in Address, Expire(a) PROVE RemovalInv'
  <2>1. /\ DOMAIN requests = Request /\ \A r \in Request : HandlerOK(requests[r])
        /\ records \in [Address -> Record \cup {NoRecord}]
    BY DEF CorpusInv, TypeOK
  <2>2. /\ records' = [records EXCEPT ![a] = NoRecord] /\ rules' = rules /\ lossless' = lossless
        /\ requests' = [r \in Request |-> [requests[r] EXCEPT !.alone = FALSE]]
    BY <1>6 DEF Expire
  <2>3. \A b \in Held' : b \in Held /\ records'[b] = records[b]
    BY <2>1, <2>2 DEF Held
  <2>4. ASSUME NEW r \in Request PROVE requests'[r].todo = requests[r].todo
    <3>1. PICK q, u : q = requests[r] /\ u = requests'[r]
      OBVIOUS
    <3>2. HandlerOK(q) /\ u = [q EXCEPT !.alone = FALSE]
      BY <2>1, <2>2, <3>1
    <3>3. u.todo = q.todo
      BY <3>2, Unalone
    <3>4. QED
      BY <3>1, <3>3
  <2>5. Active' = Active
    BY <2>4 DEF Active
  <2>6. ASSUME lossless, Cardinality(Address) <= MaxIndex, NEW r \in Active
        PROVE  WholeInv(requests[r])'
    <3>1. PICK q, m : q = requests[r] /\ m = requests'[r]
      OBVIOUS
    <3>2. WholeInv(q)
      BY <2>6, <3>1 DEF RemovalInv
    <3>3. m.todo = q.todo
      BY <2>4, <2>6, <3>1 DEF Active
    <3>4. WholeInv(m)'
      BY <2>2, <2>3, <3>2, <3>3 DEF WholeInv
    <3>5. QED
      BY <3>1, <3>4
  <2>7. QED
    BY <2>2, <2>5, <2>6 DEF RemovalInv
<1>7. ASSUME UNCHANGED vars PROVE RemovalInv'
  BY <1>7 DEF vars, RemovalInv, WholeInv, Active, Held
<1>8. QED
  BY <1>1, <1>2, <1>3, <1>4, <1>5, <1>6, <1>7 DEF Next

(* purgeExcluded answers `complete` only when no record is left of a host  *)
(* that a rule covers, by its address or by its system, and no contact is  *)
(* noted of one covered by its address: it reads no more than MaxReads     *)
(* records and says so.                                                    *)
THEOREM RemovalAnswersTrue == Spec => []DeletionComplete
<1>1. Init => RemovalInv
  BY IdleOK DEF Init, RemovalInv, Active
<1>2. CorpusInv /\ RemovalInv => DeletionComplete
  <2>1. SUFFICES ASSUME CorpusInv, RemovalInv, NEW p \in Request,
                        At(p, "answer"), Head1(p).whole, lossless,
                        Cardinality(Address) <= MaxIndex
                 PROVE  /\ \A a \in Held : a \notin rules /\ records[a].label \notin rules
                        /\ kv.attempts \cap rules = {}
    BY DEF DeletionComplete
  <2>2. PICK q, t : q = requests[p] /\ t = Head(q.todo)
    OBVIOUS
  <2>3. p \in Active /\ t.op = "answer" /\ t.whole
    BY <2>1, <2>2 DEF At, Head1
  <2>4. q.todo # <<>> /\ TodoOK(q.todo) /\ RulesInv(q)
    BY <2>1, <2>2, <2>3, Before
  <2>5. Entries(q.todo) = {t}
    BY <2>2, <2>3, <2>4, LastTask
  <2>6. \A a : ~Removes(t, a) /\ ~Drops(t, a)
    BY <2>3 DEF Removes, Drops
  <2>7. WholeInv(q)
    BY <2>1, <2>2, <2>3 DEF RemovalInv
  <2>8. \A a \in Held : records[a].label \notin rules
    BY <2>3, <2>5, <2>6, <2>7 DEF WholeInv
  <2>9. \A a \in rules : a \notin Held /\ a \notin kv.attempts
    BY <2>4, <2>5, <2>6 DEF RulesInv
  <2>10. QED
    BY <2>8, <2>9
<1>3. QED
  BY <1>1, <1>2, RemovalHolds, CorpusInvariant, PTL DEF Spec

=============================================================================
