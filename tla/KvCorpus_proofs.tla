--------------------------- MODULE KvCorpus_proofs ---------------------------
(***************************************************************************)
(* Proofs about KvCorpus, for every set of hosts, labels, requests and     *)
(* contacts and every limit: the published counts drift for the causes     *)
(* listed and no other, and no index that is rewritten loses a host.       *)
(*                                                                         *)
(* Both say what holds between requests.  CorpusInv says what     *)
(* holds in between: a request carries the reads and writes it has yet to  *)
(* make, and the counts, the index and the rules agree with the records    *)
(* once those are made.  Most of a step's proof shows that the tasks it    *)
(* replaces its first task by leave the same state behind; StepHolds turns *)
(* this into the invariant, and there is one lemma named ...Holds for each *)
(* action.  What a removal may answer is proved in KvRemoval_proofs.       *)
(***************************************************************************)
EXTENDS KvCorpus, FiniteSetTheorems, SequenceTheorems, TLAPS

-----------------------------------------------------------------------------
(* Sequences and their entries.                                            *)

(* A sequence over its own entries: its places, and when it is empty.      *)
LEMMA InSeq ==
  ASSUME NEW s, s \in Seq(Entries(s))
  PROVE  /\ Len(s) \in Nat /\ DOMAIN s = 1..Len(s)
         /\ \A i \in DOMAIN s : s[i] \in Entries(s)
         /\ s = <<>> <=> Len(s) = 0
         /\ s = <<>> <=> Entries(s) = {}
<1>1. Len(s) \in Nat /\ DOMAIN s = 1..Len(s)
  BY LenProperties
<1>2. s = <<>> <=> Len(s) = 0
  BY <1>1, EmptySeq
<1>3. s = <<>> <=> Entries(s) = {}
  <2>1. s = <<>> => Entries(s) = {}
    BY <1>1, <1>2 DEF Entries
  <2>2. s # <<>> => s[1] \in Entries(s)
    <3>1. s # <<>> => 1 \in DOMAIN s
      BY <1>1, <1>2
    <3>2. QED
      BY <3>1 DEF Entries
  <2>3. QED
    BY <2>1, <2>2
<1>4. QED
  BY <1>1, <1>2, <1>3 DEF Entries

(* A sequence over any set is one over its own entries.                    *)
LEMMA OwnSeq ==
  ASSUME NEW S, NEW s \in Seq(S)
  PROVE  s \in Seq(Entries(s)) /\ Entries(s) \subseteq S
<1>1. Len(s) \in Nat /\ DOMAIN s = 1..Len(s) /\ s \in [1..Len(s) -> S]
  BY LenProperties
<1>2. s \in [1..Len(s) -> Entries(s)]
  BY <1>1 DEF Entries
<1>3. s \in Seq(Entries(s))
  BY <1>1, <1>2, SeqDef
<1>4. Entries(s) \subseteq S
  BY <1>1 DEF Entries
<1>5. QED
  BY <1>3, <1>4

(* Two sequences one after the other.                                      *)
LEMMA JoinedSeq ==
  ASSUME NEW s, s \in Seq(Entries(s)), NEW t, t \in Seq(Entries(t))
  PROVE  /\ s \o t \in Seq(Entries(s \o t))
         /\ Len(s \o t) = Len(s) + Len(t)
         /\ DOMAIN (s \o t) = 1..(Len(s) + Len(t))
         /\ \A i \in DOMAIN s : (s \o t)[i] = s[i]
         /\ \A i \in DOMAIN (s \o t) : i > Len(s) => i - Len(s) \in DOMAIN t /\ (s \o t)[i] = t[i - Len(s)]
         /\ \A i \in DOMAIN t : (s \o t)[Len(s) + i] = t[i]
         /\ Entries(s \o t) = Entries(s) \cup Entries(t)
<1> DEFINE S == Entries(s) \cup Entries(t)
<1>1. s \in Seq(S) /\ t \in Seq(S)
  BY SeqMonotonic
<1> HIDE DEF S
<1>2. /\ s \o t \in Seq(S) /\ Len(s \o t) = Len(s) + Len(t)
      /\ \A i \in 1..(Len(s) + Len(t)) :
           (s \o t)[i] = IF i <= Len(s) THEN s[i] ELSE t[i - Len(s)]
  BY <1>1, ConcatProperties
<1>3. /\ Len(s) \in Nat /\ DOMAIN s = 1..Len(s)
      /\ Len(t) \in Nat /\ DOMAIN t = 1..Len(t)
  BY InSeq
<1>4. DOMAIN (s \o t) = 1..(Len(s) + Len(t))
  BY <1>2, LenProperties
<1>5. s \o t \in Seq(Entries(s \o t))
  BY <1>2, OwnSeq
<1>6. \A i \in DOMAIN t : Len(s) + i \in 1..(Len(s) + Len(t)) /\ (s \o t)[Len(s) + i] = t[i]
  <2>1. SUFFICES ASSUME NEW i \in DOMAIN t
                 PROVE  Len(s) + i \in 1..(Len(s) + Len(t)) /\ (s \o t)[Len(s) + i] = t[i]
    OBVIOUS
  <2>2. Len(s) + i \in 1..(Len(s) + Len(t)) /\ ~(Len(s) + i <= Len(s)) /\ (Len(s) + i) - Len(s) = i
    BY <1>3
  <2>3. QED
    BY <1>2, <2>2
<1>7. \A i \in DOMAIN s : i \in DOMAIN (s \o t) /\ (s \o t)[i] = s[i]
  BY <1>2, <1>3, <1>4
<1>8. \A i \in DOMAIN (s \o t) : i > Len(s) => i - Len(s) \in DOMAIN t /\ (s \o t)[i] = t[i - Len(s)]
  BY <1>2, <1>3, <1>4
<1>9. Entries(s \o t) = Entries(s) \cup Entries(t)
  <2>1. Entries(s \o t) \subseteq Entries(s) \cup Entries(t)
    BY <1>3, <1>4, <1>7, <1>8 DEF Entries
  <2>2. Entries(s) \subseteq Entries(s \o t)
    BY <1>7 DEF Entries
  <2>3. Entries(t) \subseteq Entries(s \o t)
    BY <1>4, <1>6 DEF Entries
  <2>4. QED
    BY <2>1, <2>2, <2>3
<1>10. QED
  BY <1>2, <1>4, <1>5, <1>6, <1>7, <1>8, <1>9

(* What is left of a sequence without its first entry.                     *)
LEMMA RestOf ==
  ASSUME NEW s, s \in Seq(Entries(s)), s # <<>>
  PROVE  /\ 1 \in DOMAIN s /\ Head(s) = s[1] /\ Head(s) \in Entries(s)
         /\ Tail(s) \in Seq(Entries(Tail(s)))
         /\ Len(Tail(s)) = Len(s) - 1
         /\ DOMAIN Tail(s) = 1..(Len(s) - 1)
         /\ \A i \in DOMAIN Tail(s) : i + 1 \in DOMAIN s /\ Tail(s)[i] = s[i + 1]
         /\ \A i \in DOMAIN s : i > 1 => i - 1 \in DOMAIN Tail(s) /\ s[i] = Tail(s)[i - 1]
         /\ Entries(s) = {Head(s)} \cup Entries(Tail(s))
<1>1. Len(s) \in Nat /\ Len(s) > 0 /\ DOMAIN s = 1..Len(s)
  BY InSeq
<1>2. 1 \in DOMAIN s /\ Head(s) = s[1] /\ Head(s) \in Entries(s)
  BY <1>1 DEF Entries
<1>3. /\ Tail(s) \in Seq(Entries(s)) /\ Len(Tail(s)) = Len(s) - 1
      /\ \A i \in 1..Len(Tail(s)) : Tail(s)[i] = s[i + 1]
  BY HeadTailProperties
<1>4. DOMAIN Tail(s) = 1..(Len(s) - 1) /\ Tail(s) \in Seq(Entries(Tail(s)))
  BY <1>3, LenProperties, OwnSeq
<1>5. \A i \in DOMAIN Tail(s) : i + 1 \in DOMAIN s /\ Tail(s)[i] = s[i + 1]
  BY <1>1, <1>3, <1>4
<1>6. \A i \in DOMAIN s : i > 1 => i - 1 \in DOMAIN Tail(s) /\ s[i] = Tail(s)[i - 1]
  BY <1>1, <1>3, <1>4
<1>7. Entries(s) = {Head(s)} \cup Entries(Tail(s))
  <2>1. Entries(s) \subseteq {Head(s)} \cup Entries(Tail(s))
    <3>1. SUFFICES ASSUME NEW i \in DOMAIN s PROVE s[i] \in {Head(s)} \cup Entries(Tail(s))
      BY DEF Entries
    <3>2. CASE i > 1
      BY <1>6, <3>2 DEF Entries
    <3>3. CASE ~(i > 1)
      BY <1>1, <1>2, <3>3
    <3>4. QED
      BY <3>2, <3>3
  <2>2. Entries(Tail(s)) \subseteq Entries(s)
    BY <1>5 DEF Entries
  <2>3. QED
    BY <1>2, <2>1, <2>2
<1>8. QED
  BY <1>2, <1>3, <1>4, <1>5, <1>6, <1>7

(* Short sequences written out.                                            *)
LEMMA Written ==
  /\ <<>> \in Seq(Entries(<<>>)) /\ Entries(<<>>) = {} /\ Len(<<>>) = 0 /\ DOMAIN <<>> = {}
  /\ \A t : /\ <<t>> \in Seq(Entries(<<t>>)) /\ Entries(<<t>>) = {t}
            /\ Len(<<t>>) = 1 /\ DOMAIN <<t>> = {1} /\ <<t>>[1] = t
            /\ <<t>> # <<>> /\ Head(<<t>>) = t /\ Tail(<<t>>) = <<>>
  /\ \A t, u : /\ <<t, u>> \in Seq(Entries(<<t, u>>)) /\ Entries(<<t, u>>) = {t, u}
               /\ Len(<<t, u>>) = 2 /\ DOMAIN <<t, u>> = {1, 2}
               /\ <<t, u>>[1] = t /\ <<t, u>>[2] = u
               /\ <<t, u>> # <<>> /\ Head(<<t, u>>) = t /\ Tail(<<t, u>>) = <<u>>
  /\ \A t, u, v : /\ <<t, u, v>> \in Seq(Entries(<<t, u, v>>)) /\ Entries(<<t, u, v>>) = {t, u, v}
                  /\ Len(<<t, u, v>>) = 3 /\ DOMAIN <<t, u, v>> = {1, 2, 3}
                  /\ <<t, u, v>>[1] = t /\ <<t, u, v>>[2] = u /\ <<t, u, v>>[3] = v
                  /\ <<t, u, v>> # <<>> /\ Head(<<t, u, v>>) = t /\ Tail(<<t, u, v>>) = <<u, v>>
<1>1. /\ <<>> \in Seq(Entries(<<>>)) /\ Entries(<<>>) = {} /\ Len(<<>>) = 0 /\ DOMAIN <<>> = {}
  BY EmptySeq DEF Entries
<1>2. ASSUME NEW t
      PROVE  /\ <<t>> \in Seq(Entries(<<t>>)) /\ Entries(<<t>>) = {t}
             /\ Len(<<t>>) = 1 /\ DOMAIN <<t>> = {1} /\ <<t>>[1] = t
             /\ <<t>> # <<>> /\ Head(<<t>>) = t /\ Tail(<<t>>) = <<>>
  BY DEF Entries
<1>3. ASSUME NEW t, NEW u
      PROVE  /\ <<t, u>> \in Seq(Entries(<<t, u>>)) /\ Entries(<<t, u>>) = {t, u}
             /\ Len(<<t, u>>) = 2 /\ DOMAIN <<t, u>> = {1, 2}
             /\ <<t, u>>[1] = t /\ <<t, u>>[2] = u
             /\ <<t, u>> # <<>> /\ Head(<<t, u>>) = t /\ Tail(<<t, u>>) = <<u>>
  BY DEF Entries
<1>4. ASSUME NEW t, NEW u, NEW v
      PROVE  /\ <<t, u, v>> \in Seq(Entries(<<t, u, v>>)) /\ Entries(<<t, u, v>>) = {t, u, v}
             /\ Len(<<t, u, v>>) = 3 /\ DOMAIN <<t, u, v>> = {1, 2, 3}
             /\ <<t, u, v>>[1] = t /\ <<t, u, v>>[2] = u /\ <<t, u, v>>[3] = v
             /\ <<t, u, v>> # <<>> /\ Head(<<t, u, v>>) = t /\ Tail(<<t, u, v>>) = <<u, v>>
  BY DEF Entries
<1>5. QED
  BY <1>1, <1>2, <1>3, <1>4

(* The places of a filter, in order.                                       *)
LEMMA PickedPlaces ==
  ASSUME NEW s, NEW places, IsFiniteSet(places), places \subseteq Nat
  PROVE  /\ Cardinality(places) \in Nat
         /\ \E at \in [1..Cardinality(places) -> places] :
              /\ Picked(s, places) = [k \in 1..Cardinality(places) |-> s[at[k]]]
              /\ \A i \in places : \E k \in 1..Cardinality(places) : at[k] = i
              /\ \A k, m \in 1..Cardinality(places) : at[k] = at[m] => k = m
<1> DEFINE N == Cardinality(places)
           rank(i) == Cardinality({j \in places : j <= i})
           f == [i \in places |-> rank(i)]
           at == [k \in 1..N |-> CHOOSE i \in places : rank(i) = k]
<1>1. N \in Nat
  BY FS_CardinalityType
<1>2. ASSUME NEW i \in places PROVE rank(i) \in 1..N
  <2> DEFINE low == {j \in places : j <= i}
  <2>1. low \in SUBSET places /\ i \in low
    OBVIOUS
  <2> HIDE DEF low
  <2>2. IsFiniteSet(low) /\ Cardinality(low) <= N /\ Cardinality(low) \in Nat
    BY <2>1, FS_Subset, FS_CardinalityType
  <2>3. Cardinality(low) # 0
    BY <2>1, <2>2, FS_EmptySet
  <2>4. QED
    BY <1>1, <2>2, <2>3 DEF low
<1>3. ASSUME NEW i \in places, NEW j \in places, i < j PROVE rank(i) < rank(j)
  <2> DEFINE low == {k \in places : k <= i}
             high == {k \in places : k <= j}
  <2>1. \A k \in places : k \in Nat
    OBVIOUS
  <2>2. low \in SUBSET high /\ j \in high /\ j \notin low /\ high \in SUBSET places
    <3>1. \A k \in places : k <= i => k <= j
      BY <1>3, <2>1
    <3>2. j <= j /\ ~(j <= i)
      BY <1>3, <2>1
    <3>3. QED
      BY <3>1, <3>2
  <2> HIDE DEF low, high
  <2>3. IsFiniteSet(high) /\ IsFiniteSet(low) /\ Cardinality(low) <= Cardinality(high)
    BY <2>2, FS_Subset
  <2>4. Cardinality(low) # Cardinality(high)
    BY <2>2, <2>3, FS_Subset
  <2>5. Cardinality(low) \in Nat /\ Cardinality(high) \in Nat
    BY <2>3, FS_CardinalityType
  <2>6. QED
    BY <2>3, <2>4, <2>5 DEF low, high
<1>4. \A i, j \in places : rank(i) = rank(j) => i = j
  <2>1. SUFFICES ASSUME NEW i \in places, NEW j \in places, i # j
                 PROVE  rank(i) # rank(j)
    OBVIOUS
  <2>2. rank(i) \in Nat /\ rank(j) \in Nat
    BY <1>1, <1>2
  <2>3. i < j \/ j < i
    BY <2>1
  <2>4. QED
    BY <1>3, <2>2, <2>3
<1> HIDE DEF rank
<1>5. f \in Injection(places, 1..N)
  BY <1>2, <1>4 DEF Injection, IsInjective
<1>6. f \in Surjection(places, 1..N)
  <2>1. IsFiniteSet(1..N) /\ Cardinality(1..N) = N
    BY <1>1, FS_Interval
  <2>2. QED
    BY <1>5, <2>1, FS_Injection
<1>7. ASSUME NEW k \in 1..N
      PROVE  at[k] \in places /\ rank(at[k]) = k
  <2>1. PICK i \in places : f[i] = k
    BY <1>6 DEF Surjection
  <2>2. rank(i) = k
    BY <2>1
  <2>3. QED
    BY <2>2
<1>8. at \in [1..N -> places]
  BY <1>7
<1>9. \A i \in places : \E k \in 1..N : at[k] = i
  <2>1. SUFFICES ASSUME NEW i \in places PROVE rank(i) \in 1..N /\ at[rank(i)] = i
    OBVIOUS
  <2>2. rank(i) \in 1..N
    BY <1>2
  <2>3. QED
    BY <1>4, <1>7, <2>2
<1>10. \A k, m \in 1..N : at[k] = at[m] => k = m
  BY <1>7
<1>11. Picked(s, places) = [k \in 1..N |-> s[at[k]]]
  BY DEF Picked, rank
<1> HIDE DEF at
<1>12. QED
  BY <1>1, <1>8, <1>9, <1>10, <1>11

(* A filter leaves the entries at the places picked, each place once.      *)
LEMMA PickedFacts ==
  ASSUME NEW S, NEW s \in Seq(S), NEW places \in SUBSET DOMAIN s
  PROVE  /\ Picked(s, places) \in Seq(S)
         /\ Entries(Picked(s, places)) = {s[i] : i \in places}
         /\ (\A i, j \in DOMAIN s : s[i] = s[j] => i = j) =>
              \A i, j \in DOMAIN Picked(s, places) :
                Picked(s, places)[i] = Picked(s, places)[j] => i = j
<1>1. Len(s) \in Nat /\ DOMAIN s = 1..Len(s) /\ s \in [1..Len(s) -> S]
  BY LenProperties
<1>2. IsFiniteSet(places) /\ places \subseteq Nat
  <2>1. IsFiniteSet(1..Len(s))
    BY <1>1, FS_Interval
  <2>2. QED
    BY <1>1, <2>1, FS_Subset
<1>3. PICK n \in Nat : n = Cardinality(places)
  BY <1>2, FS_CardinalityType
<1>4. PICK at \in [1..n -> places] :
        /\ Picked(s, places) = [k \in 1..n |-> s[at[k]]]
        /\ \A i \in places : \E k \in 1..n : at[k] = i
        /\ \A k, m \in 1..n : at[k] = at[m] => k = m
  BY <1>2, <1>3, PickedPlaces
<1>5. Picked(s, places) \in Seq(S)
  <2>1. Picked(s, places) \in [1..n -> S]
    BY <1>1, <1>4
  <2>2. QED
    BY <2>1, SeqDef
<1>6. Entries(Picked(s, places)) = {s[i] : i \in places}
  <2>1. Entries(Picked(s, places)) \subseteq {s[i] : i \in places}
    BY <1>4 DEF Entries
  <2>2. ASSUME NEW i \in places PROVE s[i] \in Entries(Picked(s, places))
    <3>1. PICK k \in 1..n : at[k] = i
      BY <1>4
    <3>2. k \in DOMAIN Picked(s, places) /\ Picked(s, places)[k] = s[i]
      BY <1>4, <3>1
    <3>3. QED
      BY <3>2 DEF Entries
  <2>3. QED
    BY <2>1, <2>2
<1>7. (\A i, j \in DOMAIN s : s[i] = s[j] => i = j) =>
              \A i, j \in DOMAIN Picked(s, places) :
                Picked(s, places)[i] = Picked(s, places)[j] => i = j
  BY <1>4
<1>8. QED
  BY <1>5, <1>6, <1>7

(* Indexes: sequences of hosts without repetition.                         *)

(* An index is a sequence over its own entries, each at one place.         *)
LEMMA IndexFacts ==
  ASSUME NEW s \in Index
  PROVE  /\ s \in Seq(Address) /\ s \in Seq(Entries(s)) /\ Entries(s) \subseteq Address
         /\ Len(s) \in Nat /\ DOMAIN s = 1..Len(s)
         /\ \A i, j \in DOMAIN s : s[i] = s[j] => i = j
         /\ \A i \in DOMAIN s : s[i] \in Address /\ s[i] \in Entries(s)
<1>1. s \in Seq(Address) /\ \A i, j \in DOMAIN s : s[i] = s[j] => i = j
  BY DEF Index
<1>2. s \in Seq(Entries(s)) /\ Entries(s) \subseteq Address
  BY <1>1, OwnSeq
<1>3. QED
  BY <1>1, <1>2, InSeq

(* An index lists as many hosts as it has places.                          *)
LEMMA ListedOnce ==
  ASSUME NEW s \in Index, NEW m \in Nat, NEW n \in Nat, m..n \subseteq DOMAIN s
  PROVE  /\ IsFiniteSet({s[i] : i \in m..n})
         /\ Cardinality({s[i] : i \in m..n}) = IF m > n THEN 0 ELSE n - m + 1
<1> DEFINE T == {s[i] : i \in m..n}
           f == [i \in m..n |-> s[i]]
<1>1. f \in Surjection(m..n, T)
  BY DEF Surjection
<1>2. f \in Injection(m..n, T)
  <2>1. \A i, j \in m..n : s[i] = s[j] => i = j
    BY IndexFacts
  <2>2. QED
    BY <2>1 DEF Injection, IsInjective
<1>3. IsFiniteSet(m..n) /\ Cardinality(m..n) = IF m > n THEN 0 ELSE n - m + 1
  BY FS_Interval
<1> HIDE DEF T, f
<1>4. IsFiniteSet(T) /\ Cardinality(T) = Cardinality(m..n)
  BY <1>1, <1>2, <1>3, FS_Surjection
<1>5. QED
  BY <1>3, <1>4 DEF T

(* An index is as long as it lists hosts.                                  *)
LEMMA IndexLength ==
  ASSUME NEW s \in Index
  PROVE  Len(s) <= Cardinality(Address) /\ Cardinality(Entries(s)) = Len(s)
<1>1. Len(s) \in Nat /\ DOMAIN s = 1..Len(s) /\ Entries(s) \subseteq Address
  BY IndexFacts
<1>2. Entries(s) = {s[i] : i \in 1..Len(s)}
  BY <1>1 DEF Entries
<1>3. Cardinality(Entries(s)) = Len(s)
  <2>1. Cardinality({s[i] : i \in 1..Len(s)}) = IF 1 > Len(s) THEN 0 ELSE Len(s) - 1 + 1
    BY <1>1, ListedOnce
  <2>2. QED
    BY <1>1, <1>2, <2>1
<1>4. Cardinality(Entries(s)) <= Cardinality(Address)
  BY <1>1, KvAssumption, FS_Subset
<1>5. QED
  BY <1>3, <1>4

(* A filter of an index is an index.                                       *)
LEMMA FilteredIndex ==
  ASSUME NEW s \in Index, NEW A
  PROVE  /\ Less(s, A) \in Index /\ Entries(Less(s, A)) = Entries(s) \ A
         /\ LET t == Picked(s, {i \in DOMAIN s : s[i] \in A})
            IN  t \in Index /\ Entries(t) = Entries(s) \cap A
<1>1. s \in Seq(Address) /\ \A i, j \in DOMAIN s : s[i] = s[j] => i = j
  BY IndexFacts
<1>2. /\ Picked(s, {i \in DOMAIN s : s[i] \notin A}) \in Index
      /\ Entries(Picked(s, {i \in DOMAIN s : s[i] \notin A})) =
           {s[i] : i \in {i \in DOMAIN s : s[i] \notin A}}
  <2> DEFINE places == {i \in DOMAIN s : s[i] \notin A}
  <2>1. places \in SUBSET DOMAIN s
    OBVIOUS
  <2> HIDE DEF places
  <2>2. /\ Picked(s, places) \in Seq(Address)
        /\ Entries(Picked(s, places)) = {s[i] : i \in places}
        /\ \A i, j \in DOMAIN Picked(s, places) :
                Picked(s, places)[i] = Picked(s, places)[j] => i = j
    BY <1>1, <2>1, PickedFacts
  <2>3. Picked(s, places) \in Index
    BY <2>2 DEF Index
  <2>4. QED
    BY <2>2, <2>3 DEF places
<1>3. /\ Picked(s, {i \in DOMAIN s : s[i] \in A}) \in Index
      /\ Entries(Picked(s, {i \in DOMAIN s : s[i] \in A})) =
           {s[i] : i \in {i \in DOMAIN s : s[i] \in A}}
  <2> DEFINE places == {i \in DOMAIN s : s[i] \in A}
  <2>1. places \in SUBSET DOMAIN s
    OBVIOUS
  <2> HIDE DEF places
  <2>2. /\ Picked(s, places) \in Seq(Address)
        /\ Entries(Picked(s, places)) = {s[i] : i \in places}
        /\ \A i, j \in DOMAIN Picked(s, places) :
                Picked(s, places)[i] = Picked(s, places)[j] => i = j
    BY <1>1, <2>1, PickedFacts
  <2>3. Picked(s, places) \in Index
    BY <2>2 DEF Index
  <2>4. QED
    BY <2>2, <2>3 DEF places
<1>4. {s[i] : i \in {i \in DOMAIN s : s[i] \notin A}} = Entries(s) \ A
  BY DEF Entries
<1>5. {s[i] : i \in {i \in DOMAIN s : s[i] \in A}} = Entries(s) \cap A
  BY DEF Entries
<1>6. QED
  BY <1>2, <1>3, <1>4, <1>5 DEF Less

(* Two indexes that share no host make one.                                *)
LEMMA JoinedIndex ==
  ASSUME NEW s \in Index, NEW t \in Index, Entries(s) \cap Entries(t) = {}
  PROVE  s \o t \in Index /\ Entries(s \o t) = Entries(s) \cup Entries(t)
<1>1. s \in Seq(Entries(s)) /\ t \in Seq(Entries(t))
  BY IndexFacts
<1>2. /\ Len(s) \in Nat /\ DOMAIN s = 1..Len(s) /\ Len(t) \in Nat /\ DOMAIN t = 1..Len(t)
      /\ \A i, j \in DOMAIN s : s[i] = s[j] => i = j
      /\ \A i, j \in DOMAIN t : t[i] = t[j] => i = j
      /\ \A i \in DOMAIN s : s[i] \in Entries(s)
      /\ \A i \in DOMAIN t : t[i] \in Entries(t)
  BY IndexFacts
<1>3. /\ DOMAIN (s \o t) = 1..(Len(s) + Len(t))
      /\ \A i \in DOMAIN s : (s \o t)[i] = s[i]
      /\ \A i \in DOMAIN (s \o t) : i > Len(s) => i - Len(s) \in DOMAIN t /\ (s \o t)[i] = t[i - Len(s)]
      /\ Entries(s \o t) = Entries(s) \cup Entries(t)
  BY <1>1, JoinedSeq
<1>4. s \o t \in Seq(Address)
  BY IndexFacts, ConcatProperties
<1>5. ASSUME NEW i \in DOMAIN (s \o t), NEW j \in DOMAIN (s \o t), (s \o t)[i] = (s \o t)[j]
      PROVE  i = j
  <2>1. i \in Int /\ j \in Int /\ i >= 1 /\ j >= 1
    BY <1>2, <1>3
  <2>2. CASE i <= Len(s) /\ j <= Len(s)
    <3>1. i \in DOMAIN s /\ j \in DOMAIN s
      BY <1>2, <2>1, <2>2
    <3>2. QED
      BY <1>2, <1>3, <1>5, <3>1
  <2>3. CASE i > Len(s) /\ j > Len(s)
    <3>1. i - Len(s) = j - Len(s)
      BY <1>2, <1>3, <1>5, <2>3
    <3>2. QED
      BY <1>2, <2>1, <3>1
  <2>4. CASE i <= Len(s) /\ j > Len(s)
    <3>1. i \in DOMAIN s
      BY <1>2, <2>1, <2>4
    <3>2. QED
      BY <1>2, <1>3, <1>5, <2>4, <3>1
  <2>5. CASE i > Len(s) /\ j <= Len(s)
    <3>1. j \in DOMAIN s
      BY <1>2, <2>1, <2>5
    <3>2. QED
      BY <1>2, <1>3, <1>5, <2>5, <3>1
  <2>6. QED
    BY <1>2, <2>1, <2>2, <2>3, <2>4, <2>5
<1>6. QED
  BY <1>3, <1>4, <1>5 DEF Index

(* The empty index and the index of one host.                              *)
LEMMA OneHost ==
  ASSUME NEW a \in Address
  PROVE  <<>> \in Index /\ Entries(<<>>) = {} /\ <<a>> \in Index /\ Entries(<<a>>) = {a}
BY Written DEF Index

(* A stretch of an index is an index.                                      *)
LEMMA PartOfIndex ==
  ASSUME NEW s \in Index, NEW m \in Nat, NEW n \in Nat, m..n \subseteq DOMAIN s
  PROVE  /\ SubSeq(s, m, n) \in Index
         /\ Entries(SubSeq(s, m, n)) = {s[i] : i \in m..n}
<1> DEFINE t == SubSeq(s, m, n)
<1>1. \A i \in m..n : i \in DOMAIN s /\ s[i] \in Address
  BY IndexFacts
<1>2. /\ t \in Seq(Address) /\ Len(t) = (IF m <= n THEN n - m + 1 ELSE 0)
      /\ \A i \in 1..(n - m + 1) : t[i] = s[m + i - 1]
  BY <1>1, SubSeqProperties
<1> HIDE DEF t
<1>3. DOMAIN t = 1..(n - m + 1) /\ \A i \in DOMAIN t : m + i - 1 \in m..n /\ t[i] = s[m + i - 1]
  <2>1. DOMAIN t = 1..Len(t)
    BY <1>2, LenProperties
  <2>2. QED
    BY <1>2, <2>1
<1>4. \A i, j \in DOMAIN t : t[i] = t[j] => i = j
  <2>1. \A i, j \in m..n : s[i] = s[j] => i = j
    BY <1>1, IndexFacts
  <2>2. SUFFICES ASSUME NEW i \in DOMAIN t, NEW j \in DOMAIN t, t[i] = t[j] PROVE i = j
    OBVIOUS
  <2>3. m + i - 1 = m + j - 1
    BY <1>3, <2>1, <2>2
  <2>4. QED
    BY <1>3, <2>3
<1>5. Entries(t) = {s[i] : i \in m..n}
  <2>1. Entries(t) \subseteq {s[i] : i \in m..n}
    BY <1>3 DEF Entries
  <2>2. ASSUME NEW i \in m..n PROVE s[i] \in Entries(t)
    <3>1. i - m + 1 \in DOMAIN t /\ m + (i - m + 1) - 1 = i
      BY <1>3
    <3>2. t[i - m + 1] = s[i]
      BY <1>3, <3>1
    <3>3. QED
      BY <3>1, <3>2 DEF Entries
  <2>3. QED
    BY <2>1, <2>2
<1>6. QED
  BY <1>2, <1>4, <1>5 DEF t, Index

(* Cutting an index to its newest entries drops none while they all fit.   *)
LEMMA NewestIndex ==
  ASSUME NEW s \in Index
  PROVE  /\ Newest(s) \in Index /\ Entries(Newest(s)) \subseteq Entries(s)
         /\ Cardinality(Address) <= MaxIndex => Entries(Newest(s)) = Entries(s)
<1>1. Len(s) \in Nat /\ DOMAIN s = 1..Len(s) /\ MaxIndex \in Nat
  BY IndexFacts, KvAssumption
<1>2. PICK m \in Nat : m = Clamp(Len(s) - MaxIndex) + 1 /\ m >= 1
  BY <1>1 DEF Clamp
<1>3. m..Len(s) \subseteq DOMAIN s
  BY <1>1, <1>2
<1>4. Newest(s) \in Index /\ Entries(Newest(s)) = {s[i] : i \in m..Len(s)}
  BY <1>1, <1>2, <1>3, PartOfIndex DEF Newest
<1>5. Cardinality(Address) <= MaxIndex => m = 1
  <2>1. Len(s) <= Cardinality(Address) /\ Cardinality(Address) \in Nat
    BY IndexLength, KvAssumption, FS_CardinalityType
  <2>2. QED
    BY <1>1, <1>2, <2>1 DEF Clamp
<1>6. QED
  BY <1>1, <1>3, <1>4, <1>5 DEF Entries

(* Adding a host lists it once.                                            *)
LEMMA AddedHost ==
  ASSUME NEW s \in Index, NEW a \in Address
  PROVE  /\ Add(s, a) \in Index /\ Entries(Add(s, a)) = Entries(s) \cup {a}
         /\ a \notin Entries(s) => Append(s, a) \in Index
                                   /\ Entries(Append(s, a)) = Entries(s) \cup {a}
<1>1. Append(s, a) = s \o <<a>>
  BY IndexFacts, AppendIsConcat
<1>2. a \notin Entries(s) => s \o <<a>> \in Index /\ Entries(s \o <<a>>) = Entries(s) \cup {a}
  BY OneHost, JoinedIndex
<1>3. QED
  BY <1>1, <1>2 DEF Add

(* What an update makes of a value.                                        *)
LEMMA ChangedValue ==
  /\ \A value \in [Label -> Nat], change \in [Label -> Int] :
       Changed("geo", value, change) \in [Label -> Nat]
  /\ \A value \in Nat, change \in Int : Changed("corpus", value, change) \in Nat
  /\ \A value \in Index, change \in Index :
       /\ Changed("index", value, change) \in Index
       /\ Entries(Changed("index", value, change)) \subseteq Entries(value) \cup Entries(change)
       /\ Cardinality(Address) <= MaxIndex =>
            Entries(Changed("index", value, change)) = Entries(value) \cup Entries(change)
  /\ \A value, change : Changed("attempts", value, change) = (value \cup change.add) \ change.drop
<1>1. ASSUME NEW value \in [Label -> Nat], NEW change \in [Label -> Int]
      PROVE  Changed("geo", value, change) \in [Label -> Nat]
  BY DEF Changed, Clamp
<1>2. ASSUME NEW value \in Nat, NEW change \in Int
      PROVE  Changed("corpus", value, change) \in Nat
  BY DEF Changed, Clamp
<1>3. ASSUME NEW value \in Index, NEW change \in Index
      PROVE  /\ Changed("index", value, change) \in Index
             /\ Entries(Changed("index", value, change)) \subseteq Entries(value) \cup Entries(change)
             /\ Cardinality(Address) <= MaxIndex =>
                  Entries(Changed("index", value, change)) = Entries(value) \cup Entries(change)
  <2>1. Changed("index", value, change) = Newest(value \o Less(change, Entries(value)))
    BY DEF Changed
  <2>2. /\ Less(change, Entries(value)) \in Index
        /\ Entries(Less(change, Entries(value))) = Entries(change) \ Entries(value)
    BY FilteredIndex
  <2>3. /\ value \o Less(change, Entries(value)) \in Index
        /\ Entries(value \o Less(change, Entries(value))) = Entries(value) \cup Entries(change)
    BY <2>2, JoinedIndex
  <2>4. QED
    BY <2>1, <2>3, NewestIndex
<1>4. ASSUME NEW value, NEW change
      PROVE  Changed("attempts", value, change) = (value \cup change.add) \ change.drop
  BY DEF Changed
<1>5. QED
  BY <1>1, <1>2, <1>3, <1>4

-----------------------------------------------------------------------------
(* Counts.                                                                 *)

(* There are finitely many hosts, so every set of them has a size.         *)
LEMMA Finite ==
  ASSUME NEW A \in SUBSET Address
  PROVE  IsFiniteSet(A) /\ Cardinality(A) \in Nat
BY KvAssumption, FS_Subset, FS_CardinalityType

(* Two sets that differ in one host at most.                               *)
LEMMA OneApart ==
  ASSUME NEW S \in SUBSET Address, NEW T \in SUBSET Address, NEW a, S \ {a} = T \ {a}
  PROVE  Cardinality(T) = Cardinality(S) + (IF a \in T THEN 1 ELSE 0)
                                         - (IF a \in S THEN 1 ELSE 0)
<1> DEFINE U == S \ {a}
<1>1. U \in SUBSET Address
  OBVIOUS
<1> HIDE DEF U
<1>2. IsFiniteSet(U) /\ Cardinality(U) \in Nat /\ a \notin U
  BY <1>1, Finite DEF U
<1>3. Cardinality(U \cup {a}) = Cardinality(U) + 1
  BY <1>2, FS_AddElement
<1>4. /\ a \in S => S = U \cup {a}
      /\ a \notin S => S = U
      /\ a \in T => T = U \cup {a}
      /\ a \notin T => T = U
  BY DEF U
<1>5. Cardinality(S) = Cardinality(U) + (IF a \in S THEN 1 ELSE 0)
  <2>1. CASE a \in S
    BY <1>2, <1>3, <1>4, <2>1
  <2>2. CASE a \notin S
    BY <1>2, <1>4, <2>2
  <2>3. QED
    BY <2>1, <2>2
<1>6. Cardinality(T) = Cardinality(U) + (IF a \in T THEN 1 ELSE 0)
  <2>1. CASE a \in T
    BY <1>2, <1>3, <1>4, <2>1
  <2>2. CASE a \notin T
    BY <1>2, <1>4, <2>2
  <2>3. QED
    BY <2>1, <2>2
<1>7. QED
  BY <1>2, <1>5, <1>6

(* How many hosts are counted in a bucket, and in all.                     *)
Marked(R, l) == Cardinality({b \in Address : R[b].marker = l})
Marks(R) == Cardinality({b \in Address : Counted(R[b])})
With(R, a, r) == [R EXCEPT ![a] = r]

(* When one record changes, the host leaves its bucket for another one.    *)
LEMMA CountsMove ==
  ASSUME NEW R, DOMAIN R = Address, NEW a \in Address, NEW r
  PROVE  /\ \A l : /\ Marked(With(R, a, r), l) = Marked(R, l) + (IF r.marker = l THEN 1 ELSE 0)
                                                   - (IF R[a].marker = l THEN 1 ELSE 0)
                   /\ Marked(R, l) \in Nat
                   /\ R[a].marker = l => Marked(R, l) > 0
         /\ Marks(With(R, a, r)) = Marks(R) + (IF Counted(r) THEN 1 ELSE 0) - (IF Counted(R[a]) THEN 1 ELSE 0)
         /\ Marks(R) \in Nat
         /\ Counted(R[a]) => Marks(R) > 0
<1> DEFINE R2 == With(R, a, r)
<1>1. R2[a] = r /\ \A b \in Address : b # a => R2[b] = R[b]
  BY DEF With
<1> HIDE DEF R2
<1>2. ASSUME NEW l
      PROVE  /\ Cardinality({b \in Address : R2[b].marker = l}) =
                     Cardinality({b \in Address : R[b].marker = l})
                     + (IF r.marker = l THEN 1 ELSE 0) - (IF R[a].marker = l THEN 1 ELSE 0)
             /\ Cardinality({b \in Address : R[b].marker = l}) \in Nat
             /\ R[a].marker = l => Cardinality({b \in Address : R[b].marker = l}) > 0
  <2> DEFINE S == {b \in Address : R[b].marker = l}
             T == {b \in Address : R2[b].marker = l}
  <2>1. S \ {a} = T \ {a} /\ (a \in S <=> R[a].marker = l) /\ (a \in T <=> r.marker = l)
    BY <1>1
  <2>2. S \in SUBSET Address /\ T \in SUBSET Address
    OBVIOUS
  <2> HIDE DEF S, T
  <2>3. IsFiniteSet(S) /\ Cardinality(S) \in Nat /\ (S # {} => Cardinality(S) # 0)
    BY <2>2, Finite, FS_EmptySet
  <2>4. Cardinality(T) = Cardinality(S) + (IF a \in T THEN 1 ELSE 0)
                                        - (IF a \in S THEN 1 ELSE 0)
    BY <2>1, <2>2, OneApart
  <2>5. a \in S => Cardinality(S) > 0
    BY <2>3
  <2>6. QED
    BY <2>1, <2>3, <2>4, <2>5 DEF S, T
<1>3. /\ Cardinality({b \in Address : Counted(R2[b])}) =
              Cardinality({b \in Address : Counted(R[b])})
              + (IF Counted(r) THEN 1 ELSE 0) - (IF Counted(R[a]) THEN 1 ELSE 0)
      /\ Cardinality({b \in Address : Counted(R[b])}) \in Nat
      /\ Counted(R[a]) => Cardinality({b \in Address : Counted(R[b])}) > 0
  <2> DEFINE S == {b \in Address : Counted(R[b])}
             T == {b \in Address : Counted(R2[b])}
  <2>1. S \ {a} = T \ {a} /\ (a \in S <=> Counted(R[a])) /\ (a \in T <=> Counted(r))
    BY <1>1
  <2>2. S \in SUBSET Address /\ T \in SUBSET Address
    OBVIOUS
  <2> HIDE DEF S, T
  <2>3. IsFiniteSet(S) /\ Cardinality(S) \in Nat /\ (S # {} => Cardinality(S) # 0)
    BY <2>2, Finite, FS_EmptySet
  <2>4. Cardinality(T) = Cardinality(S) + (IF a \in T THEN 1 ELSE 0)
                                        - (IF a \in S THEN 1 ELSE 0)
    BY <2>1, <2>2, OneApart
  <2>5. a \in S => Cardinality(S) > 0
    BY <2>3
  <2>6. QED
    BY <2>1, <2>3, <2>4, <2>5 DEF S, T
<1>4. QED
  BY <1>2, <1>3 DEF Marked, Marks, R2

(* Counts agree with the records when they are the counts by marker.       *)
LEMMA BalancedMarks ==
  ASSUME NEW s
  PROVE  Balanced(s) <=> s.geo = [l \in Label |-> Marked(s.records, l)] /\ s.corpus = Marks(s.records)
BY DEF Balanced, Marked, Marks

(* Heads and tails of what a task leads to.                                *)
LEMMA JoinedHead ==
  ASSUME NEW s, s \in Seq(Entries(s)), NEW t, t \in Seq(Entries(t)), s # <<>>
  PROVE  /\ s \o t # <<>> /\ Head(s \o t) = Head(s) /\ Tail(s \o t) = Tail(s) \o t
         /\ <<>> \o t = t /\ t \o <<>> = t
<1> DEFINE S == Entries(s) \cup Entries(t)
<1>1. s \in Seq(S) /\ t \in Seq(S)
  BY SeqMonotonic
<1> HIDE DEF S
<1>2. /\ s \o t \in Seq(S) /\ Len(s \o t) = Len(s) + Len(t)
      /\ \A i \in 1..(Len(s) + Len(t)) :
           (s \o t)[i] = IF i <= Len(s) THEN s[i] ELSE t[i - Len(s)]
  BY <1>1, ConcatProperties
<1>3. Len(s) \in Nat /\ Len(s) > 0 /\ Len(t) \in Nat
  BY InSeq
<1>4. s \o t # <<>> /\ Head(s \o t) = Head(s)
  BY <1>2, <1>3, EmptySeq
<1>5. /\ Tail(s) \in Seq(S) /\ Len(Tail(s)) = Len(s) - 1
      /\ \A i \in 1..(Len(s) - 1) : Tail(s)[i] = s[i + 1]
  BY <1>1, HeadTailProperties
<1>6. /\ Tail(s \o t) \in Seq(S) /\ Len(Tail(s \o t)) = Len(s) + Len(t) - 1
      /\ \A i \in 1..(Len(s) + Len(t) - 1) : Tail(s \o t)[i] = (s \o t)[i + 1]
  <2>1. /\ Tail(s \o t) \in Seq(S) /\ Len(Tail(s \o t)) = Len(s \o t) - 1
        /\ \A i \in 1..Len(Tail(s \o t)) : Tail(s \o t)[i] = (s \o t)[i + 1]
    BY <1>2, <1>4, HeadTailProperties
  <2>2. QED
    BY <1>2, <2>1
<1>7. /\ Tail(s) \o t \in Seq(S) /\ Len(Tail(s) \o t) = Len(s) - 1 + Len(t)
      /\ \A i \in 1..(Len(s) - 1 + Len(t)) :
           (Tail(s) \o t)[i] = IF i <= Len(s) - 1 THEN Tail(s)[i] ELSE t[i - (Len(s) - 1)]
  <2>1. /\ Tail(s) \o t \in Seq(S) /\ Len(Tail(s) \o t) = Len(Tail(s)) + Len(t)
        /\ \A i \in 1..(Len(Tail(s)) + Len(t)) :
           (Tail(s) \o t)[i] = IF i <= Len(Tail(s)) THEN Tail(s)[i] ELSE t[i - Len(Tail(s))]
    BY <1>1, <1>5, ConcatProperties
  <2>2. QED
    BY <1>5, <2>1
<1>8. \A i \in 1..(Len(s) + Len(t) - 1) : Tail(s \o t)[i] = (Tail(s) \o t)[i]
  <2>1. SUFFICES ASSUME NEW i \in 1..(Len(s) + Len(t) - 1)
                 PROVE  Tail(s \o t)[i] = (Tail(s) \o t)[i]
    OBVIOUS
  <2>2. /\ i + 1 \in 1..(Len(s) + Len(t)) /\ i \in 1..(Len(s) - 1 + Len(t))
        /\ (i + 1) - Len(s) = i - (Len(s) - 1) /\ (i + 1 <= Len(s) <=> i <= Len(s) - 1)
    BY <1>3
  <2>3. Tail(s \o t)[i] = IF i <= Len(s) - 1 THEN s[i + 1] ELSE t[i - (Len(s) - 1)]
    BY <1>2, <1>6, <2>2
  <2>4. (Tail(s) \o t)[i] = IF i <= Len(s) - 1 THEN s[i + 1] ELSE t[i - (Len(s) - 1)]
    BY <1>3, <1>5, <1>7, <2>2
  <2>5. QED
    BY <2>3, <2>4
<1>9. Tail(s \o t) = Tail(s) \o t
  <2>1. Len(Tail(s \o t)) = Len(Tail(s) \o t) /\ Len(Tail(s \o t)) = Len(s) + Len(t) - 1
    BY <1>3, <1>6, <1>7
  <2>2. QED
    BY <1>6, <1>7, <1>8, <2>1, SeqEqual
<1>10. <<>> \o t = t /\ t \o <<>> = t
  BY <1>1, ConcatEmptySeq
<1>11. QED
  BY <1>4, <1>9, <1>10

(* No tasks before or after others make no difference.                     *)
LEMMA NoTasks == ASSUME NEW t, t \in Seq(Entries(t)) PROVE <<>> \o t = t /\ t \o <<>> = t
BY ConcatEmptySeq

(* What the changes at the head of a request leave.                        *)
LEMMA AfterQuiet ==
  ASSUME NEW todo, \A t \in Entries(todo) : ~Loud(t), NEW s
  PROVE  After(todo, s) = s
<1>1. \A i, x : AppliedAt(todo, i, x) = x
  BY DEF AppliedAt, Applied, Loud, Entries
<1>2. QED
  BY <1>1 DEF After

(* Doing the first of the changes leaves what is left to the others.       *)
LEMMA AfterTail ==
  ASSUME NEW todo, todo \in Seq(Entries(todo)), todo # <<>>, Front(todo), NEW s
  PROVE  /\ After(todo, s) = After(Tail(todo), Applied(Head(todo), s))
         /\ Front(Tail(todo))
<1>1. /\ 1 \in DOMAIN todo /\ Head(todo) = todo[1]
      /\ DOMAIN todo = 1..Len(todo) /\ Len(todo) \in Nat
      /\ DOMAIN Tail(todo) = 1..(Len(todo) - 1)
      /\ \A i \in DOMAIN Tail(todo) : i + 1 \in DOMAIN todo /\ Tail(todo)[i] = todo[i + 1]
  BY RestOf, InSeq
<1>2. \A x : AppliedAt(Tail(todo), 1, x) = AppliedAt(todo, 2, x)
  BY <1>1 DEF AppliedAt
<1>3. \A x : AppliedAt(Tail(todo), 2, x) = AppliedAt(todo, 3, x)
  BY <1>1 DEF AppliedAt
<1>4. \A x : AppliedAt(Tail(todo), 3, x) = x
  <2>1. 3 \in DOMAIN Tail(todo) => ~Loud(Tail(todo)[3])
    BY <1>1 DEF Front
  <2>2. QED
    BY <2>1 DEF AppliedAt, Applied, Loud
<1>5. \A x : AppliedAt(todo, 1, x) = Applied(Head(todo), x)
  BY <1>1 DEF AppliedAt
<1>6. Front(Tail(todo))
  BY <1>1 DEF Front
<1>7. QED
  BY <1>2, <1>3, <1>4, <1>5, <1>6 DEF After

-----------------------------------------------------------------------------
(* What a request has left.                                                *)

(* What a request has left when its first task is done is in order.        *)
LEMMA TodoFacts ==
  ASSUME NEW todo, TodoOK(todo), todo # <<>>
  PROVE  /\ todo \in Seq(Entries(todo)) /\ Tail(todo) \in Seq(Entries(Tail(todo)))
         /\ Entries(todo) = {Head(todo)} \cup Entries(Tail(todo))
         /\ Head(todo) \in Entries(todo) /\ 1 \in DOMAIN todo /\ Head(todo) = todo[1]
         /\ InOrder(Tail(todo)) /\ Front(Tail(todo))
         /\ \A u \in Entries(Tail(todo)) : MayPrecede(Head(todo), u)
         /\ ~Loud(Head(todo)) => \A u \in Entries(todo) : ~Loud(u)
         /\ Head(todo).op # "publish" => \A u \in Entries(todo) : u.op # "publish"
<1>1. /\ todo \in Seq(Entries(todo)) /\ InOrder(todo) /\ Front(todo) /\ Published(todo)
  BY DEF TodoOK
<1>2. /\ 1 \in DOMAIN todo /\ Head(todo) = todo[1] /\ Head(todo) \in Entries(todo)
      /\ Tail(todo) \in Seq(Entries(Tail(todo)))
      /\ DOMAIN Tail(todo) = 1..(Len(todo) - 1)
      /\ \A i \in DOMAIN Tail(todo) : i + 1 \in DOMAIN todo /\ Tail(todo)[i] = todo[i + 1]
      /\ Entries(todo) = {Head(todo)} \cup Entries(Tail(todo))
  BY <1>1, RestOf
<1>3. Len(todo) \in Nat
  BY <1>1, InSeq
<1>4. InOrder(Tail(todo))
  <2>1. \A i, j \in DOMAIN Tail(todo) : i < j => i + 1 < j + 1
    BY <1>2
  <2>2. QED
    BY <1>1, <1>2, <2>1 DEF InOrder
<1>5. Front(Tail(todo))
  BY <1>1, <1>2 DEF Front
<1>6. \A u \in Entries(Tail(todo)) : MayPrecede(Head(todo), u)
  <2>1. SUFFICES ASSUME NEW i \in DOMAIN Tail(todo)
                 PROVE  MayPrecede(Head(todo), Tail(todo)[i])
    BY DEF Entries
  <2>2. 1 < i + 1
    BY <1>2
  <2>3. QED
    BY <1>1, <1>2, <2>2 DEF InOrder
<1>7. ~Loud(Head(todo)) => \A u \in Entries(todo) : ~Loud(u)
  BY <1>2, <1>6 DEF MayPrecede
<1>8. Head(todo).op # "publish" => \A u \in Entries(todo) : u.op # "publish"
  <2>1. ASSUME Has(todo, {"publish"}) PROVE todo[1].op = "publish"
    <3>1. \/ todo = <<Publish("corpus", todo[1].value, todo[1].whole),
                     Publish("geo", todo[2].value, todo[1].whole), Set("staged", NoStaged)>>
          \/ todo = <<Publish("geo", todo[1].value, todo[1].whole), Set("staged", NoStaged)>>
      BY <1>1, <2>1 DEF Published
    <3>2. \/ todo[1] = Publish("corpus", todo[1].value, todo[1].whole)
          \/ todo[1] = Publish("geo", todo[1].value, todo[1].whole)
      BY <3>1, Written
    <3>3. QED
      BY <3>2 DEF Publish
  <2>2. QED
    BY <1>2, <2>1 DEF Has
<1>9. QED
  BY <1>1, <1>2, <1>4, <1>5, <1>6, <1>7, <1>8

(* Tasks in order, followed by tasks that each of them may precede.        *)
LEMMA OrderJoined ==
  ASSUME NEW s, s \in Seq(Entries(s)), NEW t, t \in Seq(Entries(t)),
         InOrder(s), InOrder(t),
         \A x \in Entries(s), y \in Entries(t) : MayPrecede(x, y)
  PROVE  InOrder(s \o t)
<1>1. /\ Len(s) \in Nat /\ DOMAIN s = 1..Len(s)
      /\ Len(t) \in Nat /\ DOMAIN t = 1..Len(t)
  BY InSeq
<1>2. /\ DOMAIN (s \o t) = 1..(Len(s) + Len(t))
      /\ \A i \in DOMAIN s : (s \o t)[i] = s[i]
      /\ \A i \in DOMAIN (s \o t) : i > Len(s) => i - Len(s) \in DOMAIN t /\ (s \o t)[i] = t[i - Len(s)]
  BY JoinedSeq
<1>3. SUFFICES ASSUME NEW i \in DOMAIN (s \o t), NEW j \in DOMAIN (s \o t), i < j
               PROVE  MayPrecede((s \o t)[i], (s \o t)[j])
  BY DEF InOrder
<1>4. CASE j <= Len(s)
  <2>1. i \in DOMAIN s /\ j \in DOMAIN s
    BY <1>1, <1>2, <1>3, <1>4
  <2>2. QED
    BY <1>2, <1>3, <2>1 DEF InOrder
<1>5. CASE i > Len(s)
  <2>1. i - Len(s) \in DOMAIN t /\ j - Len(s) \in DOMAIN t /\ i - Len(s) < j - Len(s)
    BY <1>1, <1>2, <1>3, <1>5
  <2>2. (s \o t)[i] = t[i - Len(s)] /\ (s \o t)[j] = t[j - Len(s)]
    BY <1>1, <1>2, <1>3, <1>5
  <2>3. QED
    BY <2>1, <2>2 DEF InOrder
<1>6. CASE i <= Len(s) /\ j > Len(s)
  <2>1. i \in DOMAIN s
    BY <1>1, <1>2, <1>6
  <2>2. (s \o t)[i] = s[i] /\ (s \o t)[j] = t[j - Len(s)] /\ j - Len(s) \in DOMAIN t
    BY <1>2, <1>6, <2>1
  <2>3. QED
    BY <2>1, <2>2 DEF Entries
<1>7. QED
  BY <1>1, <1>2, <1>4, <1>5, <1>6

(* Changes of counts stay in front when none follow.                       *)
LEMMA FrontJoined ==
  ASSUME NEW s, s \in Seq(Entries(s)), NEW t, t \in Seq(Entries(t)),
         Front(s), \A y \in Entries(t) : ~Loud(y)
  PROVE  Front(s \o t)
<1>1. /\ Len(s) \in Nat /\ DOMAIN s = 1..Len(s)
      /\ Len(t) \in Nat /\ DOMAIN t = 1..Len(t)
  BY InSeq
<1>2. /\ DOMAIN (s \o t) = 1..(Len(s) + Len(t))
      /\ \A i \in DOMAIN s : (s \o t)[i] = s[i]
      /\ \A i \in DOMAIN (s \o t) : i > Len(s) => i - Len(s) \in DOMAIN t /\ (s \o t)[i] = t[i - Len(s)]
  BY JoinedSeq
<1>3. SUFFICES ASSUME NEW i \in DOMAIN (s \o t), Loud((s \o t)[i]) PROVE i <= 3
  BY DEF Front
<1>4. CASE i <= Len(s)
  BY <1>1, <1>2, <1>3, <1>4 DEF Front
<1>5. CASE i > Len(s)
  BY <1>2, <1>3, <1>5 DEF Entries
<1>6. QED
  BY <1>1, <1>2, <1>4, <1>5

(* The first task is replaced by what it leads to.                         *)
LEMMA NewTodo ==
  ASSUME NEW todo, TodoOK(todo), todo # <<>>, Head(todo).op # "publish",
         NEW kind \in Kind, \A t \in Entries(todo) : Fits(kind, t),
         NEW tasks, tasks \in Seq(Entries(tasks)),
         \A t \in Entries(tasks) : Fits(kind, t) /\ t.op # "publish",
         InOrder(tasks), Front(tasks),
         tasks = <<>> \/ ~Loud(Head(todo)),
         \A t \in Entries(tasks), u \in Entries(Tail(todo)) : MayPrecede(t, u)
  PROVE  /\ TodoOK(tasks \o Tail(todo))
         /\ Entries(tasks \o Tail(todo)) = Entries(tasks) \cup Entries(Tail(todo))
         /\ \A t \in Entries(tasks \o Tail(todo)) : Fits(kind, t)
<1> DEFINE rest == Tail(todo)
           new == tasks \o rest
<1>1. /\ rest \in Seq(Entries(rest)) /\ Entries(todo) = {Head(todo)} \cup Entries(rest)
      /\ InOrder(rest) /\ Front(rest)
      /\ ~Loud(Head(todo)) => \A u \in Entries(todo) : ~Loud(u)
      /\ \A u \in Entries(todo) : u.op # "publish"
  BY TodoFacts
<1> HIDE DEF rest
<1>2. new \in Seq(Entries(new)) /\ Entries(new) = Entries(tasks) \cup Entries(rest)
  BY <1>1, JoinedSeq
<1>3. InOrder(new)
  BY <1>1, OrderJoined DEF rest
<1>4. Front(new)
  <2>1. CASE tasks = <<>>
    BY <1>1, <2>1, NoTasks
  <2>2. CASE ~Loud(Head(todo))
    BY <1>1, <2>2, FrontJoined
  <2>3. QED
    BY <2>1, <2>2
<1> HIDE DEF new
<1>5. \A t \in Entries(new) : Fits(kind, t) /\ t.op # "publish"
  BY <1>1, <1>2
<1>6. Published(new)
  BY <1>5 DEF Published, Has
<1>7. TodoOK(new)
  BY <1>2, <1>3, <1>4, <1>5, <1>6 DEF TodoOK
<1>8. QED
  BY <1>2, <1>5, <1>7 DEF new, rest

(* The tasks that neither walk, nor use or open a batch.                   *)
Plain(t) == t.op \notin {"publish", "resume", "scan", "flush", "screen", "contact"}

(* A request with other tasks, about to begin the first of them.           *)
Leaves(q, todo, m) ==
  /\ DOMAIN m = DOMAIN q /\ m.todo = todo /\ m.read = <<>>
  /\ m.batch = q.batch /\ m.walk = q.walk /\ m.alone = q.alone

(* What Continue leaves of a request.                                      *)
Continuing(q, tasks, m) ==
  /\ HandlerOK(m)
  /\ m.todo = tasks \o Tail(q.todo) /\ m.read = <<>>
  /\ m.batch = q.batch /\ m.walk = q.walk /\ m.alone = q.alone
  /\ Entries(m.todo) = Entries(tasks) \cup Entries(Tail(q.todo))
  /\ m.todo \in Seq(Entries(m.todo))

(* A request whose first task is replaced by others of its kind is typed.  *)
LEMMA Continued ==
  ASSUME NEW q, HandlerOK(q), q.todo # <<>>,
         Head(q.todo).op \notin {"publish", "resume", "scan", "flush", "screen"},
         NEW kind \in Kind, \A t \in Entries(q.todo) : Fits(kind, t),
         NEW tasks, tasks \in Seq(Entries(tasks)),
         \A t \in Entries(tasks) : Fits(kind, t) /\ Plain(t),
         InOrder(tasks), Front(tasks),
         tasks = <<>> \/ ~Loud(Head(q.todo)),
         \A t \in Entries(tasks), u \in Entries(Tail(q.todo)) : MayPrecede(t, u),
         NEW m, Leaves(q, tasks \o Tail(q.todo), m)
  PROVE  /\ Continuing(q, tasks, m) /\ HandlerOK(m)
         /\ Entries(m.todo) = Entries(tasks) \cup Entries(Tail(q.todo))
         /\ Entries(q.todo) = {Head(q.todo)} \cup Entries(Tail(q.todo))
         /\ Has(m.todo, {"flush"}) = Has(q.todo, {"flush"})
         /\ m.todo \in Seq(Entries(m.todo)) /\ \A t \in Entries(m.todo) : Fits(kind, t)
         /\ ~Loud(Head(q.todo)) /\ (\A t \in Entries(tasks) : ~Loud(t)) =>
              \A t \in Entries(m.todo) : ~Loud(t)
<1>1. /\ DOMAIN m = {"todo", "read", "batch", "walk", "alone"}
      /\ m.todo = tasks \o Tail(q.todo) /\ m.read = <<>>
      /\ m.batch = q.batch /\ m.walk = q.walk /\ m.alone = q.alone
  BY DEF HandlerOK, Leaves
<1>2. TodoOK(q.todo) /\ BatchOK(q) /\ WalkOK(q) /\ q.alone \in BOOLEAN
  BY DEF HandlerOK
<1>3. /\ TodoOK(m.todo)
      /\ Entries(m.todo) = Entries(tasks) \cup Entries(Tail(q.todo))
  <2>1. \A t \in Entries(tasks) : Fits(kind, t) /\ t.op # "publish"
    BY DEF Plain
  <2>2. Head(q.todo).op # "publish"
    OBVIOUS
  <2>3. /\ TodoOK(tasks \o Tail(q.todo))
        /\ Entries(tasks \o Tail(q.todo)) = Entries(tasks) \cup Entries(Tail(q.todo))
    BY <1>2, <2>1, <2>2, NewTodo
  <2>4. QED
    BY <1>1, <2>3
<1>4. /\ Entries(q.todo) = {Head(q.todo)} \cup Entries(Tail(q.todo))
      /\ ~Loud(Head(q.todo)) => \A u \in Entries(q.todo) : ~Loud(u)
  BY <1>2, TodoFacts
<1>5. /\ Has(m.todo, {"flush"}) = Has(q.todo, {"flush"})
      /\ Has(m.todo, {"screen"}) = Has(q.todo, {"screen"})
      /\ Has(m.todo, {"resume"}) = Has(q.todo, {"resume"})
      /\ Has(m.todo, {"resume", "scan"}) = Has(q.todo, {"resume", "scan"})
      /\ Has(m.todo, {"contact"}) => Has(q.todo, {"contact"})
  BY <1>3, <1>4 DEF Has, Plain
<1>6. BatchOK(m)
  BY <1>1, <1>2, <1>5 DEF BatchOK
<1>7. WalkOK(m)
  <2>1. ASSUME q.walk.on
        PROVE  Entries(q.walk.kept) \subseteq {q.walk.base[j] : j \in q.walk.start..(Reached(m) - 1)}
    <3>1. /\ q.walk.start \in Nat /\ q.walk.pos \in Nat
          /\ Entries(q.walk.kept) \subseteq {q.walk.base[j] : j \in q.walk.start..(Reached(q) - 1)}
      BY <1>2, <2>1 DEF WalkOK, Walk
    <3>2. Reached(q) = q.walk.pos
      BY <3>1 DEF Reached
    <3>3. Reached(m) = q.walk.pos \/ Reached(m) = q.walk.pos + 1
      <4>1. Has(m.todo, {"resume", "scan"})
        BY <1>2, <1>5, <2>1 DEF WalkOK
      <4>2. m.todo # <<>>
        BY <4>1, Written DEF Has
      <4>3. Head(m.todo) \in Entries(m.todo)
        BY <1>3, <4>2, TodoFacts
      <4>4. Fits(kind, Head(m.todo))
        BY <1>3, <1>4, <4>3
      <4>5. Head(m.todo).op = "scan" => Head(m.todo).step \in {0, 1}
        BY <4>4 DEF Fits, Kind, Recording, Forgetting, Sweeping, Recounting, Deleting
      <4>6. PICK n \in {0, 1} : n = IF Head(m.todo).op = "scan" THEN Head(m.todo).step ELSE 0
        BY <4>5
      <4>7. Reached(m) = q.walk.pos + n
        BY <1>1, <4>6 DEF Reached
      <4>8. QED
        BY <3>1, <4>7
    <3>4. ASSUME NEW j \in q.walk.start..(q.walk.pos - 1)
          PROVE  j \in q.walk.start..(Reached(m) - 1)
      <4>1. Reached(m) \in Int /\ q.walk.pos <= Reached(m)
        BY <3>1, <3>3
      <4>2. QED
        BY <3>1, <4>1
    <3>5. QED
      BY <3>1, <3>2, <3>4
  <2>2. QED
    BY <1>1, <1>2, <1>5, <2>1 DEF WalkOK
<1>8. ReadOK(m)
  BY <1>1 DEF ReadOK, Nothing
<1>9. HandlerOK(m)
  BY <1>1, <1>2, <1>3, <1>6, <1>7, <1>8 DEF HandlerOK
<1>10. /\ m.todo \in Seq(Entries(m.todo)) /\ \A t \in Entries(m.todo) : Fits(kind, t)
       /\ ~Loud(Head(q.todo)) /\ (\A t \in Entries(tasks) : ~Loud(t)) =>
            \A t \in Entries(m.todo) : ~Loud(t)
  BY <1>3, <1>4 DEF TodoOK
<1>11. Continuing(q, tasks, m)
  BY <1>1, <1>3, <1>9, <1>10 DEF Continuing
<1>12. QED
  BY <1>3, <1>4, <1>5, <1>9, <1>10, <1>11

(* Which kind of request a task belongs to, and what it carries.           *)
LEMMA OpKinds ==
  ASSUME NEW kind \in Kind, NEW t, Fits(kind, t)
  PROVE  /\ t.op \in {"flush", "screen", "contact"} => kind = "recording"
         /\ t.op = "put" => kind # "recounting"
         /\ t.op = "put" /\ t.record # NoRecord => kind = "recording"
         /\ t.op = "update" => kind # "recounting"
         /\ t.op = "update" /\ t.key = "index" => kind = "recording"
         /\ t.op = "update" /\ t.key = "attempts" => kind \in {"recording", "forgetting"}
         /\ t.op \in {"purge", "match", "forgetHosts", "forget", "purgeAttempts", "answer"} => kind = "forgetting"
         /\ t.op \in {"sweep", "resume", "scan"} => kind = "sweeping"
         /\ t.op = "set" => t.key \in {"index", "cursor", "staged"}
         /\ t.op = "set" /\ t.key = "index" => kind \in {"forgetting", "sweeping"}
         /\ t.op = "set" /\ t.key = "cursor" => kind = "sweeping"
         /\ t.op = "set" /\ t.key = "staged" => kind = "recounting"
         /\ t.op = "recount" => kind \in {"sweeping", "recounting"}
         /\ t.op \in {"compare", "page", "publish"} => kind = "recounting"
<1>1. CASE kind = "recording"
  BY <1>1 DEF Fits, Recording
<1>2. CASE kind = "forgetting"
  BY <1>2 DEF Fits, Forgetting, Deleting
<1>3. CASE kind = "sweeping"
  BY <1>3 DEF Fits, Sweeping, Deleting
<1>4. CASE kind = "recounting"
  BY <1>4 DEF Fits, Recounting
<1>5. QED
  BY <1>1, <1>2, <1>3, <1>4 DEF Kind

(* What each task carries.                                                 *)
LEMMA TaskTypes ==
  ASSUME NEW kind \in Kind, NEW t, Fits(kind, t)
  PROVE  /\ t.op = "screen" => t.batch \in Seq(Contact)
         /\ t.op = "contact" => t.contact \in Contact
         /\ t.op = "put" => t.a \in Address /\ t.seen \in BOOLEAN
         /\ t.op = "put" /\ kind = "recording" =>
              t.record \in [label : Label, marker : Label \cup {"none"}]
         /\ t.op = "put" /\ kind # "recording" => t.record = NoRecord /\ t.seen = TRUE
         /\ t.op = "update" => Change(t)
         /\ t.op = "update" /\ t.key = "attempts" /\ kind # "recording" => t.change.add = {}
         /\ t.op = "match" => /\ t.rest \in Index /\ t.doomed \in Index
                              /\ t.entries \subseteq Ruled /\ t.whole \in BOOLEAN
         /\ t.op = "answer" => t.whole \in BOOLEAN
         /\ t.op = "forgetHosts" => t.ips \in Index
         /\ t.op = "forget" => t.a \in Address
         /\ t.op = "purgeAttempts" => t.entries \subseteq Address
         /\ t.op = "scan" => t.step \in {0, 1}
         /\ t.op = "set" /\ t.key = "index" => t.value \in Index
         /\ t.op = "set" /\ t.key = "cursor" => t.value \in Address \cup {NoAddress}
         /\ t.op = "set" /\ t.key = "staged" => t.value \in Staged
         /\ t.op \in {"recount", "compare", "page"} => t.limit \in Nat \ {0}
         /\ t.op = "compare" => t.index \in Index
         /\ t.op = "page" => t.staged \in Staged
         /\ t.op = "publish" =>
              \/ t.key = "corpus" /\ t.value \in Nat /\ t.whole \in BOOLEAN
              \/ t.key = "geo" /\ t.value \in [Label -> Nat] /\ t.whole \in BOOLEAN
<1>1. CASE kind = "recording"
  BY <1>1 DEF Fits, Recording
<1>2. CASE kind = "forgetting"
  BY <1>2 DEF Fits, Forgetting, Deleting
<1>3. CASE kind = "sweeping"
  BY <1>3 DEF Fits, Sweeping, Deleting
<1>4. CASE kind = "recounting"
  BY <1>4 DEF Fits, Recounting
<1>5. QED
  BY <1>1, <1>2, <1>3, <1>4 DEF Kind

(* A change of no count is a change.                                       *)
LEMMA NoDeltaType == NoDelta \in [Label -> Int] /\ NoDelta \in [Label -> Nat] /\ \A l \in Label : NoDelta[l] = 0
BY DEF NoDelta

(* A change of one count is a change.                                      *)
LEMMA OneType ==
  ASSUME NEW l \in Label, NEW n \in Int
  PROVE  /\ One(l, n) \in [Label -> Int]
         /\ \A k \in Label : One(l, n)[k] = IF k = l THEN n ELSE 0
BY NoDeltaType DEF One

(* Nothing left to do is in order.                                         *)
LEMMA NothingLeft ==
  /\ TodoOK(<<>>) /\ InOrder(<<>>) /\ Front(<<>>)
  /\ \A ops : Has(<<>>, ops) = FALSE
<1>1. InOrder(<<>>) /\ Front(<<>>) /\ \A ops : Has(<<>>, ops) = FALSE
  BY Written DEF InOrder, Front, Has
<1>2. \A t \in Entries(<<>>) : Fits("recording", t)
  BY Written
<1>3. "recording" \in Kind
  BY DEF Kind
<1>4. TodoOK(<<>>)
  BY <1>1, <1>2, <1>3, Written DEF TodoOK, Published
<1>5. QED
  BY <1>1, <1>4

(* A request that is not at work is typed.                                 *)
LEMMA IdleOK == HandlerOK(Idle) /\ Idle.todo = <<>> /\ Idle.walk.on = FALSE /\ Idle.batch = NoBatch
<1>1. /\ DOMAIN Idle = {"todo", "read", "batch", "walk", "alone"}
      /\ Idle.todo = <<>> /\ Idle.read = Nothing /\ Idle.batch = NoBatch /\ Idle.walk = NoWalk
      /\ Idle.alone = TRUE
  BY DEF Idle
<1>2. <<>> \in Index
  BY Written DEF Index
<1>3. /\ NoBatch \in Batch /\ NoBatch.corpus = 0
      /\ NoBatch.rekeyed = FALSE /\ NoBatch.geo = NoDelta
  BY <1>2, NoDeltaType DEF NoBatch, Batch
<1>4. NoWalk \in Walk /\ NoWalk.on = FALSE
  BY <1>2 DEF NoWalk, Walk
<1>5. BatchOK(Idle) /\ WalkOK(Idle) /\ ReadOK(Idle)
  BY <1>1, <1>3, <1>4, NothingLeft DEF BatchOK, WalkOK, ReadOK
<1>6. QED
  BY <1>1, <1>4, <1>5, NothingLeft DEF HandlerOK

(* What the invariant says of a request at work.                           *)
LEMMA Before ==
  ASSUME CorpusInv, NEW p \in Active, NEW q, q = requests[p]
  PROVE  /\ HandlerOK(q) /\ p \in Request /\ q.todo # <<>> /\ TodoOK(q.todo) /\ q.alone \in BOOLEAN
         /\ \E kind \in Kind : \A t \in Entries(q.todo) : Fits(kind, t)
         /\ ReadOK(q) /\ BatchOK(q) /\ WalkOK(q)
         /\ records \in [Address -> Record \cup {NoRecord}] /\ kv \in Store
         /\ overdue \subseteq Held /\ rules \subseteq Ruled /\ events \in Nat
         /\ clean \in BOOLEAN /\ lossless \in BOOLEAN
         /\ lossless \/ q.alone =>
              /\ Active = {p}
              /\ q.read # Nothing => q.read[1] = kv[Head(q.todo).key]
         /\ clean => /\ q.alone /\ Active = {p}
                     /\ \A a \in Address : records[a].marker # "legacy"
                     /\ Balanced(WithBatch(q, After(q.todo, Now)))
         /\ q.alone => RecountOf(q)
         /\ lossless /\ Cardinality(Address) <= MaxIndex => ListedInv(q) /\ RulesInv(q)
<1>1. /\ p \in Request /\ HandlerOK(q) /\ q.todo # <<>>
  BY DEF CorpusInv, TypeOK, Active
<1>2. TodoOK(q.todo) /\ q.alone \in BOOLEAN /\ ReadOK(q) /\ BatchOK(q) /\ WalkOK(q)
  BY <1>1 DEF HandlerOK
<1>3. \E kind \in Kind : \A t \in Entries(q.todo) : Fits(kind, t)
  BY <1>2 DEF TodoOK
<1>4. lossless \/ q.alone =>
              /\ Active = {p}
              /\ q.read # Nothing => q.read[1] = kv[Head(q.todo).key]
  BY DEF CorpusInv, AloneInv, Undisturbed, Head1
<1>5. clean => q.alone
  BY DEF CorpusInv, AloneInv
<1>6. clean => /\ \A a \in Address : records[a].marker # "legacy"
               /\ Balanced(WithBatch(q, After(q.todo, Now)))
  BY DEF CorpusInv, BalanceInv
<1>7. q.alone => RecountOf(q)
  BY DEF CorpusInv, RecountInv
<1>8. lossless /\ Cardinality(Address) <= MaxIndex => ListedInv(q) /\ RulesInv(q)
  BY DEF CorpusInv, LosslessInv
<1>9. /\ records \in [Address -> Record \cup {NoRecord}] /\ kv \in Store
      /\ overdue \subseteq Held /\ rules \subseteq Ruled /\ events \in Nat
      /\ clean \in BOOLEAN /\ lossless \in BOOLEAN
  BY DEF CorpusInv, TypeOK
<1>10. QED
  BY <1>1, <1>2, <1>3, <1>4, <1>5, <1>6, <1>7, <1>8, <1>9

(* A step of one request keeps the invariant if what it leaves of that     *)
(* request agrees with what it makes of the stores.                        *)
LEMMA StepHolds ==
  ASSUME CorpusInv, NEW p \in Active, NEW m, HandlerOK(m), m.alone = requests[p].alone,
         requests' = [requests EXCEPT ![p] = IF m.todo = <<>> THEN Idle ELSE m],
         records' \in [Address -> Record \cup {NoRecord}], kv' \in Store,
         overdue' \subseteq Held', rules' \subseteq Ruled,
         events' \in Nat, clean' \in BOOLEAN, lossless' = lossless,
         clean' => clean \/ m.alone,
         lossless \/ m.alone =>
           (m.todo # <<>> /\ m.read # Nothing => m.read[1] = kv'[Head(m.todo).key]),
         clean' => /\ \A a \in Address : records'[a].marker # "legacy"
                   /\ Balanced(WithBatch(m, After(m.todo, Now)))',
         m.alone => RecountOf(m)',
         lossless /\ Cardinality(Address) <= MaxIndex => ListedInv(m)' /\ RulesInv(m)'
  PROVE  CorpusInv'
<1>1. /\ p \in Request /\ m.alone \in BOOLEAN /\ lossless \in BOOLEAN
      /\ lossless \/ m.alone => Active = {p}
      /\ clean => m.alone
      /\ DOMAIN requests = Request
      /\ \A r \in Request : HandlerOK(requests[r])
  BY Before DEF CorpusInv, TypeOK
<1>2. /\ requests'[p] = IF m.todo = <<>> THEN Idle ELSE m
      /\ \A r \in Request : r # p => requests'[r] = requests[r]
      /\ DOMAIN requests' = Request
  BY <1>1
<1>3. TypeOK'
  <2>1. \A r \in Request : HandlerOK(requests'[r])
    BY <1>1, <1>2, IdleOK
  <2>2. QED
    BY <1>1, <1>2, <2>1 DEF TypeOK
<1>4. Active' = IF m.todo = <<>> THEN Active \ {p} ELSE Active
  BY <1>1, <1>2, IdleOK DEF Active
<1>5. ASSUME NEW r \in Active', Undisturbed(r)'
      PROVE  r = p /\ m.todo # <<>> /\ requests'[r] = m /\ Active' = {p}
  <2>1. r \in Active
    BY <1>4
  <2>2. r = p
    <3>1. CASE r # p
      <4>1. Undisturbed(r)
        BY <1>2, <1>5, <2>1, <3>1 DEF Undisturbed, Active
      <4>2. QED
        BY <2>1, <3>1, <4>1 DEF CorpusInv, AloneInv
    <3>2. QED
      BY <3>1
  <2>3. m.todo # <<>> /\ requests'[r] = m
    BY <1>2, <1>4, <2>2
  <2>4. lossless \/ m.alone
    BY <1>5, <2>3 DEF Undisturbed
  <2>5. QED
    BY <1>1, <1>4, <2>2, <2>3, <2>4
<1>6. clean' => m.alone /\ Active = {p}
  BY <1>1
<1>7. AloneInv'
  <2>1. clean' => \A r \in Active' : requests'[r].alone
    BY <1>2, <1>4, <1>6
  <2>2. \A r \in Active' : Undisturbed(r)' =>
         /\ Active' = {r}
         /\ requests'[r].read # Nothing => requests'[r].read[1] = kv'[Head1(r)'.key]
    <3>1. SUFFICES ASSUME NEW r \in Active', Undisturbed(r)'
                   PROVE  /\ Active' = {r}
                          /\ requests'[r].read # Nothing =>
                               requests'[r].read[1] = kv'[Head1(r)'.key]
      OBVIOUS
    <3>2. lossless \/ m.alone
      BY <1>5, <3>1 DEF Undisturbed
    <3>3. QED
      BY <1>5, <3>1, <3>2 DEF Head1
  <2>3. QED
    BY <2>1, <2>2 DEF AloneInv
<1>8. BalanceInv'
  <2>1. SUFFICES ASSUME clean'
                 PROVE  /\ \A a \in Address : records'[a].marker # "legacy"
                        /\ Active' = {} => Balanced(Now)'
                        /\ \A r \in Active' :
                             Balanced(WithBatch(requests[r], After(requests[r].todo, Now)))'
    BY DEF BalanceInv
  <2>2. CASE m.todo = <<>>
    <3>1. WithBatch(m, After(m.todo, Now))' = Now'
      <4>1. After(<<>>, Now') = Now'
        BY AfterQuiet, Written
      <4>2. QED
        BY <2>2, <4>1, NothingLeft DEF WithBatch
    <3>2. Balanced(Now)'
      BY <2>1, <3>1 DEF Balanced
    <3>3. QED
      BY <1>4, <1>6, <2>1, <2>2, <3>2
  <2>3. CASE m.todo # <<>>
    <3>1. Active' = {p} /\ requests'[p] = m
      BY <1>2, <1>4, <1>6, <2>1, <2>3
    <3>2. QED
      BY <2>1, <3>1
  <2>4. QED
    BY <2>2, <2>3
<1>9. RecountInv'
  <2>1. SUFFICES ASSUME NEW r \in Active', requests'[r].alone PROVE RecountOf(requests[r])'
    BY DEF RecountInv
  <2>2. requests'[r] = m /\ m.alone
    BY <1>5, <2>1 DEF Undisturbed
  <2>3. QED
    BY <2>2
<1>10. LosslessInv'
  <2>1. SUFFICES ASSUME lossless', Cardinality(Address) <= MaxIndex
                 PROVE  /\ Active' = {} => /\ Held' \subseteq Entries(kv'.index)
                                           /\ (Held' \cup kv'.attempts) \cap rules' = {}
                        /\ \A r \in Active' : ListedInv(requests[r])' /\ RulesInv(requests[r])'
    BY DEF LosslessInv
  <2>2. ListedInv(m)' /\ RulesInv(m)' /\ Active = {p}
    BY <1>1, <2>1
  <2>3. CASE m.todo = <<>>
    <3>1. Entries(m.todo) = {} /\ Has(m.todo, {"flush"}) = FALSE
      BY <2>3, Written, NothingLeft
    <3>2. Coming(m) = {}
      BY <3>1 DEF Coming
    <3>3. Held' \subseteq Entries(kv'.index)
      BY <2>2, <3>2 DEF ListedInv
    <3>4. (Held' \cup kv'.attempts) \cap rules' = {}
      BY <2>2, <3>1 DEF RulesInv
    <3>5. Active' = {}
      BY <1>4, <2>2, <2>3
    <3>6. QED
      BY <3>3, <3>4, <3>5
  <2>4. CASE m.todo # <<>>
    <3>1. Active' = {p} /\ requests'[p] = m
      BY <1>2, <1>4, <2>2, <2>4
    <3>2. QED
      BY <2>2, <3>1
  <2>5. QED
    BY <2>3, <2>4
<1>11. QED
  BY <1>3, <1>7, <1>8, <1>9, <1>10 DEF CorpusInv

(* What the tasks of a request say of it, by its kind.                     *)
LEMMA KindFacts ==
  ASSUME NEW kind \in Kind, NEW q, q.todo \in Seq(Entries(q.todo)),
         \A t \in Entries(q.todo) : Fits(kind, t)
  PROVE  /\ kind # "recording" =>
              /\ Coming(q) = {} /\ Arriving(q.todo) = {}
              /\ Has(q.todo, {"flush"}) = FALSE /\ Has(q.todo, {"screen"}) = FALSE
              /\ Has(q.todo, {"contact"}) = FALSE
              /\ \A t \in Entries(q.todo) : \A a : ~Brings(t, a)
         /\ kind # "sweeping" => /\ Has(q.todo, {"resume", "scan"}) = FALSE
                                 /\ Has(q.todo, {"resume"}) = FALSE
         /\ kind \notin {"forgetting", "sweeping"} =>
              \A t \in Entries(q.todo) : ~(t.op = "set" /\ t.key = "index")
         /\ kind # "recounting" => RecountOf(q) /\ RecountOf(q)'
<1>1. kind # "recording" =>
              /\ Has(q.todo, {"flush"}) = FALSE /\ Has(q.todo, {"screen"}) = FALSE
              /\ Has(q.todo, {"contact"}) = FALSE
              /\ \A t \in Entries(q.todo) : ~(t.op = "put" /\ t.record # NoRecord)
              /\ \A t \in Entries(q.todo) : ~(t.op = "update" /\ t.key = "index")
              /\ \A t \in Entries(q.todo) : t.op # "contact"
              /\ \A t \in Entries(q.todo) : t.op = "update" /\ t.key = "attempts" => t.change.add = {}
  <2>1. kind # "recording" => \A t \in Entries(q.todo) : t.op \notin {"flush", "screen", "contact"}
    BY OpKinds
  <2>2. kind # "recording" => \A t \in Entries(q.todo) :
          /\ ~(t.op = "put" /\ t.record # NoRecord)
          /\ ~(t.op = "update" /\ t.key = "index")
    BY OpKinds
  <2>3. kind # "recording" =>
          \A t \in Entries(q.todo) : t.op = "update" /\ t.key = "attempts" => t.change.add = {}
    BY TaskTypes
  <2>4. QED
    BY <2>1, <2>2, <2>3 DEF Has
<1>2. kind # "recording" =>
              /\ Coming(q) = {} /\ Arriving(q.todo) = {}
              /\ \A t \in Entries(q.todo) : \A a : ~Brings(t, a)
  <2>1. kind # "recording" => Coming(q) = {}
    BY <1>1 DEF Coming
  <2>2. kind # "recording" => Arriving(q.todo) = {}
    BY <1>1 DEF Arriving
  <2>3. kind # "recording" => \A t \in Entries(q.todo) : \A a : ~Brings(t, a)
    BY <1>1 DEF Brings
  <2>4. QED
    BY <2>1, <2>2, <2>3
<1>3. kind # "sweeping" => /\ Has(q.todo, {"resume", "scan"}) = FALSE
                           /\ Has(q.todo, {"resume"}) = FALSE
  BY OpKinds DEF Has
<1>4. kind \notin {"forgetting", "sweeping"} =>
              \A t \in Entries(q.todo) : ~(t.op = "set" /\ t.key = "index")
  BY OpKinds
<1>5. kind # "recounting" => \A t \in Entries(q.todo) : t.op \notin {"compare", "page", "publish"}
  BY OpKinds
<1>6. kind # "recounting" => RecountOf(q) /\ RecountOf(q)'
  <2>1. q.todo # <<>> => Head(q.todo) \in Entries(q.todo)
    BY RestOf
  <2>2. kind # "recounting" => ~(q.todo # <<>> /\ Head(q.todo).op = "publish")
    BY <1>5, <2>1
  <2>3. QED
    BY <1>5, <2>1, <2>2 DEF RecountOf
<1>7. QED
  BY <1>1, <1>2, <1>3, <1>4, <1>6

(* A step that changes no store and comes after the changes of counts.     *)
LEMMA QuietStep ==
  ASSUME CorpusInv, NEW p \in Active, NEW q, q = requests[p],
         NEW m, HandlerOK(m), m.alone = q.alone, m.batch = q.batch, m.read = <<>>,
         ~Loud(Head(q.todo)), \A t \in Entries(m.todo) : ~Loud(t),
         Has(m.todo, {"flush"}) = Has(q.todo, {"flush"}),
         UNCHANGED <<records, kv, overdue, rules, events, clean, lossless>>,
         requests' = [requests EXCEPT ![p] = IF m.todo = <<>> THEN Idle ELSE m],
         m.alone => RecountOf(m),
         lossless /\ Cardinality(Address) <= MaxIndex => ListedInv(m) /\ RulesInv(m)
  PROVE  CorpusInv'
<1>1. /\ TodoOK(q.todo) /\ q.todo # <<>>
      /\ records \in [Address -> Record \cup {NoRecord}] /\ kv \in Store
      /\ overdue \subseteq Held /\ rules \subseteq Ruled /\ events \in Nat
      /\ clean \in BOOLEAN /\ lossless \in BOOLEAN
      /\ clean => /\ \A a \in Address : records[a].marker # "legacy"
                  /\ Balanced(WithBatch(q, After(q.todo, Now)))
  BY Before
<1>2. /\ Held' = Held /\ Listed' = Listed /\ Now' = Now
      /\ records' = records /\ kv' = kv /\ rules' = rules
  BY DEF Held, Listed, Now
<1>3. WithBatch(m, After(m.todo, Now)) = WithBatch(q, After(q.todo, Now))
  <2>1. \A t \in Entries(q.todo) : ~Loud(t)
    BY <1>1, TodoFacts
  <2>2. After(m.todo, Now) = Now /\ After(q.todo, Now) = Now
    BY <2>1, AfterQuiet
  <2>3. QED
    BY <2>2 DEF WithBatch
<1>4. clean' => Balanced(WithBatch(m, After(m.todo, Now)))'
  BY <1>1, <1>2, <1>3 DEF Balanced
<1>5. m.alone => RecountOf(m)'
  BY <1>2 DEF RecountOf, Tally
<1>6. lossless /\ Cardinality(Address) <= MaxIndex => ListedInv(m)' /\ RulesInv(m)'
  <2>1. ListedInv(m) => ListedInv(m)'
    BY <1>2 DEF ListedInv
  <2>2. RulesInv(m) => RulesInv(m)'
    BY <1>2 DEF RulesInv
  <2>3. QED
    BY <2>1, <2>2
<1>7. QED
  BY <1>1, <1>2, <1>4, <1>5, <1>6, StepHolds DEF Nothing

-----------------------------------------------------------------------------
(* One lemma for each step.                                                *)

(* forgetHosts rewrites the index without the hosts to forget.             *)
LEMMA ForgetHostsHolds ==
  ASSUME CorpusInv, NEW p \in Request, ForgetHosts(p) PROVE CorpusInv'
<1>1. PICK q : q = requests[p]
  OBVIOUS
<1>2. p \in Active /\ Head(q.todo).op = "forgetHosts"
  BY <1>1 DEF ForgetHosts, At, Head1
<1> DEFINE ips == Head(q.todo).ips
           kept == Less(kv.index, Entries(ips))
           forgets == [i \in DOMAIN ips |-> Forget(ips[i])]
           writes == IF kept = kv.index THEN <<>> ELSE <<Set("index", kept)>>
           drops == <<DropAttempts(Entries(ips))>>
           tasks == forgets \o writes \o drops
<1>3. PICK m : m = [q EXCEPT !.todo = tasks \o Tail(q.todo), !.read = Nothing]
  BY Zenon
<1>4. /\ HandlerOK(q) /\ q.todo # <<>> /\ TodoOK(q.todo) /\ kv \in Store
      /\ WalkOK(q)
      /\ q.alone => RecountOf(q)
      /\ lossless /\ Cardinality(Address) <= MaxIndex => ListedInv(q) /\ RulesInv(q)
  BY <1>1, <1>2, Before
<1>5. PICK kind \in Kind : \A t \in Entries(q.todo) : Fits(kind, t)
  BY <1>4 DEF TodoOK
<1>6. /\ Head(q.todo) \in Entries(q.todo) /\ q.todo \in Seq(Entries(q.todo))
      /\ Entries(q.todo) = {Head(q.todo)} \cup Entries(Tail(q.todo))
      /\ \A u \in Entries(Tail(q.todo)) : MayPrecede(Head(q.todo), u)
  BY <1>4, TodoFacts
<1>7. kind = "forgetting" /\ ips \in Index
  <2>1. Fits(kind, Head(q.todo))
    BY <1>5, <1>6
  <2>2. kind = "forgetting"
    BY <1>2, <1>5, <2>1, OpKinds
  <2>3. ips \in Index
    BY <1>2, <1>5, <2>1, TaskTypes
  <2>4. QED
    BY <2>2, <2>3
<1>8. /\ forgets \in Seq(Entries(forgets))
      /\ Entries(forgets) = {Forget(a) : a \in Entries(ips)}
  <2>1. /\ Len(ips) \in Nat /\ DOMAIN ips = 1..Len(ips) /\ Entries(ips) \subseteq Address
    BY <1>7, IndexFacts
  <2>2. forgets \in Seq({Forget(a) : a \in Entries(ips)})
    <3>1. forgets \in [1..Len(ips) -> {Forget(a) : a \in Entries(ips)}]
      BY <2>1 DEF Entries
    <3>2. QED
      BY <2>1, <3>1, SeqDef
  <2>3. Entries(forgets) = {Forget(a) : a \in Entries(ips)}
    BY DEF Entries
  <2>4. QED
    BY <2>2, <2>3, OwnSeq
<1>9. kept \in Index /\ Entries(kept) = Entries(kv.index) \ Entries(ips) /\ kv.index \in Index
  <2>1. kv.index \in Index
    BY <1>4 DEF Store
  <2>2. QED
    BY <2>1, FilteredIndex
<1>10. /\ writes \in Seq(Entries(writes)) /\ drops \in Seq(Entries(drops))
       /\ Entries(writes) = IF kept = kv.index THEN {} ELSE {Set("index", kept)}
       /\ Entries(drops) = {DropAttempts(Entries(ips))}
  BY Written
<1>11. Entries(ips) \subseteq Address
  BY <1>7, IndexFacts
<1> HIDE DEF forgets, writes, drops, kept, ips
<1>12. /\ \A t \in Entries(forgets) : t.op = "forget" /\ t.a \in Entries(ips)
       /\ \A t \in Entries(writes) : t.op = "set" /\ t.key = "index" /\ t.value = kept
       /\ \A t \in Entries(drops) : /\ t.op = "update" /\ t.key = "attempts"
                                    /\ t.change = [add |-> {}, drop |-> Entries(ips)]
  BY <1>8, <1>10 DEF Forget, Set, DropAttempts, Update
<1>13. /\ tasks \in Seq(Entries(tasks))
       /\ Entries(tasks) = Entries(forgets) \cup Entries(writes) \cup Entries(drops)
       /\ InOrder(tasks)
  <2>1. InOrder(forgets) /\ InOrder(writes) /\ InOrder(drops)
    <3>1. InOrder(forgets)
      <4>1. \A t, u \in Entries(forgets) : MayPrecede(t, u)
        BY <1>12 DEF MayPrecede, Loud
      <4>2. QED
        BY <4>1 DEF InOrder, Entries
    <3>2. InOrder(writes) /\ InOrder(drops)
      BY Written DEF InOrder, writes, drops
    <3>3. QED
      BY <3>1, <3>2
  <2>2. /\ forgets \o writes \in Seq(Entries(forgets \o writes))
        /\ Entries(forgets \o writes) = Entries(forgets) \cup Entries(writes)
        /\ InOrder(forgets \o writes)
    <3>1. \A t \in Entries(forgets), u \in Entries(writes) : MayPrecede(t, u)
      BY <1>12 DEF MayPrecede, Loud
    <3>2. QED
      BY <1>8, <1>10, <2>1, <3>1, JoinedSeq, OrderJoined
  <2>3. \A t \in Entries(forgets \o writes), u \in Entries(drops) : MayPrecede(t, u)
    BY <1>12, <2>2 DEF MayPrecede, Loud
  <2> DEFINE first == forgets \o writes
  <2> HIDE DEF first
  <2>4. first \o drops \in Seq(Entries(first \o drops))
        /\ Entries(first \o drops) = Entries(first) \cup Entries(drops)
    BY <1>10, <2>2, JoinedSeq DEF first
  <2>5. InOrder(first \o drops)
    BY <1>10, <2>1, <2>2, <2>3, OrderJoined DEF first
  <2>6. QED
    BY <2>2, <2>4, <2>5 DEF first
<1> HIDE DEF tasks
<1>14. /\ \A t \in Entries(tasks) : Fits(kind, t) /\ Plain(t) /\ ~Loud(t)
       /\ Front(tasks)
  <2>1. \A t \in Entries(tasks) : Plain(t) /\ ~Loud(t)
    BY <1>12, <1>13 DEF Plain, Loud
  <2>2. Front(tasks)
    BY <2>1 DEF Front, Entries
  <2>3. \A t \in Entries(tasks) : Forgetting(t)
    BY <1>9, <1>11, <1>12, <1>13 DEF Forgetting, Change
  <2>4. QED
    BY <1>7, <2>1, <2>2, <2>3 DEF Fits
<1>15. /\ \A t \in Entries(tasks), u \in Entries(Tail(q.todo)) : MayPrecede(t, u)
       /\ ~Loud(Head(q.todo))
  BY <1>2, <1>6, <1>12, <1>13 DEF MayPrecede, Loud
<1>16. /\ HandlerOK(m) /\ m.todo = tasks \o Tail(q.todo) /\ m.read = <<>>
       /\ m.batch = q.batch /\ m.walk = q.walk /\ m.alone = q.alone
       /\ Entries(m.todo) = Entries(tasks) \cup Entries(Tail(q.todo))
       /\ Has(m.todo, {"flush"}) = Has(q.todo, {"flush"})
  <2>1. Head(q.todo).op \notin {"publish", "resume", "scan", "flush", "screen"}
    BY <1>2
  <2>2. \A t \in Entries(tasks) : Fits(kind, t) /\ Plain(t)
    BY <1>14
  <2>3. /\ HandlerOK(q) /\ q.todo # <<>> /\ kind \in Kind
        /\ \A t \in Entries(q.todo) : Fits(kind, t)
        /\ tasks \in Seq(Entries(tasks)) /\ InOrder(tasks) /\ Front(tasks)
        /\ tasks = <<>> \/ ~Loud(Head(q.todo))
        /\ \A t \in Entries(tasks), u \in Entries(Tail(q.todo)) : MayPrecede(t, u)
    BY <1>4, <1>5, <1>13, <1>14, <1>15
  <2>4. Leaves(q, tasks \o Tail(q.todo), m)
    BY <1>3, <1>4 DEF HandlerOK, Nothing, Leaves
  <2>5. QED
    BY <2>1, <2>2, <2>3, <2>4, Continued DEF Leaves
<1>17. m.todo \in Seq(Entries(m.todo)) /\ \A t \in Entries(m.todo) : Fits(kind, t)
  BY <1>5, <1>6, <1>14, <1>16 DEF HandlerOK, TodoOK
<1>18. /\ RecountOf(m)
       /\ Coming(q) = {} /\ Coming(m) = {} /\ Arriving(m.todo) = {}
       /\ \A t \in Entries(m.todo) : \A a : ~Brings(t, a)
       /\ q.walk.on = FALSE
  BY <1>4, <1>5, <1>6, <1>7, <1>17, KindFacts DEF WalkOK
<1>19. ASSUME lossless, Cardinality(Address) <= MaxIndex PROVE ListedInv(m) /\ RulesInv(m)
  <2>1. ListedInv(q) /\ RulesInv(q)
    BY <1>4, <1>19
  <2>2. Entries(ips) \subseteq Leaving(m.todo)
    <3>1. ASSUME NEW a \in Entries(ips) PROVE a \in Leaving(m.todo)
      <4>1. Forget(a) \in Entries(m.todo) /\ Forget(a).op = "forget" /\ Forget(a).a = a
        BY <1>8, <1>13, <1>16 DEF Forget
      <4>2. QED
        BY <4>1 DEF Leaving
    <3>2. QED
      BY <3>1
  <2>3. Held \subseteq Entries(kv.index)
    BY <1>18, <2>1 DEF ListedInv
  <2>4. \A t \in Entries(Tail(q.todo)) : t.op \in {"purgeAttempts", "answer"}
    BY <1>2, <1>6 DEF MayPrecede
  <2>5. ListedInv(m)
    BY <1>9, <1>12, <1>13, <1>16, <1>18, <2>2, <2>3, <2>4 DEF ListedInv
  <2>6. RulesInv(m)
    <3>1. SUFFICES ASSUME NEW a \in rules
                   PROVE  /\ a \in Held => \E t \in Entries(m.todo) : Removes(t, a)
                          /\ a \in kv.attempts => \E t \in Entries(m.todo) : Drops(t, a)
      BY <1>18 DEF RulesInv
    <3>2. ASSUME a \in Held PROVE \E t \in Entries(m.todo) : Removes(t, a)
      <4>1. PICK t \in Entries(q.todo) : Removes(t, a)
        BY <2>1, <3>1, <3>2 DEF RulesInv
      <4>2. a \in Entries(ips)
        BY <1>2, <1>6, <2>4, <4>1 DEF Removes, ips
      <4>3. Forget(a) \in Entries(m.todo) /\ Removes(Forget(a), a)
        BY <1>8, <1>13, <1>16, <4>2 DEF Removes, Forget
      <4>4. QED
        BY <4>3
    <3>3. ASSUME a \in kv.attempts PROVE \E t \in Entries(m.todo) : Drops(t, a)
      <4>1. PICK t \in Entries(q.todo) : Drops(t, a)
        BY <2>1, <3>1, <3>3 DEF RulesInv
      <4>2. t \in Entries(m.todo)
        BY <1>2, <1>6, <1>16, <4>1 DEF Drops
      <4>3. QED
        BY <4>1, <4>2
    <3>4. QED
      BY <3>2, <3>3
  <2>7. QED
    BY <2>5, <2>6
<1>20. /\ UNCHANGED <<records, kv, overdue, rules, events, clean, lossless>>
       /\ requests' = [requests EXCEPT ![p] = IF m.todo = <<>> THEN Idle ELSE m]
  <2>1. Continue(p, tasks)
    BY <1>1 DEF ForgetHosts, tasks, forgets, writes, drops, kept, ips, Head1
  <2>2. QED
    BY <1>1, <1>3, <1>16, <2>1 DEF ForgetHosts, Continue, Rest
<1>21. \A t \in Entries(m.todo) : ~Loud(t)
  BY <1>4, <1>6, <1>14, <1>15, <1>16, TodoFacts
<1>22. QED
  BY <1>1, <1>2, <1>15, <1>16, <1>18, <1>19, <1>20, <1>21, QuietStep

(* Tasks that change no record, count, batch or walk replace the first.    *)
LEMMA PlainTasks ==
  ASSUME NEW q, HandlerOK(q), q.todo # <<>>,
         Head(q.todo).op \notin {"publish", "resume", "scan", "flush", "screen", "put", "update"},
         NEW kind \in Kind, \A t \in Entries(q.todo) : Fits(kind, t),
         NEW tasks, tasks \in Seq(Entries(tasks)), InOrder(tasks),
         \A t \in Entries(tasks) : Fits(kind, t) /\ Plain(t) /\ ~Loud(t),
         \A t \in Entries(tasks), u \in Entries(Tail(q.todo)) : MayPrecede(t, u),
         NEW m, Leaves(q, tasks \o Tail(q.todo), m)
  PROVE  /\ Continuing(q, tasks, m)
         /\ \A t \in Entries(m.todo) : Fits(kind, t) /\ ~Loud(t)
         /\ ~Loud(Head(q.todo))
         /\ Has(m.todo, {"flush"}) = Has(q.todo, {"flush"})
<1>1. /\ Head(q.todo).op \notin {"publish", "resume", "scan", "flush", "screen"}
      /\ ~Loud(Head(q.todo))
  <2>1. Head(q.todo).op # "put" /\ Head(q.todo).op # "update"
    OBVIOUS
  <2>2. Head(q.todo).op \notin {"publish", "resume", "scan", "flush", "screen"}
    OBVIOUS
  <2>3. QED
    BY <2>1, <2>2 DEF Loud
<1>2. /\ \A t \in Entries(tasks) : Fits(kind, t) /\ Plain(t)
      /\ \A t \in Entries(tasks) : ~Loud(t)
      /\ Front(tasks)
      /\ tasks = <<>> \/ ~Loud(Head(q.todo))
  BY <1>1 DEF Front, Entries
<1>3. /\ Continuing(q, tasks, m)
      /\ Has(m.todo, {"flush"}) = Has(q.todo, {"flush"})
      /\ \A t \in Entries(m.todo) : Fits(kind, t)
      /\ \A t \in Entries(m.todo) : ~Loud(t)
  BY <1>1, <1>2, Continued
<1>4. QED
  BY <1>1, <1>3

(* Such a step keeps the invariant if the lists still agree.               *)
LEMMA QuietTasks ==
  ASSUME CorpusInv, NEW p \in Active, NEW q, q = requests[p],
         Head(q.todo).op \notin {"publish", "resume", "scan", "flush", "screen", "put", "update"},
         NEW kind \in Kind, \A t \in Entries(q.todo) : Fits(kind, t),
         NEW tasks, tasks \in Seq(Entries(tasks)), InOrder(tasks),
         \A t \in Entries(tasks) : Fits(kind, t) /\ Plain(t) /\ ~Loud(t),
         \A t \in Entries(tasks), u \in Entries(Tail(q.todo)) : MayPrecede(t, u),
         Continue(p, tasks), UNCHANGED <<records, kv, overdue, rules, events, clean, lossless>>,
         \A m : Continuing(q, tasks, m) /\ (\A t \in Entries(m.todo) : Fits(kind, t)) =>
           /\ m.alone => RecountOf(m)
           /\ lossless /\ Cardinality(Address) <= MaxIndex => ListedInv(m) /\ RulesInv(m)
  PROVE  CorpusInv'
<1>1. HandlerOK(q) /\ q.todo # <<>>
  BY Before
<1>2. PICK m : m = [q EXCEPT !.todo = tasks \o Tail(q.todo), !.read = Nothing]
  OBVIOUS
<1>3. /\ Continuing(q, tasks, m)
      /\ \A t \in Entries(m.todo) : Fits(kind, t) /\ ~Loud(t)
      /\ ~Loud(Head(q.todo))
      /\ Has(m.todo, {"flush"}) = Has(q.todo, {"flush"})
  <2>1. Leaves(q, tasks \o Tail(q.todo), m)
    BY <1>1, <1>2 DEF HandlerOK, Nothing, Leaves
  <2>2. QED
    BY <1>1, <2>1, PlainTasks
<1>4. /\ m.todo = tasks \o Tail(q.todo) /\ m.read = <<>> /\ HandlerOK(m)
      /\ m.batch = q.batch /\ m.alone = q.alone
  BY <1>3 DEF Continuing
<1>5. /\ m.alone => RecountOf(m)
      /\ lossless /\ Cardinality(Address) <= MaxIndex => ListedInv(m) /\ RulesInv(m)
  BY <1>3
<1>6. requests' = [requests EXCEPT ![p] = IF m.todo = <<>> THEN Idle ELSE m]
  BY <1>2, <1>4 DEF Continue, Rest
<1>7. QED
  BY <1>3, <1>4, <1>5, <1>6, QuietStep

(* Some tasks are the last ones.                                           *)
LEMMA LastTask ==
  ASSUME NEW todo, TodoOK(todo), todo # <<>>,
         Head(todo).op \in {"flush", "screen", "purge", "match", "answer", "recount", "compare", "page"}
  PROVE  Entries(Tail(todo)) = {} /\ Tail(todo) = <<>> /\ Entries(todo) = {Head(todo)}
<1>1. /\ Tail(todo) \in Seq(Entries(Tail(todo)))
      /\ Entries(todo) = {Head(todo)} \cup Entries(Tail(todo))
      /\ \A u \in Entries(Tail(todo)) : MayPrecede(Head(todo), u)
  BY TodoFacts
<1>2. Entries(Tail(todo)) = {}
  BY <1>1 DEF MayPrecede
<1>3. QED
  BY <1>1, <1>2, InSeq

(* One task, or none, is in order.                                         *)
LEMMA OneTask ==
  ASSUME NEW t
  PROVE  /\ <<t>> \in Seq(Entries(<<t>>)) /\ Entries(<<t>>) = {t} /\ InOrder(<<t>>)
         /\ <<>> \in Seq(Entries(<<>>)) /\ Entries(<<>>) = {} /\ InOrder(<<>>)
BY Written DEF InOrder

(* Two tasks, one after the other.                                         *)
LEMMA TwoJoined == ASSUME NEW t, NEW u PROVE <<t>> \o <<u>> = <<t, u>>
<1>1. <<t>> \in Seq({t, u}) /\ <<u>> \in Seq({t, u}) /\ <<t, u>> \in Seq({t, u})
  OBVIOUS
<1> DEFINE both == <<t>> \o <<u>>
<1>2. /\ both \in Seq({t, u}) /\ Len(both) = Len(<<t>>) + Len(<<u>>)
      /\ both[1] = t /\ both[Len(<<t>>) + 1] = u
  <2>1. both \in Seq({t, u})
    BY <1>1, ConcatProperties
  <2>2. 1 \in DOMAIN <<t>> /\ 1 \in DOMAIN <<u>>
    BY Written
  <2>3. QED
    BY <2>1, <2>2, Written, JoinedSeq
<1> HIDE DEF both
<1>3. Len(both) = 2 /\ both[2] = u
  BY <1>2, Written
<1>4. \A i \in 1..Len(both) : both[i] = <<t, u>>[i]
  BY <1>2, <1>3
<1>5. both = <<t, u>>
  BY <1>1, <1>2, <1>3, <1>4, Written, SeqEqual
<1>6. QED
  BY <1>5 DEF both

(* Two tasks of which the first may precede the second are in order.       *)
LEMMA TwoTasks ==
  ASSUME NEW t, NEW u, MayPrecede(t, u)
  PROVE  /\ <<t, u>> \in Seq(Entries(<<t, u>>)) /\ Entries(<<t, u>>) = {t, u} /\ InOrder(<<t, u>>)
         /\ <<t>> \o <<u>> = <<t, u>>
<1>1. <<t, u>> \in Seq(Entries(<<t, u>>)) /\ Entries(<<t, u>>) = {t, u}
  BY Written
<1>2. InOrder(<<t, u>>)
  BY Written DEF InOrder
<1>3. <<t>> \o <<u>> = <<t, u>>
  BY TwoJoined
<1>4. QED
  BY <1>1, <1>2, <1>3

(* The attempts a rule covers are dropped.                                 *)
LEMMA PurgeAttemptsHolds ==
  ASSUME CorpusInv, NEW p \in Request, PurgeAttempts(p) PROVE CorpusInv'
<1>1. PICK q : q = requests[p]
  OBVIOUS
<1>2. p \in Active /\ Head(q.todo).op = "purgeAttempts"
  BY <1>1 DEF PurgeAttempts, At, Head1
<1>3. /\ HandlerOK(q) /\ q.todo # <<>> /\ TodoOK(q.todo) /\ kv \in Store /\ WalkOK(q)
      /\ lossless /\ Cardinality(Address) <= MaxIndex => ListedInv(q) /\ RulesInv(q)
  BY <1>1, <1>2, Before
<1>4. PICK kind \in Kind : \A t \in Entries(q.todo) : Fits(kind, t)
  BY <1>3 DEF TodoOK
<1>5. /\ Head(q.todo) \in Entries(q.todo) /\ q.todo \in Seq(Entries(q.todo))
      /\ Entries(q.todo) = {Head(q.todo)} \cup Entries(Tail(q.todo))
      /\ \A u \in Entries(Tail(q.todo)) : MayPrecede(Head(q.todo), u)
  BY <1>3, TodoFacts
<1>6. kind = "forgetting"
  <2>1. Fits(kind, Head(q.todo))
    BY <1>4, <1>5
  <2>2. QED
    BY <1>2, <1>4, <2>1, OpKinds
<1> DEFINE stale == kv.attempts \cap Head(q.todo).entries
           tasks == IF stale = {} THEN <<>> ELSE <<DropAttempts(stale)>>
<1>7. /\ tasks \in Seq(Entries(tasks)) /\ InOrder(tasks)
      /\ Entries(tasks) = IF stale = {} THEN {} ELSE {DropAttempts(stale)}
  <2>1. CASE stale = {}
    BY <2>1, OneTask
  <2>2. CASE stale # {}
    BY <2>2, OneTask
  <2>3. QED
    BY <2>1, <2>2
<1>8. stale \subseteq Address
  BY <1>3 DEF Store
<1>9. Continue(p, tasks)
  BY <1>1 DEF PurgeAttempts, Head1
<1> HIDE DEF stale, tasks
<1>10. \A t \in Entries(tasks) : /\ t.op = "update" /\ t.key = "attempts"
                                 /\ t.change = [add |-> {}, drop |-> stale]
  <2>1. /\ DropAttempts(stale).op = "update" /\ DropAttempts(stale).key = "attempts"
        /\ DropAttempts(stale).change = [add |-> {}, drop |-> stale]
    BY DEF DropAttempts, Update
  <2>2. QED
    BY <1>7, <2>1
<1>11. \A t \in Entries(tasks) : Fits(kind, t) /\ Plain(t) /\ ~Loud(t)
  <2>1. \A t \in Entries(tasks) : Plain(t) /\ ~Loud(t)
    BY <1>10 DEF Plain, Loud
  <2>2. \A t \in Entries(tasks) : Forgetting(t)
    BY <1>8, <1>10 DEF Forgetting, Change
  <2>3. QED
    BY <1>6, <2>1, <2>2 DEF Fits
<1>12. \A t \in Entries(tasks), u \in Entries(Tail(q.todo)) : MayPrecede(t, u)
  BY <1>2, <1>5, <1>10 DEF MayPrecede, Loud
<1>13. ASSUME NEW m, Continuing(q, tasks, m), \A t \in Entries(m.todo) : Fits(kind, t)
       PROVE  /\ RecountOf(m)
              /\ lossless /\ Cardinality(Address) <= MaxIndex => ListedInv(m) /\ RulesInv(m)
  <2>1. /\ m.todo \in Seq(Entries(m.todo)) /\ m.walk = q.walk
        /\ Entries(m.todo) = Entries(tasks) \cup Entries(Tail(q.todo))
    BY <1>13 DEF Continuing
  <2>2. /\ RecountOf(m) /\ Coming(q) = {} /\ Coming(m) = {} /\ Arriving(m.todo) = {}
        /\ \A t \in Entries(m.todo) : \A a : ~Brings(t, a)
        /\ q.walk.on = FALSE
    BY <1>3, <1>4, <1>5, <1>6, <1>13, <2>1, KindFacts DEF WalkOK
  <2>3. ASSUME lossless, Cardinality(Address) <= MaxIndex PROVE ListedInv(m) /\ RulesInv(m)
    <3>1. ListedInv(q) /\ RulesInv(q)
      BY <1>3, <2>3
    <3>2. Leaving(q.todo) = Leaving(m.todo)
      BY <1>2, <1>5, <1>10, <2>1 DEF Leaving
    <3>3. \A t \in Entries(m.todo) : t.op = "set" => t \in Entries(q.todo)
      BY <1>5, <1>10, <2>1
    <3>4. ListedInv(m)
      BY <2>1, <2>2, <3>1, <3>2, <3>3 DEF ListedInv
    <3>5. ASSUME NEW a \in rules
          PROVE  /\ a \in Held => \E t \in Entries(m.todo) : Removes(t, a)
                 /\ a \in kv.attempts => \E t \in Entries(m.todo) : Drops(t, a)
      <4>1. ASSUME a \in Held PROVE \E t \in Entries(m.todo) : Removes(t, a)
        <5>1. PICK t \in Entries(q.todo) : Removes(t, a)
          BY <3>1, <3>5, <4>1 DEF RulesInv
        <5>2. t # Head(q.todo)
          BY <1>2, <5>1 DEF Removes
        <5>3. QED
          BY <1>5, <2>1, <5>1, <5>2
      <4>2. ASSUME a \in kv.attempts PROVE \E t \in Entries(m.todo) : Drops(t, a)
        <5>1. PICK t \in Entries(q.todo) : Drops(t, a)
          BY <3>1, <3>5, <4>2 DEF RulesInv
        <5>2. CASE t # Head(q.todo)
          BY <1>5, <2>1, <5>1, <5>2
        <5>3. CASE t = Head(q.todo)
          <6>1. a \in stale
            BY <1>2, <4>2, <5>1, <5>3 DEF Drops, stale
          <6>2. DropAttempts(stale) \in Entries(m.todo)
            BY <1>7, <2>1, <6>1
          <6>3. Drops(DropAttempts(stale), a)
            BY <6>1 DEF Drops, DropAttempts, Update
          <6>4. QED
            BY <6>2, <6>3
        <5>4. QED
          BY <5>2, <5>3
      <4>3. QED
        BY <4>1, <4>2
    <3>6. RulesInv(m)
      BY <2>2, <3>5 DEF RulesInv
    <3>7. QED
      BY <3>4, <3>6
  <2>4. QED
    BY <2>2, <2>3
<1>14. UNCHANGED <<records, kv, overdue, rules, events, clean, lossless>>
  BY DEF PurgeAttempts
<1>15. Head(q.todo).op \notin {"publish", "resume", "scan", "flush", "screen", "put", "update"}
  BY <1>2
<1>16. QED
  BY <1>1, <1>2, <1>4, <1>7, <1>9, <1>11, <1>12, <1>13, <1>14, <1>15, QuietTasks

(* The first entries of an index are an index.                             *)
LEMMA FirstOfIndex ==
  ASSUME NEW s \in Index, NEW n \in Nat
  PROVE  /\ FirstOf(s, n) \in Index
         /\ Len(s) <= n => Entries(FirstOf(s, n)) = Entries(s)
<1>1. Len(s) \in Nat /\ DOMAIN s = 1..Len(s)
  BY IndexFacts
<1>2. PICK l \in Nat : l = Len(s)
  BY <1>1
<1>3. ASSUME NEW k \in Nat, k <= l
      PROVE  SubSeq(s, 1, k) \in Index /\ Entries(SubSeq(s, 1, k)) = {s[i] : i \in 1..k}
  <2>1. 1..k \subseteq DOMAIN s
    BY <1>1, <1>2, <1>3
  <2>2. QED
    BY <2>1, PartOfIndex
<1>4. Entries(s) = {s[i] : i \in 1..l}
  BY <1>1, <1>2 DEF Entries
<1>5. CASE l < n
  <2>1. FirstOf(s, n) = SubSeq(s, 1, l)
    BY <1>2, <1>5 DEF FirstOf
  <2>2. QED
    BY <1>3, <1>4, <2>1
<1>6. CASE n <= l
  <2>1. FirstOf(s, n) = SubSeq(s, 1, n)
    BY <1>2, <1>6 DEF FirstOf
  <2>2. l <= n => n = l
    BY <1>6
  <2>3. QED
    BY <1>2, <1>3, <1>4, <1>6, <2>1, <2>2
<1>7. QED
  BY <1>5, <1>6

(* So is an index without its first entry.                                 *)
LEMMA RestOfIndex ==
  ASSUME NEW s \in Index, s # <<>>
  PROVE  /\ Tail(s) \in Index /\ Head(s) \in Address
         /\ Entries(s) = {Head(s)} \cup Entries(Tail(s))
<1>1. /\ s \in Seq(Address) /\ s \in Seq(Entries(s)) /\ Len(s) \in Nat /\ DOMAIN s = 1..Len(s)
      /\ \A i, j \in DOMAIN s : s[i] = s[j] => i = j
      /\ Entries(s) \subseteq Address
  BY IndexFacts
<1>2. /\ Head(s) \in Entries(s)
      /\ DOMAIN Tail(s) = 1..(Len(s) - 1)
      /\ \A i \in DOMAIN Tail(s) : i + 1 \in DOMAIN s /\ Tail(s)[i] = s[i + 1]
      /\ Entries(s) = {Head(s)} \cup Entries(Tail(s))
  BY <1>1, RestOf
<1>3. Tail(s) \in Seq(Address)
  BY <1>1, HeadTailProperties
<1>4. \A i, j \in DOMAIN Tail(s) : Tail(s)[i] = Tail(s)[j] => i = j
  <2>1. SUFFICES ASSUME NEW i \in DOMAIN Tail(s), NEW j \in DOMAIN Tail(s), Tail(s)[i] = Tail(s)[j]
                 PROVE  i = j
    OBVIOUS
  <2>2. i + 1 = j + 1
    BY <1>1, <1>2, <2>1
  <2>3. QED
    BY <1>2, <2>1, <2>2
<1>5. QED
  BY <1>1, <1>2, <1>3, <1>4 DEF Index

(* A purge goes on to tasks that remove and drop what it had to.           *)
LEMMA PurgeGoesOn ==
  ASSUME CorpusInv, NEW p \in Active, NEW q, q = requests[p],
         Head(q.todo).op \in {"purge", "match", "answer"},
         NEW tasks, tasks \in Seq(Entries(tasks)), InOrder(tasks),
         \A t \in Entries(tasks) : Forgetting(t) /\ Plain(t) /\ ~Loud(t) /\ t.op # "set",
         Continue(p, tasks), UNCHANGED <<records, kv, overdue, rules, events, clean, lossless>>,
         \A a \in rules : a \in Entries(kv.index) /\ Removes(Head(q.todo), a) =>
           \E t \in Entries(tasks) : Removes(t, a),
         \A a \in rules : a \in kv.attempts /\ Drops(Head(q.todo), a) =>
           \E t \in Entries(tasks) : Drops(t, a)
  PROVE  CorpusInv'
<1>1. /\ HandlerOK(q) /\ q.todo # <<>> /\ TodoOK(q.todo) /\ WalkOK(q)
      /\ lossless /\ Cardinality(Address) <= MaxIndex => ListedInv(q) /\ RulesInv(q)
  BY Before
<1>2. PICK kind \in Kind : \A t \in Entries(q.todo) : Fits(kind, t)
  BY <1>1 DEF TodoOK
<1>3. /\ Head(q.todo) \in Entries(q.todo) /\ q.todo \in Seq(Entries(q.todo))
      /\ Entries(Tail(q.todo)) = {} /\ Tail(q.todo) = <<>> /\ Entries(q.todo) = {Head(q.todo)}
  BY <1>1, TodoFacts, LastTask
<1>4. kind = "forgetting"
  <2>1. Fits(kind, Head(q.todo))
    BY <1>2, <1>3
  <2>2. QED
    BY <1>2, <2>1, OpKinds
<1>5. \A t \in Entries(tasks) : Fits(kind, t) /\ Plain(t) /\ ~Loud(t)
  BY <1>4 DEF Fits
<1>6. \A t \in Entries(tasks), u \in Entries(Tail(q.todo)) : MayPrecede(t, u)
  BY <1>3
<1>7. ASSUME NEW m, Continuing(q, tasks, m), \A t \in Entries(m.todo) : Fits(kind, t)
      PROVE  /\ RecountOf(m)
             /\ lossless /\ Cardinality(Address) <= MaxIndex => ListedInv(m) /\ RulesInv(m)
  <2>1. /\ m.todo \in Seq(Entries(m.todo)) /\ m.walk = q.walk
        /\ Entries(m.todo) = Entries(tasks)
    BY <1>3, <1>7 DEF Continuing
  <2>2. /\ RecountOf(m) /\ Coming(q) = {} /\ Coming(m) = {} /\ Arriving(m.todo) = {}
        /\ \A t \in Entries(m.todo) : \A a : ~Brings(t, a)
        /\ q.walk.on = FALSE
    BY <1>1, <1>2, <1>3, <1>4, <1>7, <2>1, KindFacts DEF WalkOK
  <2>3. ASSUME lossless, Cardinality(Address) <= MaxIndex PROVE ListedInv(m) /\ RulesInv(m)
    <3>1. Held \subseteq Entries(kv.index) /\ RulesInv(q)
      BY <1>1, <2>2, <2>3 DEF ListedInv
    <3>2. ListedInv(m)
      BY <2>1, <2>2, <3>1 DEF ListedInv
    <3>3. ASSUME NEW a \in rules, a \in Held PROVE \E t \in Entries(m.todo) : Removes(t, a)
      <4>1. Removes(Head(q.todo), a)
        BY <1>3, <3>1, <3>3 DEF RulesInv
      <4>2. QED
        BY <2>1, <3>1, <3>3, <4>1
    <3>4. ASSUME NEW a \in rules, a \in kv.attempts PROVE \E t \in Entries(m.todo) : Drops(t, a)
      <4>1. Drops(Head(q.todo), a)
        BY <1>3, <3>1, <3>4 DEF RulesInv
      <4>2. QED
        BY <2>1, <3>4, <4>1
    <3>5. RulesInv(m)
      BY <2>2, <3>3, <3>4 DEF RulesInv
    <3>6. QED
      BY <3>2, <3>5
  <2>4. QED
    BY <2>2, <2>3
<1>8. Head(q.todo).op \notin {"publish", "resume", "scan", "flush", "screen", "put", "update"}
  OBVIOUS
<1>9. QED
  BY <1>2, <1>5, <1>6, <1>7, <1>8, QuietTasks

(* What there is to match.                                                 *)
LEMMA Matching ==
  ASSUME NEW rest \in Index, NEW doomed \in Index, NEW entries \in SUBSET Ruled,
         NEW whole \in BOOLEAN, NEW t, t = Match(rest, doomed, entries, whole)
  PROVE  /\ <<t>> \in Seq(Entries(<<t>>)) /\ InOrder(<<t>>) /\ Entries(<<t>>) = {t}
         /\ Forgetting(t) /\ Plain(t) /\ ~Loud(t)
         /\ t.op = "match" /\ t.rest = rest /\ t.doomed = doomed /\ t.entries = entries
         /\ t.whole = whole
<1>1. /\ t.op = "match" /\ t.rest = rest /\ t.doomed = doomed /\ t.entries = entries
      /\ t.whole = whole
  BY DEF Match
<1>2. Forgetting(t) /\ Plain(t) /\ ~Loud(t)
  BY <1>1 DEF Forgetting, Plain, Loud
<1>3. QED
  BY <1>1, <1>2, OneTask

(* purgeExcluded begins with the hosts listed that a rule names.           *)
LEMMA PurgeExcludedHolds ==
  ASSUME CorpusInv, NEW p \in Request, PurgeExcluded(p) PROVE CorpusInv'
<1>1. PICK q : q = requests[p]
  OBVIOUS
<1>2. p \in Active /\ Head(q.todo).op = "purge"
  BY <1>1 DEF PurgeExcluded, At, Head1
<1>3. kv \in Store /\ rules \subseteq Ruled
  BY <1>1, <1>2, Before
<1>4. PICK doomed : doomed = Picked(kv.index, {i \in DOMAIN kv.index : kv.index[i] \in rules})
  OBVIOUS
<1>5. PICK others : others = IF rules \cap Label = {} THEN <<>> ELSE Less(kv.index, rules)
  OBVIOUS
<1>6. PICK first, whole, t : /\ first = FirstOf(others, MaxReads)
                            /\ whole = (Len(others) <= MaxReads)
                            /\ t = Match(first, doomed, rules, whole)
  OBVIOUS
<1>7. Continue(p, <<t>>) /\ UNCHANGED <<records, kv, overdue, rules, events, clean, lossless>>
  BY <1>4, <1>5, <1>6 DEF PurgeExcluded
<1>8. /\ doomed \in Index /\ Entries(doomed) = Entries(kv.index) \cap rules
      /\ first \in Index
  <2>1. kv.index \in Index /\ <<>> \in Index
    BY <1>3, Written DEF Store, Index
  <2>2. doomed \in Index /\ Entries(doomed) = Entries(kv.index) \cap rules /\ others \in Index
    BY <1>4, <1>5, <2>1, FilteredIndex
  <2>3. QED
    BY <1>6, <2>2, FirstOfIndex, KvAssumption
<1>9. /\ <<t>> \in Seq(Entries(<<t>>)) /\ InOrder(<<t>>) /\ Entries(<<t>>) = {t}
      /\ Forgetting(t) /\ Plain(t) /\ ~Loud(t)
      /\ t.op = "match" /\ t.doomed = doomed /\ t.entries = rules
  <2>1. whole \in BOOLEAN /\ rules \in SUBSET Ruled
    BY <1>3, <1>6
  <2>2. t = Match(first, doomed, rules, whole)
    BY <1>6
  <2>3. QED
    BY <1>8, <2>1, <2>2, Matching
<1>10. \A a \in rules : a \in Entries(kv.index) => Removes(t, a)
  BY <1>8, <1>9 DEF Removes
<1>11. \A a \in rules : Drops(t, a)
  BY <1>9 DEF Drops
<1>12. QED
  BY <1>1, <1>2, <1>7, <1>9, <1>10, <1>11, PurgeGoesOn

(* A record is read for a rule, or all have been and the hosts go.         *)
LEMMA MatchRecordHolds ==
  ASSUME CorpusInv, NEW p \in Request, MatchRecord(p) PROVE CorpusInv'
<1>1. PICK q : q = requests[p]
  OBVIOUS
<1>2. PICK t : t = Head(q.todo)
  OBVIOUS
<1>3. p \in Active /\ t.op = "match"
  BY <1>1, <1>2 DEF MatchRecord, At, Head1
<1>4. /\ q.todo # <<>> /\ TodoOK(q.todo) /\ kv \in Store
  BY <1>1, <1>3, Before
<1>5. t.rest \in Index /\ t.doomed \in Index /\ t.entries \subseteq Ruled /\ t.whole \in BOOLEAN
  <2>1. PICK kind \in Kind : \A u \in Entries(q.todo) : Fits(kind, u)
    BY <1>4 DEF TodoOK
  <2>2. Fits(kind, t)
    BY <1>2, <1>4, <2>1, TodoFacts
  <2>3. QED
    BY <1>3, <2>2, TaskTypes
<1>6. UNCHANGED <<records, kv, overdue, rules, events, clean, lossless>>
  BY DEF MatchRecord
<1>7. ASSUME t.rest # <<>> PROVE CorpusInv'
  <2>1. PICK hit : hit = IF records[Head(t.rest)].label \in t.entries
                         THEN Add(t.doomed, Head(t.rest)) ELSE t.doomed
    OBVIOUS
  <2>2. PICK u : u = Match(Tail(t.rest), hit, t.entries, t.whole)
    OBVIOUS
  <2>3. Continue(p, <<u>>)
    BY <1>1, <1>2, <1>7, <2>1, <2>2 DEF MatchRecord, Head1
  <2>4. Tail(t.rest) \in Index /\ hit \in Index /\ Entries(t.doomed) \subseteq Entries(hit)
    <3>1. Tail(t.rest) \in Index /\ Head(t.rest) \in Address
      BY <1>5, <1>7, RestOfIndex
    <3>2. QED
      BY <1>5, <2>1, <3>1, AddedHost
  <2>5. /\ <<u>> \in Seq(Entries(<<u>>)) /\ InOrder(<<u>>) /\ Entries(<<u>>) = {u}
        /\ Forgetting(u) /\ Plain(u) /\ ~Loud(u)
        /\ u.op = "match" /\ u.doomed = hit /\ u.entries = t.entries
    <3>1. PICK rest \in Index, entries \in SUBSET Ruled, whole \in BOOLEAN :
            rest = Tail(t.rest) /\ entries = t.entries /\ whole = t.whole
      BY <1>5, <2>4
    <3>2. u = Match(rest, hit, entries, whole)
      BY <2>2, <3>1
    <3>3. hit \in Index
      BY <2>4
    <3>4. /\ <<u>> \in Seq(Entries(<<u>>)) /\ InOrder(<<u>>) /\ Entries(<<u>>) = {u}
          /\ Forgetting(u) /\ Plain(u) /\ ~Loud(u)
          /\ u.op = "match" /\ u.doomed = hit /\ u.entries = entries
      BY <3>2, <3>3, Matching
    <3>5. QED
      BY <3>1, <3>4, Zenon
  <2>6. \A a : Removes(t, a) => Removes(u, a)
    BY <1>3, <2>4, <2>5 DEF Removes
  <2>7. \A a : Drops(t, a) => Drops(u, a)
    BY <1>3, <2>5 DEF Drops
  <2>8. QED
    BY <1>1, <1>2, <1>3, <1>6, <2>3, <2>5, <2>6, <2>7, PurgeGoesOn
<1>8. ASSUME t.rest = <<>> PROVE CorpusInv'
  <2>1. PICK first, second, last :
          /\ first = [op |-> "forgetHosts", ips |-> t.doomed]
          /\ second = [op |-> "purgeAttempts", entries |-> t.entries \cap Address]
          /\ last = [op |-> "answer", whole |-> t.whole]
    OBVIOUS
  <2>2. /\ first.op = "forgetHosts" /\ first.ips = t.doomed
        /\ second.op = "purgeAttempts" /\ second.entries = t.entries \cap Address
        /\ last.op = "answer" /\ last.whole = t.whole
    BY <2>1
  <2>3. \A u \in {first, second, last} : Forgetting(u) /\ Plain(u) /\ ~Loud(u) /\ u.op # "set"
    BY <1>5, <2>2 DEF Forgetting, Plain, Loud
  <2>4. PICK tasks : tasks = (IF t.doomed = <<>> THEN <<>> ELSE <<first>>) \o <<second, last>>
    OBVIOUS
  <2>5. Continue(p, tasks)
    BY <1>1, <1>2, <1>8, <2>1, <2>4 DEF MatchRecord, Head1
  <2>6. MayPrecede(first, second) /\ MayPrecede(first, last) /\ MayPrecede(second, last)
    BY <2>2 DEF MayPrecede, Loud
  <2>7. /\ tasks \in Seq(Entries(tasks)) /\ InOrder(tasks)
        /\ Entries(tasks) = (IF t.doomed = <<>> THEN {} ELSE {first}) \cup {second, last}
    <3>1. /\ <<second, last>> \in Seq(Entries(<<second, last>>))
          /\ Entries(<<second, last>>) = {second, last} /\ InOrder(<<second, last>>)
      BY <2>6, TwoTasks
    <3>2. CASE t.doomed = <<>>
      <4>1. tasks = <<second, last>>
        BY <2>4, <3>1, <3>2, NoTasks
      <4>2. QED
        BY <3>1, <3>2, <4>1
    <3>3. CASE t.doomed # <<>>
      <4>1. /\ <<first>> \in Seq(Entries(<<first>>)) /\ Entries(<<first>>) = {first}
            /\ InOrder(<<first>>)
        BY OneTask
      <4>2. tasks = <<first>> \o <<second, last>>
        BY <2>4, <3>3
      <4>3. tasks \in Seq(Entries(tasks)) /\ Entries(tasks) = {first} \cup {second, last}
        BY <3>1, <4>1, <4>2, JoinedSeq
      <4>4. InOrder(tasks)
        BY <2>6, <3>1, <4>1, <4>2, OrderJoined
      <4>5. QED
        BY <3>3, <4>3, <4>4
    <3>4. QED
      BY <3>2, <3>3
  <2>8. \A a : Removes(t, a) => \E u \in Entries(tasks) : Removes(u, a)
    <3>1. SUFFICES ASSUME NEW a, Removes(t, a) PROVE \E u \in Entries(tasks) : Removes(u, a)
      OBVIOUS
    <3>2. a \in Entries(t.doomed)
      BY <1>3, <3>1 DEF Removes
    <3>3. first \in Entries(tasks)
      BY <2>7, <3>2, Written
    <3>4. Removes(first, a)
      BY <2>2, <3>2 DEF Removes
    <3>5. QED
      BY <3>3, <3>4
  <2>9. \A a : a \in kv.attempts /\ Drops(t, a) => Drops(second, a)
    <3>1. kv.attempts \subseteq Address
      BY <1>4 DEF Store
    <3>2. QED
      BY <1>3, <2>2, <3>1 DEF Drops
  <2>10. QED
    BY <1>1, <1>2, <1>3, <1>6, <2>3, <2>5, <2>7, <2>8, <2>9, PurgeGoesOn
<1>9. QED
  BY <1>7, <1>8

(* The purge answers: nothing is left that it had to do.                   *)
LEMMA AnswerPurgeHolds ==
  ASSUME CorpusInv, NEW p \in Request, AnswerPurge(p) PROVE CorpusInv'
<1>1. PICK q : q = requests[p]
  OBVIOUS
<1>2. p \in Active /\ Head(q.todo).op = "answer"
  BY <1>1 DEF AnswerPurge, At, Head1
<1>3. Continue(p, <<>>) /\ UNCHANGED <<records, kv, overdue, rules, events, clean, lossless>>
  BY DEF AnswerPurge
<1>4. \A a : ~Removes(Head(q.todo), a) /\ ~Drops(Head(q.todo), a)
  BY <1>2 DEF Removes, Drops
<1>5. QED
  BY <1>1, <1>2, <1>3, <1>4, OneTask, PurgeGoesOn

(* The tasks of a recount leave alone what the index and the rules say.    *)
LEMMA RecountListed ==
  ASSUME NEW q, NEW m, q.todo \in Seq(Entries(q.todo)), m.todo \in Seq(Entries(m.todo)),
         \A t \in Entries(q.todo) : Fits("recounting", t),
         \A t \in Entries(m.todo) : Fits("recounting", t),
         m.walk = q.walk, WalkOK(q), ListedInv(q), RulesInv(q)
  PROVE  ListedInv(m) /\ RulesInv(m)
<1>1. "recounting" \in Kind
  BY DEF Kind
<1>2. /\ Coming(q) = {} /\ Coming(m) = {} /\ Arriving(m.todo) = {}
      /\ \A t \in Entries(m.todo) : \A a : ~Brings(t, a)
      /\ \A t \in Entries(m.todo) : ~(t.op = "set" /\ t.key = "index")
      /\ q.walk.on = FALSE
  BY <1>1, KindFacts DEF WalkOK
<1>3. ListedInv(m)
  BY <1>2 DEF ListedInv
<1>4. ASSUME NEW t \in Entries(q.todo), NEW a PROVE ~Removes(t, a) /\ ~Drops(t, a)
  <2>1. Fits("recounting", t)
    BY <1>4
  <2>2. t.op \notin {"purge", "match", "forgetHosts", "forget", "purgeAttempts"} /\ t.op # "put" /\ t.op # "update"
    BY <1>1, <2>1, OpKinds
  <2>3. QED
    BY <2>2 DEF Removes, Drops
<1>5. RulesInv(m)
  BY <1>2, <1>4 DEF RulesInv
<1>6. QED
  BY <1>3, <1>5

(* A recount reads the index.                                              *)
LEMMA RecountIndexHolds ==
  ASSUME CorpusInv, NEW p \in Request, RecountIndex(p) PROVE CorpusInv'
<1>1. PICK q : q = requests[p]
  OBVIOUS
<1>2. p \in Active /\ Head(q.todo).op = "recount"
  BY <1>1 DEF RecountIndex, At, Head1
<1>3. /\ HandlerOK(q) /\ q.todo # <<>> /\ TodoOK(q.todo) /\ kv \in Store /\ WalkOK(q)
      /\ lossless /\ Cardinality(Address) <= MaxIndex => ListedInv(q) /\ RulesInv(q)
  BY <1>1, <1>2, Before
<1>4. PICK kind \in Kind : \A t \in Entries(q.todo) : Fits(kind, t)
  BY <1>3 DEF TodoOK
<1>5. /\ Head(q.todo) \in Entries(q.todo) /\ q.todo \in Seq(Entries(q.todo))
      /\ Entries(Tail(q.todo)) = {} /\ Tail(q.todo) = <<>> /\ Entries(q.todo) = {Head(q.todo)}
  BY <1>2, <1>3, TodoFacts, LastTask
<1>6. Head(q.todo).limit \in Nat \ {0}
  <2>1. Fits(kind, Head(q.todo))
    BY <1>4, <1>5
  <2>2. QED
    BY <1>2, <1>4, <2>1, TaskTypes
<1>7. "recounting" \in Kind /\ \A t \in Entries(q.todo) : Fits("recounting", t)
  BY <1>2, <1>5, <1>6 DEF Kind, Fits, Recounting
<1> DEFINE next == [op |-> "compare", limit |-> Head(q.todo).limit, index |-> kv.index]
           tasks == <<next>>
<1>8. Continue(p, tasks)
  BY <1>1 DEF RecountIndex, Head1
<1>9. /\ tasks \in Seq(Entries(tasks)) /\ InOrder(tasks) /\ Entries(tasks) = {next}
      /\ next.op = "compare" /\ next.limit = Head(q.todo).limit /\ next.index = kv.index
  BY OneTask
<1>10. kv.index \in Index
  BY <1>3 DEF Store
<1> HIDE DEF next, tasks
<1>11. \A t \in Entries(tasks) : Fits("recounting", t) /\ Plain(t) /\ ~Loud(t)
  <2>1. Plain(next) /\ ~Loud(next)
    BY <1>9 DEF Plain, Loud
  <2>2. Recounting(next)
    BY <1>6, <1>9, <1>10 DEF Recounting
  <2>3. QED
    BY <1>9, <2>1, <2>2 DEF Fits
<1>12. \A t \in Entries(tasks), u \in Entries(Tail(q.todo)) : MayPrecede(t, u)
  BY <1>5
<1>13. ASSUME NEW m, Continuing(q, tasks, m), \A t \in Entries(m.todo) : Fits("recounting", t)
       PROVE  /\ RecountOf(m)
              /\ lossless /\ Cardinality(Address) <= MaxIndex => ListedInv(m) /\ RulesInv(m)
  <2>1. /\ m.todo \in Seq(Entries(m.todo)) /\ m.walk = q.walk
        /\ Entries(m.todo) = {next}
    BY <1>5, <1>9, <1>13 DEF Continuing
  <2>2. m.todo # <<>> => Head(m.todo) = next
    BY <2>1, RestOf
  <2>3. RecountOf(m)
    BY <1>9, <2>1, <2>2 DEF RecountOf
  <2>4. QED
    BY <1>3, <1>5, <1>7, <1>13, <2>1, <2>3, RecountListed
<1>14. UNCHANGED <<records, kv, overdue, rules, events, clean, lossless>>
  BY DEF RecountIndex
<1>15. Head(q.todo).op \notin {"publish", "resume", "scan", "flush", "screen", "put", "update"}
  BY <1>2
<1>16. QED
  BY <1>1, <1>2, <1>7, <1>8, <1>9, <1>11, <1>12, <1>13, <1>14, <1>15, QuietTasks

(* A recount begins with a batch that has counted nothing.                 *)
LEMMA FreshStaged ==
  ASSUME NEW index \in Index
  PROVE  /\ Fresh(index) \in Staged /\ Fresh(index).ips = index
         /\ NoStaged \in Staged
<1>1. <<>> \in Index /\ Len(index) \in Nat /\ Len(<<>>) = 0
  BY IndexFacts, Written DEF Index
<1>2. PICK none \in [Address -> Label \cup {"absent"}] : none = [a \in Address |-> "absent"]
  OBVIOUS
<1>3. \A st : st.found = none => FoundAny(st) = {}
  BY <1>2 DEF FoundAny
<1>4. NoStaged = [ips |-> <<>>, cursor |-> 0, found |-> none]
  BY <1>2 DEF NoStaged
<1>5. Fresh(index) = [ips |-> index, cursor |-> 0, found |-> none]
  BY <1>4 DEF Fresh
<1>6. /\ Fresh(index) \in [ips : Index, cursor : Nat, found : [Address -> Label \cup {"absent"}]]
      /\ Fresh(index).ips = index /\ Fresh(index).cursor = 0 /\ FoundAny(Fresh(index)) = {}
  BY <1>3, <1>5
<1>7. /\ NoStaged \in [ips : Index, cursor : Nat, found : [Address -> Label \cup {"absent"}]]
      /\ NoStaged.ips = <<>> /\ NoStaged.cursor = 0 /\ FoundAny(NoStaged) = {}
  BY <1>1, <1>3, <1>4
<1>8. QED
  BY <1>1, <1>6, <1>7 DEF Staged

(* A recount resumes what is staged of the same index, or starts over.     *)
LEMMA RecountResumeHolds ==
  ASSUME CorpusInv, NEW p \in Request, RecountResume(p) PROVE CorpusInv'
<1>1. PICK q : q = requests[p]
  OBVIOUS
<1>2. p \in Active /\ Head(q.todo).op = "compare"
  BY <1>1 DEF RecountResume, At, Head1
<1>3. /\ HandlerOK(q) /\ q.todo # <<>> /\ TodoOK(q.todo) /\ kv \in Store /\ WalkOK(q)
      /\ q.alone => RecountOf(q)
      /\ lossless /\ Cardinality(Address) <= MaxIndex => ListedInv(q) /\ RulesInv(q)
  BY <1>1, <1>2, Before
<1>4. PICK kind \in Kind : \A t \in Entries(q.todo) : Fits(kind, t)
  BY <1>3 DEF TodoOK
<1>5. /\ Head(q.todo) \in Entries(q.todo) /\ q.todo \in Seq(Entries(q.todo))
      /\ Entries(Tail(q.todo)) = {} /\ Tail(q.todo) = <<>> /\ Entries(q.todo) = {Head(q.todo)}
  BY <1>2, <1>3, TodoFacts, LastTask
<1>6. kind = "recounting" /\ Head(q.todo).limit \in Nat \ {0} /\ Head(q.todo).index \in Index
  <2>1. Fits(kind, Head(q.todo))
    BY <1>4, <1>5
  <2>2. kind = "recounting"
    BY <1>2, <1>4, <2>1, OpKinds
  <2>3. Head(q.todo).limit \in Nat \ {0} /\ Head(q.todo).index \in Index
    BY <1>2, <1>4, <2>1, TaskTypes
  <2>4. QED
    BY <2>2, <2>3
<1> DEFINE st == IF kv.staged.ips = Head(q.todo).index THEN kv.staged ELSE Fresh(Head(q.todo).index)
           next == [op |-> "page", limit |-> Head(q.todo).limit, staged |-> st]
           tasks == <<next>>
<1>7. Continue(p, tasks)
  BY <1>1 DEF RecountResume, Head1
<1>8. st \in Staged /\ st.ips = Head(q.todo).index
  BY <1>3, <1>6, FreshStaged DEF Store
<1> HIDE DEF st
<1>9. /\ tasks \in Seq(Entries(tasks)) /\ InOrder(tasks) /\ Entries(tasks) = {next}
      /\ next.op = "page" /\ next.limit = Head(q.todo).limit /\ next.staged = st
  BY OneTask
<1> HIDE DEF next, tasks
<1>10. \A t \in Entries(tasks) : Fits(kind, t) /\ Plain(t) /\ ~Loud(t)
  <2>1. Plain(next) /\ ~Loud(next)
    BY <1>9 DEF Plain, Loud
  <2>2. Recounting(next)
    BY <1>6, <1>8, <1>9 DEF Recounting
  <2>3. QED
    BY <1>6, <1>9, <2>1, <2>2 DEF Fits
<1>11. \A t \in Entries(tasks), u \in Entries(Tail(q.todo)) : MayPrecede(t, u)
  BY <1>5
<1>12. ASSUME NEW m, Continuing(q, tasks, m), \A t \in Entries(m.todo) : Fits(kind, t)
       PROVE  /\ m.alone => RecountOf(m)
              /\ lossless /\ Cardinality(Address) <= MaxIndex => ListedInv(m) /\ RulesInv(m)
  <2>1. /\ m.todo \in Seq(Entries(m.todo)) /\ m.walk = q.walk /\ m.alone = q.alone
        /\ Entries(m.todo) = {next}
    BY <1>5, <1>9, <1>12 DEF Continuing
  <2>2. m.todo # <<>> => Head(m.todo) = next
    BY <2>1, RestOf
  <2>3. ASSUME m.alone PROVE RecountOf(m)
    <3>1. Head(q.todo).index = kv.index
      BY <1>2, <1>3, <1>5, <2>1, <2>3 DEF RecountOf
    <3>2. QED
      BY <1>8, <1>9, <2>1, <2>2, <3>1 DEF RecountOf
  <2>4. QED
    BY <1>3, <1>4, <1>5, <1>6, <1>12, <2>1, <2>3, RecountListed
<1>13. UNCHANGED <<records, kv, overdue, rules, events, clean, lossless>>
  BY DEF RecountResume
<1>14. Head(q.todo).op \notin {"publish", "resume", "scan", "flush", "screen", "put", "update"}
  BY <1>2
<1>15. QED
  BY <1>1, <1>2, <1>4, <1>7, <1>9, <1>10, <1>11, <1>12, <1>13, <1>14, QuietTasks

(* A count by label is a count.                                            *)
LEMMA TallyType == ASSUME NEW A \in SUBSET Address PROVE Tally(A) \in [Label -> Nat]
<1>1. \A l : {a \in A : records[a].label = l} \in SUBSET Address
  OBVIOUS
<1>2. \A l : Cardinality({a \in A : records[a].label = l}) \in Nat
  BY <1>1, Finite
<1>3. QED
  BY <1>2 DEF Tally

(* One page of a recount: where it gets to.                                *)
LEMMA PageFacts ==
  ASSUME NEW st \in Staged, NEW limit \in Nat \ {0}, NEW page, page = Page(st, limit)
  PROVE  /\ page \in SUBSET Entries(st.ips) /\ Cardinality(page) \in Nat
         /\ st.cursor + Cardinality(page) <= Len(st.ips)
<1>1. st.ips \in Index /\ st.cursor \in Nat /\ st.cursor <= Len(st.ips)
  BY DEF Staged
<1>2. Len(st.ips) \in Nat /\ DOMAIN st.ips = 1..Len(st.ips) /\ Entries(st.ips) \subseteq Address
  BY <1>1, IndexFacts
<1>3. PICK n \in Nat : n = IF st.cursor + limit < Len(st.ips) THEN st.cursor + limit ELSE Len(st.ips)
  BY <1>1, <1>2
<1>4. (st.cursor + 1)..(st.cursor + limit) \cap DOMAIN st.ips = (st.cursor + 1)..n
  BY <1>1, <1>2, <1>3
<1>5. page = {st.ips[i] : i \in (st.cursor + 1)..n} /\ (st.cursor + 1)..n \subseteq DOMAIN st.ips
  BY <1>1, <1>2, <1>3, <1>4 DEF Page
<1>6. IsFiniteSet(page) /\ Cardinality(page) = IF st.cursor + 1 > n THEN 0 ELSE n - (st.cursor + 1) + 1
  <2>1. PICK k \in Nat : k = st.cursor + 1
    BY <1>1
  <2>2. k..n \subseteq DOMAIN st.ips
    BY <1>5, <2>1
  <2>3. /\ IsFiniteSet({st.ips[i] : i \in k..n})
        /\ Cardinality({st.ips[i] : i \in k..n}) = IF k > n THEN 0 ELSE n - k + 1
    BY <1>1, <2>2, ListedOnce
  <2>4. QED
    BY <1>5, <2>1, <2>3
<1>7. st.cursor + Cardinality(page) = n
  BY <1>1, <1>2, <1>3, <1>6
<1>8. page \in SUBSET Entries(st.ips)
  BY <1>5 DEF Entries
<1>9. Cardinality(page) \in Nat
  BY <1>6, FS_CardinalityType
<1>10. n <= Len(st.ips)
  BY <1>1, <1>2, <1>3
<1>11. QED
  BY <1>7, <1>8, <1>9, <1>10

(* What a recount has found when its page is done, and what the counts of  *)
(* it are if that is what the records say.                                 *)
Finds(st, new) ==
  /\ new.found \in [Address -> Label \cup {"absent"}]
  /\ FoundAny(new) \subseteq Entries(st.ips)
  /\ Cardinality(FoundAny(new)) \in Nat
  /\ [l \in Label |-> Cardinality(FoundWith(new, l))] \in [Label -> Nat]
  /\ (\A a \in Entries(st.ips) : new.found[a] = LabelOf(a)) =>
       /\ FoundAny(new) = Entries(st.ips) \cap Held
       /\ \A l \in Label : FoundWith(new, l) =
                             {a \in Entries(st.ips) \cap Held : records[a].label = l}

Paged(st, page, new) ==
  new.found = [a \in Address |-> IF a \in page THEN LabelOf(a) ELSE st.found[a]]

(* So it is after a page.                                                  *)
LEMMA FoundFacts ==
  ASSUME records \in [Address -> Record \cup {NoRecord}], NEW st \in Staged,
         NEW page \in SUBSET Entries(st.ips), NEW new,
         Paged(st, page, new)
  PROVE  Finds(st, new)
<1>1. \A a \in Address : LabelOf(a) \in Label \cup {"absent"}
  BY DEF LabelOf, Record
<1>2. new.found \in [Address -> Label \cup {"absent"}]
  BY <1>1 DEF Staged, Paged
<1>3. FoundAny(new) \subseteq Entries(st.ips)
  <2>1. SUFFICES ASSUME NEW a \in Address, new.found[a] # "absent", a \notin page
                 PROVE  a \in Entries(st.ips)
    BY DEF FoundAny
  <2>2. st.found[a] # "absent"
    BY <2>1 DEF Paged
  <2>3. QED
    BY <2>1, <2>2 DEF Staged, FoundAny
<1>4. FoundAny(new) \in SUBSET Address /\ \A l : FoundWith(new, l) \in SUBSET Address
  BY DEF FoundAny, FoundWith
<1>5. /\ Cardinality(FoundAny(new)) \in Nat
      /\ [l \in Label |-> Cardinality(FoundWith(new, l))] \in [Label -> Nat]
  BY <1>4, Finite
<1>6. ASSUME \A a \in Entries(st.ips) : new.found[a] = LabelOf(a)
      PROVE  /\ FoundAny(new) = Entries(st.ips) \cap Held
             /\ \A l \in Label : FoundWith(new, l) =
                                   {a \in Entries(st.ips) \cap Held : records[a].label = l}
  <2>1. Entries(st.ips) \subseteq Address /\ \A l \in Label : l # "absent"
    BY IndexFacts, KvAssumption DEF Staged
  <2>2. \A a \in Entries(st.ips) :
           /\ new.found[a] # "absent" <=> a \in Held
           /\ \A l \in Label : new.found[a] = l <=> a \in Held /\ records[a].label = l
    <3>1. SUFFICES ASSUME NEW a \in Entries(st.ips)
                   PROVE  /\ LabelOf(a) # "absent" <=> a \in Held
                          /\ \A l \in Label : LabelOf(a) = l <=> a \in Held /\ records[a].label = l
      BY <1>6
    <3>2. CASE records[a] = NoRecord
      BY <2>1, <3>2 DEF LabelOf, Held
    <3>3. CASE records[a] # NoRecord
      <4>1. records[a] \in Record /\ a \in Held /\ LabelOf(a) = records[a].label
        BY <2>1, <3>3 DEF LabelOf, Held
      <4>2. QED
        BY <2>1, <4>1 DEF Record
    <3>4. QED
      BY <3>2, <3>3
  <2>3. FoundAny(new) = Entries(st.ips) \cap Held
    BY <1>3, <2>1, <2>2 DEF FoundAny
  <2>4. ASSUME NEW l \in Label
        PROVE  FoundWith(new, l) = {a \in Entries(st.ips) \cap Held : records[a].label = l}
    <3>1. FoundWith(new, l) \subseteq FoundAny(new)
      BY <2>1 DEF FoundWith, FoundAny
    <3>2. QED
      BY <1>3, <2>1, <2>2, <3>1 DEF FoundWith
  <2>5. QED
    BY <2>3, <2>4
<1>7. QED
  BY <1>2, <1>3, <1>5, <1>6 DEF Finds

(* The writes that end a recount.                                          *)
Trio(one, two, three) ==
  /\ one = Publish("corpus", one.value, one.whole) /\ one.value \in Nat /\ one.whole \in BOOLEAN
  /\ two = Publish("geo", two.value, one.whole) /\ two.value \in [Label -> Nat]
  /\ three = Set("staged", NoStaged)

(* The writes that end a recount are in order.                             *)
LEMMA Publishing ==
  ASSUME NEW one, NEW two, NEW three, Trio(one, two, three)
  PROVE  /\ TodoOK(<<one, two, three>>) /\ TodoOK(<<two, three>>) /\ TodoOK(<<three>>)
         /\ \A t \in {one, two, three} : Fits("recounting", t) /\ ~Loud(t)
         /\ one.op = "publish" /\ one.key = "corpus"
         /\ two.op = "publish" /\ two.key = "geo" /\ two.whole = one.whole
         /\ three.op = "set" /\ three.key = "staged" /\ three.value = NoStaged
<1>1. /\ one.op = "publish" /\ one.key = "corpus" /\ one.value \in Nat /\ one.whole \in BOOLEAN
      /\ two.op = "publish" /\ two.key = "geo" /\ two.value \in [Label -> Nat]
      /\ two.whole = one.whole
      /\ three.op = "set" /\ three.key = "staged" /\ three.value = NoStaged
  BY DEF Trio, Publish, Set
<1>2. one = Publish("corpus", one.value, one.whole) /\ two = Publish("geo", two.value, one.whole)
      /\ two = Publish("geo", two.value, two.whole)
  BY <1>1 DEF Trio
<1>3. three = Set("staged", NoStaged)
  BY DEF Trio
<1>4. NoStaged \in Staged
  <2>1. <<>> \in Index
    BY Written DEF Index
  <2>2. QED
    BY <2>1, FreshStaged
<1>5. \A t \in {one, two, three} : Fits("recounting", t) /\ ~Loud(t)
  <2>1. Recounting(one) /\ Recounting(two) /\ Recounting(three)
    BY <1>1, <1>4 DEF Recounting
  <2>2. ~Loud(one) /\ ~Loud(two) /\ ~Loud(three)
    BY <1>1 DEF Loud
  <2>3. QED
    BY <2>1, <2>2 DEF Fits
<1>6. "recounting" \in Kind
  BY DEF Kind
<1>7. /\ MayPrecede(one, two) /\ MayPrecede(one, three) /\ MayPrecede(two, three)
  BY <1>1, <1>5 DEF MayPrecede
<1>8. TodoOK(<<one, two, three>>)
  <2>1. InOrder(<<one, two, three>>)
    BY <1>7, Written DEF InOrder
  <2>2. Front(<<one, two, three>>)
    BY <1>5, Written DEF Front
  <2>3. Published(<<one, two, three>>)
    BY <1>2, <1>3, Written DEF Published
  <2>4. QED
    BY <1>5, <1>6, <2>1, <2>2, <2>3, Written DEF TodoOK
<1>9. TodoOK(<<two, three>>)
  <2>1. InOrder(<<two, three>>)
    BY <1>7, Written DEF InOrder
  <2>2. Front(<<two, three>>)
    BY <1>5, Written DEF Front
  <2>3. Published(<<two, three>>)
    BY <1>2, <1>3, Written DEF Published
  <2>4. QED
    BY <1>5, <1>6, <2>1, <2>2, <2>3, Written DEF TodoOK
<1>10. TodoOK(<<three>>)
  <2>1. InOrder(<<three>>) /\ Front(<<three>>)
    BY <1>5, Written DEF InOrder, Front
  <2>2. Published(<<three>>)
    BY <1>1, Written DEF Published, Has
  <2>3. QED
    BY <1>5, <1>6, <2>1, <2>2, Written DEF TodoOK
<1>11. QED
  BY <1>1, <1>5, <1>8, <1>9, <1>10

(* A recount that goes on with other tasks of its own is typed.            *)
LEMMA RecountHandler ==
  ASSUME NEW q, HandlerOK(q), \A t \in Entries(q.todo) : Fits("recounting", t),
         NEW todo, TodoOK(todo), \A t \in Entries(todo) : Fits("recounting", t),
         NEW m, Leaves(q, todo, m)
  PROVE  HandlerOK(m)
<1>1. /\ m.todo = todo /\ m.read = <<>> /\ m.batch = q.batch /\ m.walk = q.walk /\ m.alone = q.alone
      /\ DOMAIN m = {"todo", "read", "batch", "walk", "alone"} /\ m.alone \in BOOLEAN
      /\ TodoOK(q.todo) /\ BatchOK(q) /\ WalkOK(q)
  BY DEF Leaves, HandlerOK
<1>2. "recounting" \in Kind
  BY DEF Kind
<1>3. q.todo \in Seq(Entries(q.todo)) /\ m.todo \in Seq(Entries(m.todo))
  BY <1>1 DEF TodoOK
<1>4. /\ Has(m.todo, {"flush"}) = FALSE /\ Has(m.todo, {"screen"}) = FALSE
      /\ Has(m.todo, {"contact"}) = FALSE /\ Has(m.todo, {"resume", "scan"}) = FALSE
      /\ Has(q.todo, {"resume", "scan"}) = FALSE
  BY <1>1, <1>2, <1>3, KindFacts
<1>5. BatchOK(m)
  BY <1>1, <1>4 DEF BatchOK
<1>6. WalkOK(m)
  BY <1>1, <1>4 DEF WalkOK
<1>7. ReadOK(m)
  BY <1>1 DEF ReadOK, Nothing
<1>8. QED
  BY <1>1, <1>5, <1>6, <1>7 DEF HandlerOK

(* A recount counts a page, and publishes what it has when it is through.  *)
LEMMA RecountPageHolds ==
  ASSUME CorpusInv, NEW p \in Request, RecountPage(p) PROVE CorpusInv'
<1>1. PICK q : q = requests[p]
  OBVIOUS
<1>2. p \in Active /\ Head(q.todo).op = "page"
  BY <1>1, Zenon DEF RecountPage, At, Head1
<1>3. /\ HandlerOK(q) /\ q.todo # <<>> /\ TodoOK(q.todo) /\ kv \in Store /\ WalkOK(q)
      /\ q.alone => RecountOf(q)
      /\ lossless /\ Cardinality(Address) <= MaxIndex => ListedInv(q) /\ RulesInv(q)
  BY <1>1, <1>2, Before
<1>4. PICK kind \in Kind : \A t \in Entries(q.todo) : Fits(kind, t)
  BY <1>3 DEF TodoOK
<1>5. /\ Head(q.todo) \in Entries(q.todo) /\ q.todo \in Seq(Entries(q.todo))
      /\ Entries(Tail(q.todo)) = {} /\ Tail(q.todo) = <<>> /\ Entries(q.todo) = {Head(q.todo)}
  BY <1>2, <1>3, TodoFacts, LastTask
<1>6. kind = "recounting" /\ Head(q.todo).limit \in Nat \ {0} /\ Head(q.todo).staged \in Staged
  <2>1. Fits(kind, Head(q.todo))
    BY <1>4, <1>5
  <2>2. kind = "recounting"
    BY <1>2, <1>4, <2>1, OpKinds
  <2>3. Head(q.todo).limit \in Nat \ {0} /\ Head(q.todo).staged \in Staged
    BY <1>2, <1>4, <2>1, TaskTypes, Zenon
  <2>4. QED
    BY <2>2, <2>3
<1>st. PICK st \in Staged : st = Head(q.todo).staged
  BY <1>6
<1>7. PICK page, new, whole, counts :
        /\ st = Head(q.todo).staged /\ page = Page(st, Head(q.todo).limit)
        /\ new = [st EXCEPT !.cursor = @ + Cardinality(page),
                            !.found = [a \in Address |-> IF a \in page THEN LabelOf(a)
                                                         ELSE st.found[a]]]
        /\ whole = (\A a \in Entries(st.ips) : new.found[a] = LabelOf(a))
        /\ counts = [l \in Label |-> Cardinality(FoundWith(new, l))]
  BY <1>st
<1>8. PICK tasks : tasks = IF new.cursor < Len(st.ips) THEN <<Set("staged", new)>>
                           ELSE <<Publish("corpus", Cardinality(FoundAny(new)), whole),
                                  Publish("geo", counts, whole), Set("staged", NoStaged)>>
  OBVIOUS
<1>9. Continue(p, tasks)
  BY <1>1, <1>7, <1>8, Zenon DEF RecountPage, Head1
<1>10. /\ page \in SUBSET Entries(st.ips) /\ Cardinality(page) \in Nat
       /\ st.cursor + Cardinality(page) <= Len(st.ips)
       /\ st.ips \in Index /\ st.cursor \in Nat /\ Len(st.ips) \in Nat
       /\ st \in [ips : Index, cursor : Nat, found : [Address -> Label \cup {"absent"}]]
  <2>1. /\ page \in SUBSET Entries(st.ips) /\ Cardinality(page) \in Nat
        /\ st.cursor + Cardinality(page) <= Len(st.ips)
    BY <1>6, <1>7, PageFacts
  <2>2. st \in [ips : Index, cursor : Nat, found : [Address -> Label \cup {"absent"}]]
    BY DEF Staged
  <2>3. st.ips \in Index /\ st.cursor \in Nat
    BY <2>2
  <2>4. QED
    BY <2>1, <2>2, <2>3, IndexFacts
<1>11. /\ new.ips = st.ips /\ new.cursor = st.cursor + Cardinality(page)
       /\ new.found = [a \in Address |-> IF a \in page THEN LabelOf(a) ELSE st.found[a]]
       /\ DOMAIN new = {"ips", "cursor", "found"}
       /\ new = [ips |-> new.ips, cursor |-> new.cursor, found |-> new.found]
  BY <1>7, <1>10
<1>12. /\ new.found \in [Address -> Label \cup {"absent"}]
       /\ FoundAny(new) \subseteq Entries(st.ips)
       /\ Cardinality(FoundAny(new)) \in Nat /\ counts \in [Label -> Nat]
       /\ whole => /\ FoundAny(new) = Entries(st.ips) \cap Held
                   /\ \A l \in Label : FoundWith(new, l) =
                                         {a \in Entries(st.ips) \cap Held : records[a].label = l}
  <2>1. records \in [Address -> Record \cup {NoRecord}]
    BY DEF CorpusInv, TypeOK
  <2>2. Finds(st, new)
    <3>1. st \in Staged /\ page \in SUBSET Entries(st.ips)
      BY <1>7, <1>10
    <3>2. Paged(st, page, new)
      BY <1>11 DEF Paged
    <3>3. QED
      BY <2>1, <3>1, <3>2, FoundFacts
  <2>3. /\ whole => \A a \in Entries(st.ips) : new.found[a] = LabelOf(a)
        /\ counts = [l \in Label |-> Cardinality(FoundWith(new, l))]
    BY <1>7
  <2>4. QED
    BY <2>2, <2>3 DEF Finds
<1>13. UNCHANGED <<records, kv, overdue, rules, events, clean, lossless>>
  BY DEF RecountPage
<1>14. CASE new.cursor < Len(st.ips)
  <2>1. new \in Staged
    <3>1. new.ips \in Index /\ new.cursor \in Nat /\ new.cursor <= Len(new.ips)
      BY <1>10, <1>11
    <3>2. new \in [ips : Index, cursor : Nat, found : [Address -> Label \cup {"absent"}]]
      BY <1>11, <1>12, <3>1
    <3>3. QED
      BY <1>11, <1>12, <3>1, <3>2 DEF Staged
  <2>2. /\ tasks = <<Set("staged", new)>> /\ Set("staged", new).op = "set"
        /\ Set("staged", new).key = "staged" /\ Set("staged", new).value = new
    BY <1>8, <1>14 DEF Set
  <2>3. PICK next : next = Set("staged", new)
    OBVIOUS
  <2>4. /\ tasks \in Seq(Entries(tasks)) /\ InOrder(tasks) /\ Entries(tasks) = {next}
    BY <2>2, <2>3, OneTask
  <2>5. \A t \in Entries(tasks) : Fits(kind, t) /\ Plain(t) /\ ~Loud(t)
    <3>1. Plain(next) /\ ~Loud(next)
      BY <2>2, <2>3 DEF Plain, Loud
    <3>2. Recounting(next)
      BY <2>1, <2>2, <2>3 DEF Recounting
    <3>3. QED
      BY <1>6, <2>4, <3>1, <3>2 DEF Fits
  <2>6. \A t \in Entries(tasks), u \in Entries(Tail(q.todo)) : MayPrecede(t, u)
    BY <1>5
  <2>7. ASSUME NEW m, Continuing(q, tasks, m), \A t \in Entries(m.todo) : Fits(kind, t)
        PROVE  /\ m.alone => RecountOf(m)
               /\ lossless /\ Cardinality(Address) <= MaxIndex => ListedInv(m) /\ RulesInv(m)
    <3>1. /\ m.todo \in Seq(Entries(m.todo)) /\ m.walk = q.walk
          /\ Entries(m.todo) = {next}
      BY <1>5, <2>4, <2>7 DEF Continuing
    <3>2. m.todo # <<>> => Head(m.todo) = next
      BY <3>1, RestOf
    <3>3. RecountOf(m)
      BY <2>2, <2>3, <3>1, <3>2 DEF RecountOf
    <3>4. QED
      BY <1>3, <1>4, <1>5, <1>6, <2>7, <3>1, <3>3, RecountListed
  <2>8. Head(q.todo).op \notin {"publish", "resume", "scan", "flush", "screen", "put", "update"}
    BY <1>2
  <2>9. QED
    BY <1>1, <1>2, <1>4, <1>9, <1>13, <2>4, <2>5, <2>6, <2>7, <2>8, QuietTasks
<1>15. CASE ~(new.cursor < Len(st.ips))
  <2>1. PICK w \in BOOLEAN : w = whole
    BY <1>7
  <2>2. PICK total, one, two, three : /\ total = Cardinality(FoundAny(new))
                                      /\ one = Publish("corpus", total, w)
                                      /\ two = Publish("geo", counts, w)
                                      /\ three = Set("staged", NoStaged)
    OBVIOUS
  <2>3. tasks = <<one, two, three>>
    BY <1>8, <1>15, <2>1, <2>2
  <2>4. /\ TodoOK(<<one, two, three>>)
        /\ \A t \in {one, two, three} : Fits("recounting", t) /\ ~Loud(t)
        /\ one.op = "publish" /\ one.key = "corpus" /\ one.value = total /\ one.whole = w
        /\ two.op = "publish" /\ two.key = "geo" /\ two.value = counts /\ two.whole = w
        /\ three.op = "set" /\ three.key = "staged" /\ three.value = NoStaged
    <3>1. total \in Nat /\ counts \in [Label -> Nat]
      BY <1>12, <2>2
    <3>2. /\ one.value = total /\ one.whole = w
          /\ two.value = counts /\ two.whole = w
      BY <2>2 DEF Publish
    <3>3. Trio(one, two, three)
      BY <2>1, <2>2, <3>1, <3>2 DEF Trio
    <3>4. QED
      BY <3>2, <3>3, Publishing
  <2>5. /\ tasks \o Tail(q.todo) = tasks /\ tasks # <<>> /\ Entries(tasks) = {one, two, three}
        /\ tasks \in Seq(Entries(tasks)) /\ Head(tasks) = one
    <3>1. /\ tasks # <<>> /\ Entries(tasks) = {one, two, three}
          /\ tasks \in Seq(Entries(tasks)) /\ Head(tasks) = one
      BY <2>3, Written
    <3>2. tasks \o <<>> = tasks
      BY <3>1, NoTasks
    <3>3. QED
      BY <1>5, <3>1, <3>2
  <2>6. PICK m : m = [q EXCEPT !.todo = tasks, !.read = Nothing]
    OBVIOUS
  <2>7. Leaves(q, tasks, m) /\ m.todo = tasks /\ m.read = <<>> /\ m.alone = q.alone
        /\ m.walk = q.walk /\ m.batch = q.batch
    BY <1>3, <2>6 DEF HandlerOK, Nothing, Leaves
  <2>8. HandlerOK(m)
    <3>1. TodoOK(tasks) /\ \A t \in Entries(tasks) : Fits("recounting", t)
      BY <2>3, <2>4, <2>5
    <3>2. QED
      BY <1>3, <1>4, <1>6, <2>7, <3>1, RecountHandler
  <2>9. requests' = [requests EXCEPT ![p] = IF m.todo = <<>> THEN Idle ELSE m]
    BY <1>1, <1>9, <2>5, <2>6, <2>7 DEF Continue, Rest
  <2>10. ASSUME m.alone PROVE RecountOf(m)
    <3>1. st.ips = kv.index
      BY <1>2, <1>3, <1>5, <1>7, <2>7, <2>10 DEF RecountOf
    <3>2. ASSUME w
          PROVE  total = Cardinality(Listed) /\ counts = Tally(Listed)
      <4>1. FoundAny(new) = Listed
        BY <1>12, <2>1, <3>1, <3>2 DEF Listed
      <4>2. \A l \in Label : FoundWith(new, l) = {a \in Listed : records[a].label = l}
        BY <1>12, <2>1, <3>1, <3>2 DEF Listed
      <4>3. QED
        BY <1>7, <2>2, <4>1, <4>2 DEF Tally
    <3>3. QED
      BY <2>4, <2>5, <2>7, <3>2 DEF RecountOf
  <2>11. /\ lossless /\ Cardinality(Address) <= MaxIndex => ListedInv(m) /\ RulesInv(m)
         /\ Has(m.todo, {"flush"}) = Has(q.todo, {"flush"})
    <3>1. "recounting" \in Kind
      BY DEF Kind
    <3>2. m.todo \in Seq(Entries(m.todo)) /\ \A t \in Entries(m.todo) : Fits("recounting", t)
      BY <2>4, <2>5, <2>7
    <3>3. lossless /\ Cardinality(Address) <= MaxIndex => ListedInv(m) /\ RulesInv(m)
      BY <1>3, <1>4, <1>5, <1>6, <2>7, <3>2, RecountListed
    <3>4. Has(m.todo, {"flush"}) = FALSE /\ Has(q.todo, {"flush"}) = FALSE
      BY <1>4, <1>5, <1>6, <3>1, <3>2, KindFacts
    <3>5. QED
      BY <3>3, <3>4
  <2>12. ~Loud(Head(q.todo)) /\ \A t \in Entries(m.todo) : ~Loud(t)
    BY <1>2, <2>4, <2>5, <2>7 DEF Loud
  <2>13. QED
    BY <1>1, <1>2, <1>13, <2>7, <2>8, <2>9, <2>10, <2>11, <2>12, QuietStep
<1>16. QED
  BY <1>14, <1>15

(* One value of the stores is written.                                     *)
Wrote(key, v) == kv' = [k \in DOMAIN kv |-> IF k = key THEN v ELSE kv[k]]

ValueOK(key, v) ==
  \/ key = "index" /\ v \in Index
  \/ key = "geo" /\ v \in [Label -> Nat]
  \/ key = "corpus" /\ v \in Nat
  \/ key = "cursor" /\ v \in Address \cup {NoAddress}
  \/ key = "staged" /\ v \in Staged
  \/ key = "attempts" /\ v \in SUBSET Address

(* Writing one value of its kind leaves the stores typed.                  *)
LEMMA StoreWrite ==
  ASSUME kv \in Store, NEW key, NEW v, Wrote(key, v), ValueOK(key, v)
  PROVE  /\ kv' \in Store
         /\ kv'.index = IF key = "index" THEN v ELSE kv.index
         /\ kv'.geo = IF key = "geo" THEN v ELSE kv.geo
         /\ kv'.corpus = IF key = "corpus" THEN v ELSE kv.corpus
         /\ kv'.attempts = IF key = "attempts" THEN v ELSE kv.attempts
<1>1. /\ DOMAIN kv = {"index", "geo", "corpus", "cursor", "staged", "attempts", "ready"}
      /\ kv.index \in Index /\ kv.geo \in [Label -> Nat] /\ kv.corpus \in Nat
      /\ kv.cursor \in Address \cup {NoAddress} /\ kv.staged \in Staged
      /\ kv.attempts \in SUBSET Address /\ kv.ready \in BOOLEAN
  BY DEF Store
<1>2. /\ kv'.index = IF key = "index" THEN v ELSE kv.index
      /\ kv'.geo = IF key = "geo" THEN v ELSE kv.geo
      /\ kv'.corpus = IF key = "corpus" THEN v ELSE kv.corpus
      /\ kv'.cursor = IF key = "cursor" THEN v ELSE kv.cursor
      /\ kv'.staged = IF key = "staged" THEN v ELSE kv.staged
      /\ kv'.attempts = IF key = "attempts" THEN v ELSE kv.attempts
      /\ key # "ready" => kv'.ready = kv.ready
      /\ DOMAIN kv' = {"index", "geo", "corpus", "cursor", "staged", "attempts", "ready"}
  BY <1>1 DEF Wrote
<1>3. /\ kv'.index \in Index /\ kv'.geo \in [Label -> Nat] /\ kv'.corpus \in Nat
      /\ kv'.cursor \in Address \cup {NoAddress} /\ kv'.staged \in Staged
      /\ kv'.attempts \in SUBSET Address /\ kv'.ready \in BOOLEAN
  BY <1>1, <1>2 DEF ValueOK
<1>4. kv' = [k \in DOMAIN kv' |-> kv'[k]]
  BY DEF Wrote
<1>5. kv' \in Store
  BY <1>2, <1>3, <1>4 DEF Store
<1>6. QED
  BY <1>2, <1>5

(* What is listed and what is to go do not depend on the counts.           *)
LEMMA SameLists ==
  ASSUME NEW m, records' = records, kv'.index = kv.index, kv'.attempts = kv.attempts, rules' = rules
  PROVE  /\ ListedInv(m) => ListedInv(m)'
         /\ RulesInv(m) => RulesInv(m)'
         /\ Held' = Held /\ Listed' = Listed
<1>1. Held' = Held
  BY DEF Held
<1>2. Listed' = Listed
  BY <1>1 DEF Listed
<1>3. ListedInv(m) => ListedInv(m)'
  BY <1>1 DEF ListedInv
<1>4. RulesInv(m) => RulesInv(m)'
  BY <1>1 DEF RulesInv
<1>5. QED
  BY <1>1, <1>2, <1>3, <1>4

(* A request whose first task is done.                                     *)
LEMMA DoneTask ==
  ASSUME NEW q, HandlerOK(q), q.todo # <<>>,
         Head(q.todo).op \notin {"publish", "resume", "scan", "flush", "screen"},
         NEW kind \in Kind, \A t \in Entries(q.todo) : Fits(kind, t),
         NEW m, Leaves(q, Tail(q.todo), m)
  PROVE  /\ HandlerOK(m) /\ m.todo \in Seq(Entries(m.todo))
         /\ Entries(q.todo) = {Head(q.todo)} \cup Entries(m.todo)
         /\ Has(m.todo, {"flush"}) = Has(q.todo, {"flush"})
         /\ \A t \in Entries(m.todo) : Fits(kind, t)
<1>1. TodoOK(q.todo)
  BY DEF HandlerOK
<1>2. Tail(q.todo) \in Seq(Entries(Tail(q.todo))) /\ m.todo = Tail(q.todo)
  BY <1>1, TodoFacts DEF Leaves
<1>3. <<>> \o Tail(q.todo) = Tail(q.todo)
  BY <1>2, NoTasks
<1>4. Leaves(q, <<>> \o Tail(q.todo), m)
  BY <1>3
<1>5. /\ <<>> \in Seq(Entries(<<>>)) /\ InOrder(<<>>) /\ Front(<<>>)
      /\ \A t \in Entries(<<>>) : Fits(kind, t) /\ Plain(t)
      /\ \A t \in Entries(<<>>), u \in Entries(Tail(q.todo)) : MayPrecede(t, u)
  BY Written, NothingLeft
<1>6. /\ HandlerOK(m)
      /\ Entries(q.todo) = {Head(q.todo)} \cup Entries(Tail(q.todo))
      /\ Has(m.todo, {"flush"}) = Has(q.todo, {"flush"})
      /\ m.todo \in Seq(Entries(m.todo)) /\ \A t \in Entries(m.todo) : Fits(kind, t)
  BY <1>4, <1>5, Continued
<1>7. QED
  BY <1>2, <1>6

(* What Continue leaves of a request at work.                              *)
LEMMA Goes ==
  ASSUME CorpusInv, NEW p \in Active, NEW q, q = requests[p], NEW tasks, Continue(p, tasks)
  PROVE  \E m : /\ Leaves(q, tasks \o Tail(q.todo), m)
                /\ requests' = [requests EXCEPT ![p] = IF m.todo = <<>> THEN Idle ELSE m]
<1>1. HandlerOK(q) /\ q.todo # <<>> /\ TodoOK(q.todo)
  BY Before
<1>2. PICK m : m = [q EXCEPT !.todo = tasks \o Tail(q.todo), !.read = Nothing]
  OBVIOUS
<1>3. Leaves(q, tasks \o Tail(q.todo), m)
  BY <1>1, <1>2 DEF Leaves, HandlerOK, Nothing
<1>4. m.todo = tasks \o Tail(q.todo)
  BY <1>3 DEF Leaves
<1>5. requests' = [requests EXCEPT ![p] = IF m.todo = <<>> THEN Idle ELSE m]
  BY <1>2, <1>4 DEF Continue, Rest
<1>6. QED
  BY <1>3, <1>5

(* What Continue leaves when the first task leads to nothing.              *)
LEMMA Done ==
  ASSUME CorpusInv, NEW p \in Active, NEW q, q = requests[p], Continue(p, <<>>)
  PROVE  \E m : /\ Leaves(q, Tail(q.todo), m)
                /\ requests' = [requests EXCEPT ![p] = IF m.todo = <<>> THEN Idle ELSE m]
<1>1. HandlerOK(q) /\ q.todo # <<>> /\ TodoOK(q.todo)
  BY Before
<1>2. Tail(q.todo) \in Seq(Entries(Tail(q.todo)))
  BY <1>1, TodoFacts
<1>3. <<>> \o Tail(q.todo) = Tail(q.todo)
  BY <1>2, NoTasks
<1>4. PICK m : /\ Leaves(q, <<>> \o Tail(q.todo), m)
               /\ requests' = [requests EXCEPT ![p] = IF m.todo = <<>> THEN Idle ELSE m]
  BY Goes
<1>5. Leaves(q, Tail(q.todo), m)
  BY <1>3, <1>4
<1>6. QED
  BY <1>4, <1>5

(* A value is written over what was there.                                 *)
LEMMA SetKeyHolds ==
  ASSUME CorpusInv, NEW p \in Request, SetKey(p) PROVE CorpusInv'
<1>1. PICK q : q = requests[p]
  OBVIOUS
<1>2. p \in Active /\ Head(q.todo).op = "set"
  BY <1>1 DEF SetKey, At, Head1
<1>3. /\ HandlerOK(q) /\ q.todo # <<>> /\ TodoOK(q.todo) /\ kv \in Store /\ WalkOK(q)
      /\ records \in [Address -> Record \cup {NoRecord}]
      /\ overdue \subseteq Held /\ rules \subseteq Ruled /\ events \in Nat
      /\ clean \in BOOLEAN /\ lossless \in BOOLEAN
      /\ clean => /\ \A a \in Address : records[a].marker # "legacy"
                  /\ Balanced(WithBatch(q, After(q.todo, Now)))
                  /\ q.alone
      /\ q.alone => RecountOf(q)
      /\ lossless /\ Cardinality(Address) <= MaxIndex => ListedInv(q) /\ RulesInv(q)
  BY <1>1, <1>2, Before
<1>4. PICK kind \in Kind : \A t \in Entries(q.todo) : Fits(kind, t)
  BY <1>3 DEF TodoOK
<1>5. /\ Head(q.todo) \in Entries(q.todo) /\ q.todo \in Seq(Entries(q.todo))
      /\ \A u \in Entries(Tail(q.todo)) : MayPrecede(Head(q.todo), u)
      /\ ~Loud(Head(q.todo)) => \A u \in Entries(q.todo) : ~Loud(u)
      /\ Head(q.todo).op # "publish" => \A u \in Entries(q.todo) : u.op # "publish"
  BY <1>3, TodoFacts
<1>6. PICK m : /\ Leaves(q, Tail(q.todo), m)
               /\ requests' = [requests EXCEPT ![p] = IF m.todo = <<>> THEN Idle ELSE m]
  BY <1>1, <1>2, Done DEF SetKey
<1>7. /\ m.todo = Tail(q.todo) /\ m.read = <<>> /\ m.alone = q.alone /\ m.walk = q.walk
      /\ m.batch = q.batch
  BY <1>6 DEF Leaves
<1>8. /\ HandlerOK(m) /\ m.todo \in Seq(Entries(m.todo))
      /\ Entries(q.todo) = {Head(q.todo)} \cup Entries(m.todo)
      /\ Has(m.todo, {"flush"}) = Has(q.todo, {"flush"})
      /\ \A t \in Entries(m.todo) : Fits(kind, t)
  <2>1. Head(q.todo).op \notin {"publish", "resume", "scan", "flush", "screen"}
    BY <1>2
  <2>2. QED
    BY <1>3, <1>4, <1>6, <2>1, DoneTask
<1>9. PICK key, v : key = Head(q.todo).key /\ v = Head(q.todo).value
  OBVIOUS
<1>10. /\ \/ key = "index" /\ v \in Index /\ kind \in {"forgetting", "sweeping"}
          \/ key = "cursor" /\ v \in Address \cup {NoAddress} /\ kind = "sweeping"
          \/ key = "staged" /\ v \in Staged /\ kind = "recounting"
       /\ ValueOK(key, v)
  <2>1. Fits(kind, Head(q.todo))
    BY <1>4, <1>5
  <2>2. /\ key \in {"index", "cursor", "staged"}
        /\ key = "index" => kind \in {"forgetting", "sweeping"}
        /\ key = "cursor" => kind = "sweeping"
        /\ key = "staged" => kind = "recounting"
    BY <1>2, <1>4, <1>9, <2>1, OpKinds
  <2>3. /\ key = "index" => v \in Index
        /\ key = "cursor" => v \in Address \cup {NoAddress}
        /\ key = "staged" => v \in Staged
    BY <1>2, <1>4, <1>9, <2>1, TaskTypes
  <2>4. QED
    BY <2>2, <2>3 DEF ValueOK
<1>11. Wrote(key, v)
  BY <1>1, <1>9 DEF SetKey, Head1, Wrote
<1>12. /\ kv' \in Store
       /\ kv'.index = IF key = "index" THEN v ELSE kv.index
       /\ kv'.geo = kv.geo /\ kv'.corpus = kv.corpus /\ kv'.attempts = kv.attempts
  <2>1. key # "geo" /\ key # "corpus" /\ key # "attempts"
    BY <1>10
  <2>2. QED
    BY <1>3, <1>10, <1>11, <2>1, StoreWrite
<1>13. UNCHANGED <<records, overdue, rules, events, clean, lossless>>
  BY DEF SetKey
<1>14. Held' = Held /\ Now' = Now
  BY <1>12, <1>13 DEF Held, Now
<1>15. clean' => Balanced(WithBatch(m, After(m.todo, Now)))'
  <2>1. \A t \in Entries(q.todo) : ~Loud(t)
    BY <1>2, <1>5 DEF Loud
  <2>2. After(m.todo, Now) = Now /\ After(q.todo, Now) = Now
    BY <1>8, <2>1, AfterQuiet
  <2>3. WithBatch(m, After(m.todo, Now)) = WithBatch(q, After(q.todo, Now))
    BY <1>7, <1>8, <2>2 DEF WithBatch
  <2>4. QED
    BY <1>3, <1>13, <1>14, <2>3 DEF Balanced
<1>16. ASSUME m.alone PROVE RecountOf(m)'
  <2>1. CASE kind # "recounting"
    BY <1>8, <2>1, KindFacts
  <2>2. CASE kind = "recounting"
    <3>1. kv'.index = kv.index
      BY <1>10, <1>12, <2>2
    <3>2. \A t \in Entries(m.todo) : t.op # "publish"
      BY <1>2, <1>5, <1>8
    <3>3. m.todo # <<>> => Head(m.todo).op # "publish"
      BY <1>8, <3>2, RestOf
    <3>4. RecountOf(q)
      BY <1>3, <1>7, <1>16
    <3>5. \A t \in Entries(m.todo) : /\ t.op = "compare" => t.index = kv'.index
                                     /\ t.op = "page" => t.staged.ips = kv'.index
      BY <1>8, <3>1, <3>4 DEF RecountOf
    <3>6. QED
      BY <3>2, <3>3, <3>5 DEF RecountOf
  <2>3. QED
    BY <2>1, <2>2
<1>17. ASSUME lossless, Cardinality(Address) <= MaxIndex PROVE ListedInv(m)' /\ RulesInv(m)'
  <2>1. ListedInv(q) /\ RulesInv(q)
    BY <1>3, <1>17
  <2>2. kind # "recording"
    BY <1>10
  <2>3. /\ Coming(q) = {} /\ Coming(m) = {} /\ Arriving(m.todo) = {}
        /\ \A t \in Entries(m.todo) : \A a : ~Brings(t, a)
    BY <1>4, <1>5, <1>8, <2>2, KindFacts
  <2>4. Leaving(m.todo) = {} /\ Leaving(q.todo) = {}
    <3>1. \A u \in Entries(q.todo) : u.op # "forget" /\ u.op # "put"
      BY <1>2, <1>5, <1>7, <1>8 DEF MayPrecede
    <3>2. QED
      BY <1>8, <3>1 DEF Leaving
  <2>5. q.walk.on = FALSE
    <3>1. \A u \in Entries(q.todo) : u.op # "resume" /\ u.op # "scan"
      BY <1>2, <1>5, <1>7, <1>8 DEF MayPrecede
    <3>2. QED
      BY <1>3, <3>1 DEF WalkOK, Has
  <2>6. Held \subseteq Entries(kv'.index)
    <3>1. CASE key = "index"
      BY <1>2, <1>5, <1>9, <1>12, <2>1, <2>4, <3>1 DEF ListedInv
    <3>2. CASE key # "index"
      BY <1>12, <2>1, <2>3, <3>2 DEF ListedInv
    <3>3. QED
      BY <3>1, <3>2
  <2>7. \A t \in Entries(m.todo) : t.op = "set" /\ t.key = "index" =>
          Held \subseteq Entries(t.value) \cup Leaving(m.todo)
    BY <1>8, <2>1, <2>4 DEF ListedInv
  <2>8. ListedInv(m)'
    BY <1>7, <1>14, <2>3, <2>5, <2>6, <2>7 DEF ListedInv
  <2>9. RulesInv(m)
    <3>1. \A a : ~Removes(Head(q.todo), a) /\ ~Drops(Head(q.todo), a)
      BY <1>2 DEF Removes, Drops
    <3>2. QED
      BY <1>8, <2>1, <2>3, <3>1 DEF RulesInv
  <2>10. RulesInv(m)'
    BY <1>12, <1>13, <1>14, <2>9 DEF RulesInv
  <2>11. QED
    BY <2>8, <2>10
<1>18. /\ overdue' \subseteq Held' /\ rules' \subseteq Ruled /\ events' \in Nat
       /\ clean' \in BOOLEAN /\ lossless' = lossless /\ records' \in [Address -> Record \cup {NoRecord}]
       /\ clean' => \A a \in Address : records'[a].marker # "legacy"
  BY <1>3, <1>13, <1>14
<1>19. (clean' => clean \/ m.alone) /\ (lossless \/ m.alone =>
           (m.todo # <<>> /\ m.read # Nothing => m.read[1] = kv'[Head(m.todo).key]))
  BY <1>7, <1>13 DEF Nothing
<1>20. QED
  BY <1>1, <1>2, <1>6, <1>7, <1>8, <1>12, <1>15, <1>16, <1>17, <1>18, <1>19, StepHolds

(* A step that changes no store.                                           *)
LEMMA StoresStay ==
  ASSUME CorpusInv, NEW p \in Active, NEW m, HandlerOK(m), m.alone = requests[p].alone,
         UNCHANGED <<records, kv, overdue, rules, lossless>>,
         events' \in Nat, clean' \in BOOLEAN, clean' => clean,
         requests' = [requests EXCEPT ![p] = IF m.todo = <<>> THEN Idle ELSE m],
         m.todo # <<>> /\ m.read # Nothing => m.read[1] = kv[Head(m.todo).key],
         clean' => Balanced(WithBatch(m, After(m.todo, Now))),
         m.alone => RecountOf(m),
         lossless /\ Cardinality(Address) <= MaxIndex => ListedInv(m) /\ RulesInv(m)
  PROVE  CorpusInv'
<1>1. /\ records \in [Address -> Record \cup {NoRecord}] /\ kv \in Store
      /\ overdue \subseteq Held /\ rules \subseteq Ruled
      /\ clean => \A a \in Address : records[a].marker # "legacy"
  BY Before
<1>2. /\ Held' = Held /\ Listed' = Listed /\ Now' = Now
      /\ records' = records /\ kv' = kv /\ rules' = rules /\ overdue' = overdue /\ lossless' = lossless
  BY DEF Held, Listed, Now
<1>3. clean' => Balanced(WithBatch(m, After(m.todo, Now)))'
  BY <1>2 DEF Balanced
<1>4. m.alone => RecountOf(m)'
  BY <1>2 DEF RecountOf, Tally
<1>5. lossless /\ Cardinality(Address) <= MaxIndex => ListedInv(m)' /\ RulesInv(m)'
  <2>1. ListedInv(m) => ListedInv(m)'
    BY <1>2 DEF ListedInv
  <2>2. RulesInv(m) => RulesInv(m)'
    BY <1>2 DEF RulesInv
  <2>3. QED
    BY <2>1, <2>2
<1>6. QED
  BY <1>1, <1>2, <1>3, <1>4, <1>5, StepHolds

(* What a request has read and whether it is alone is nothing the stores   *)
(* have to agree with.                                                     *)
LEMMA SameWork ==
  ASSUME NEW q, NEW m, m.todo = q.todo, m.walk = q.walk, m.batch = q.batch
  PROVE  /\ RecountOf(q) => RecountOf(m)
         /\ ListedInv(q) => ListedInv(m)
         /\ RulesInv(q) => RulesInv(m)
         /\ \A s : WithBatch(m, s) = WithBatch(q, s)
<1>1. Coming(m) = Coming(q)
  BY DEF Coming
<1>2. QED
  BY <1>1 DEF RecountOf, ListedInv, RulesInv, WithBatch

(* A read-modify-write reads.                                              *)
LEMMA ReadKeyHolds ==
  ASSUME CorpusInv, NEW p \in Request, ReadKey(p) PROVE CorpusInv'
<1>1. PICK q : q = requests[p]
  OBVIOUS
<1>2. p \in Active /\ Head(q.todo).op = "update"
  BY <1>1 DEF ReadKey, At, Head1
<1>3. /\ HandlerOK(q) /\ q.todo # <<>> /\ TodoOK(q.todo) /\ kv \in Store /\ events \in Nat
      /\ clean \in BOOLEAN /\ BatchOK(q) /\ WalkOK(q) /\ q.alone \in BOOLEAN
      /\ clean => Balanced(WithBatch(q, After(q.todo, Now)))
      /\ q.alone => RecountOf(q)
      /\ lossless /\ Cardinality(Address) <= MaxIndex => ListedInv(q) /\ RulesInv(q)
  BY <1>1, <1>2, Before
<1>4. PICK v : v = kv[Head(q.todo).key]
  OBVIOUS
<1>5. PICK m : m = [q EXCEPT !.read = <<v>>]
  OBVIOUS
<1>6. /\ DOMAIN m = DOMAIN q /\ m.todo = q.todo /\ m.read = <<v>> /\ m.batch = q.batch
      /\ m.walk = q.walk /\ m.alone = q.alone
  BY <1>3, <1>5 DEF HandlerOK
<1>7. requests' = [requests EXCEPT ![p] = IF m.todo = <<>> THEN Idle ELSE m]
  BY <1>1, <1>3, <1>4, <1>5, <1>6 DEF ReadKey, Head1
<1>8. v \in CASE Head(q.todo).key = "geo" -> [Label -> Nat]
              [] Head(q.todo).key = "corpus" -> Nat
              [] Head(q.todo).key = "index" -> Index
              [] OTHER -> SUBSET Address
  <2>1. PICK kind \in Kind : \A t \in Entries(q.todo) : Fits(kind, t)
    BY <1>3 DEF TodoOK
  <2>2. Fits(kind, Head(q.todo))
    BY <1>3, <2>1, TodoFacts
  <2>3. Change(Head(q.todo))
    BY <1>2, <2>1, <2>2, TaskTypes
  <2>4. Head(q.todo).key \in {"geo", "corpus", "index", "attempts"}
    BY <2>3 DEF Change
  <2>5. kv.geo \in [Label -> Nat] /\ kv.corpus \in Nat /\ kv.index \in Index /\ kv.attempts \in SUBSET Address
    BY <1>3 DEF Store
  <2>6. QED
    BY <1>4, <2>4, <2>5
<1>9. m.read[1] = v /\ m.read = <<m.read[1]>>
  BY <1>6
<1>10. HandlerOK(m)
  <2>1. ReadOK(m)
    BY <1>2, <1>3, <1>6, <1>8, <1>9 DEF ReadOK
  <2>2. BatchOK(m)
    BY <1>3, <1>6 DEF BatchOK
  <2>3. WalkOK(m)
    BY <1>3, <1>6 DEF WalkOK, Reached
  <2>4. QED
    BY <1>3, <1>6, <2>1, <2>2, <2>3 DEF HandlerOK
<1>11. /\ RecountOf(q) => RecountOf(m)
       /\ ListedInv(q) => ListedInv(m)
       /\ RulesInv(q) => RulesInv(m)
       /\ WithBatch(m, After(m.todo, Now)) = WithBatch(q, After(q.todo, Now))
  BY <1>6, SameWork
<1>12. UNCHANGED <<records, kv, overdue, rules, lossless>> /\ events' = events /\ clean' = clean
  BY DEF ReadKey
<1>13. QED
  BY <1>1, <1>2, <1>3, <1>4, <1>6, <1>7, <1>9, <1>10, <1>11, <1>12, StoresStay

(* The value an update writes.                                             *)
LEMMA WrittenValue ==
  ASSUME CorpusInv, NEW p \in Active, NEW q, q = requests[p], Head(q.todo).op = "update",
         q.read # Nothing, NEW t, t = Head(q.todo), NEW value, value = q.read[1],
         WriteKey(p)
  PROVE  /\ t.key \in {"geo", "corpus", "index", "attempts"} /\ Change(t) /\ kv' \in Store
         /\ t.key = "geo" => value \in [Label -> Nat] /\ kv'.geo = Changed("geo", value, t.change)
         /\ t.key # "geo" => kv'.geo = kv.geo
         /\ t.key = "corpus" => kv'.corpus = Changed("corpus", value, t.change)
         /\ t.key # "corpus" => kv'.corpus = kv.corpus
         /\ t.key # "index" => kv'.index = kv.index
         /\ t.key # "attempts" => kv'.attempts = kv.attempts
         /\ t.key = "index" /\ Cardinality(Address) <= MaxIndex /\ value = kv.index =>
              Entries(kv'.index) = Entries(kv.index) \cup Entries(t.change)
         /\ t.key = "attempts" /\ value = kv.attempts =>
              kv'.attempts = (kv.attempts \cup t.change.add) \ t.change.drop
<1>1. /\ HandlerOK(q) /\ q.todo # <<>> /\ TodoOK(q.todo) /\ kv \in Store /\ ReadOK(q)
  BY Before
<1>2. Change(t)
  <2>1. PICK kind \in Kind : \A u \in Entries(q.todo) : Fits(kind, u)
    BY <1>1 DEF TodoOK
  <2>2. Fits(kind, t)
    BY <1>1, <2>1, TodoFacts
  <2>3. QED
    BY <2>1, <2>2, TaskTypes
<1>3. t.key \in {"geo", "corpus", "index", "attempts"}
  BY <1>2 DEF Change
<1>4. /\ t.key = "geo" => value \in [Label -> Nat]
      /\ t.key = "corpus" => value \in Nat
      /\ t.key = "index" => value \in Index
      /\ t.key = "attempts" => value \in SUBSET Address
  BY <1>1, <1>3 DEF ReadOK
<1>5. /\ t.key = "geo" => t.change \in [Label -> Int]
      /\ t.key = "corpus" => t.change \in Int
      /\ t.key = "index" => t.change \in Index
      /\ t.key = "attempts" => t.change \in [add : SUBSET Address, drop : SUBSET Address]
  BY <1>2 DEF Change
<1>6. PICK v : v = Changed(t.key, value, t.change)
  OBVIOUS
<1>7. t.key = "attempts" => v = (value \cup t.change.add) \ t.change.drop
  BY <1>6 DEF Changed
<1>8. ASSUME t.key = "index"
      PROVE  /\ v \in Index
             /\ Cardinality(Address) <= MaxIndex => Entries(v) = Entries(value) \cup Entries(t.change)
  <2>1. v = Changed("index", value, t.change)
    BY <1>6, <1>8
  <2>2. value \in Index /\ t.change \in Index
    BY <1>4, <1>5, <1>8
  <2>3. QED
    BY <2>1, <2>2, ChangedValue
<1>9. ValueOK(t.key, v)
  <2>1. CASE t.key = "geo"
    BY <1>4, <1>5, <1>6, <2>1, ChangedValue DEF ValueOK
  <2>2. CASE t.key = "corpus"
    BY <1>4, <1>5, <1>6, <2>2, ChangedValue DEF ValueOK
  <2>3. CASE t.key = "index"
    BY <1>8, <2>3 DEF ValueOK
  <2>4. CASE t.key = "attempts"
    BY <1>4, <1>5, <1>7, <2>4 DEF ValueOK
  <2>5. QED
    BY <1>3, <2>1, <2>2, <2>3, <2>4
<1>10. IF Skipped(t.key, value, t.change) THEN kv' = kv ELSE Wrote(t.key, v)
  BY <1>6 DEF WriteKey, Head1, Wrote
<1>11. /\ t.key \in {"geo", "corpus"} => ~Skipped(t.key, value, t.change)
       /\ t.key = "index" => (Skipped(t.key, value, t.change) => Entries(t.change) \subseteq Entries(value))
       /\ t.key = "attempts" => (Skipped(t.key, value, t.change) =>
            t.change.add = {} /\ value \cap t.change.drop = {})
  BY DEF Skipped
<1>12. CASE Skipped(t.key, value, t.change)
  <2>1. kv' = kv /\ t.key \in {"index", "attempts"}
    BY <1>3, <1>10, <1>11, <1>12
  <2>2. t.key = "attempts" /\ value = kv.attempts =>
          kv'.attempts = (kv.attempts \cup t.change.add) \ t.change.drop
    BY <1>11, <1>12, <2>1
  <2>3. t.key = "index" /\ value = kv.index =>
          Entries(kv'.index) = Entries(kv.index) \cup Entries(t.change)
    BY <1>11, <1>12, <2>1
  <2>4. QED
    BY <1>1, <1>2, <1>3, <2>1, <2>2, <2>3
<1>13. CASE ~Skipped(t.key, value, t.change)
  <2>1. /\ kv' \in Store
        /\ kv'.index = IF t.key = "index" THEN v ELSE kv.index
        /\ kv'.geo = IF t.key = "geo" THEN v ELSE kv.geo
        /\ kv'.corpus = IF t.key = "corpus" THEN v ELSE kv.corpus
        /\ kv'.attempts = IF t.key = "attempts" THEN v ELSE kv.attempts
    BY <1>1, <1>9, <1>10, <1>13, StoreWrite
  <2>2. ASSUME t.key = "index", Cardinality(Address) <= MaxIndex, value = kv.index
        PROVE  Entries(kv'.index) = Entries(kv.index) \cup Entries(t.change)
    BY <1>8, <2>1, <2>2
  <2>3. ASSUME t.key = "attempts", value = kv.attempts
        PROVE  kv'.attempts = (kv.attempts \cup t.change.add) \ t.change.drop
    BY <1>7, <2>1, <2>3
  <2>4. t.key = "geo" => value \in [Label -> Nat] /\ kv'.geo = Changed("geo", value, t.change)
    BY <1>4, <1>6, <2>1
  <2>5. t.key = "corpus" => kv'.corpus = Changed("corpus", value, t.change)
    BY <1>6, <2>1
  <2>6. QED
    BY <1>2, <1>3, <2>1, <2>2, <2>3, <2>4, <2>5
<1>14. QED
  BY <1>12, <1>13

(* An update that is done: what is left of its request lists and drops     *)
(* what the request did, less what has been written.                       *)
LEMMA UpdateDone ==
  ASSUME NEW q, NEW m, NEW t, t = Head(q.todo), t.op = "update",
         Entries(q.todo) = {t} \cup Entries(m.todo),
         Has(m.todo, {"flush"}) = Has(q.todo, {"flush"}), m.batch = q.batch
  PROVE  /\ Coming(q) \subseteq Coming(m) \cup (IF t.key = "index" THEN Entries(t.change) ELSE {})
         /\ Arriving(m.todo) = Arriving(q.todo) /\ Leaving(m.todo) = Leaving(q.todo)
         /\ \A a : ~Removes(t, a)
         /\ \A a : Drops(t, a) <=> t.key = "attempts" /\ a \in t.change.drop
         /\ \A a : Brings(t, a) <=> t.key = "attempts" /\ a \in t.change.add
<1>1. Coming(q) \subseteq Coming(m) \cup (IF t.key = "index" THEN Entries(t.change) ELSE {})
  BY DEF Coming
<1>2. Arriving(m.todo) = Arriving(q.todo) /\ Leaving(m.todo) = Leaving(q.todo)
  BY DEF Arriving, Leaving
<1>3. /\ \A a : ~Removes(t, a)
      /\ \A a : Drops(t, a) <=> t.key = "attempts" /\ a \in t.change.drop
      /\ \A a : Brings(t, a) <=> t.key = "attempts" /\ a \in t.change.add
  BY DEF Removes, Drops, Brings
<1>4. QED
  BY <1>1, <1>2, <1>3

(* A read-modify-write writes what it made of what it read.                *)
LEMMA WriteKeyHolds ==
  ASSUME CorpusInv, NEW p \in Request, WriteKey(p) PROVE CorpusInv'
<1>1. PICK q : q = requests[p]
  OBVIOUS
<1>2. p \in Active /\ Head(q.todo).op = "update" /\ q.read # Nothing
  BY <1>1 DEF WriteKey, At, Head1
<1>3. /\ HandlerOK(q) /\ q.todo # <<>> /\ TodoOK(q.todo) /\ kv \in Store /\ WalkOK(q)
      /\ records \in [Address -> Record \cup {NoRecord}]
      /\ overdue \subseteq Held /\ rules \subseteq Ruled /\ events \in Nat
      /\ clean \in BOOLEAN /\ lossless \in BOOLEAN
      /\ lossless \/ q.alone => (q.read # Nothing => q.read[1] = kv[Head(q.todo).key])
      /\ clean => /\ \A a \in Address : records[a].marker # "legacy"
                  /\ Balanced(WithBatch(q, After(q.todo, Now)))
                  /\ q.alone
      /\ lossless /\ Cardinality(Address) <= MaxIndex => ListedInv(q) /\ RulesInv(q)
  BY <1>1, <1>2, Before
<1>4. PICK kind \in Kind : \A t \in Entries(q.todo) : Fits(kind, t)
  BY <1>3 DEF TodoOK
<1>5. /\ Head(q.todo) \in Entries(q.todo) /\ q.todo \in Seq(Entries(q.todo)) /\ Front(q.todo)
  BY <1>3, TodoFacts DEF TodoOK
<1>6. PICK t, value : t = Head(q.todo) /\ value = q.read[1]
  OBVIOUS
<1>7. PICK m : /\ Leaves(q, Tail(q.todo), m)
               /\ requests' = [requests EXCEPT ![p] = IF m.todo = <<>> THEN Idle ELSE m]
  BY <1>1, <1>2, Done DEF WriteKey
<1>8. /\ m.todo = Tail(q.todo) /\ m.read = <<>> /\ m.alone = q.alone /\ m.walk = q.walk
      /\ m.batch = q.batch
  BY <1>7 DEF Leaves
<1>9. /\ HandlerOK(m) /\ m.todo \in Seq(Entries(m.todo))
      /\ Entries(q.todo) = {Head(q.todo)} \cup Entries(m.todo)
      /\ Has(m.todo, {"flush"}) = Has(q.todo, {"flush"})
      /\ \A u \in Entries(m.todo) : Fits(kind, u)
  <2>1. Head(q.todo).op \notin {"publish", "resume", "scan", "flush", "screen"}
    BY <1>2
  <2>2. QED
    BY <1>3, <1>4, <1>7, <2>1, DoneTask
<1>10. /\ t.key \in {"geo", "corpus", "index", "attempts"} /\ Change(t) /\ kv' \in Store
       /\ t.key = "geo" => value \in [Label -> Nat] /\ kv'.geo = Changed("geo", value, t.change)
       /\ t.key # "geo" => kv'.geo = kv.geo
       /\ t.key = "corpus" => kv'.corpus = Changed("corpus", value, t.change)
       /\ t.key # "corpus" => kv'.corpus = kv.corpus
       /\ t.key # "index" => kv'.index = kv.index
       /\ t.key # "attempts" => kv'.attempts = kv.attempts
       /\ t.key = "index" /\ Cardinality(Address) <= MaxIndex /\ value = kv.index =>
            Entries(kv'.index) = Entries(kv.index) \cup Entries(t.change)
       /\ t.key = "attempts" /\ value = kv.attempts =>
            kv'.attempts = (kv.attempts \cup t.change.add) \ t.change.drop
  BY <1>1, <1>2, <1>6, WrittenValue
<1>11. UNCHANGED <<records, overdue, rules, events, clean, lossless>>
  BY DEF WriteKey
<1>12. Held' = Held
  BY <1>11 DEF Held
<1>13. lossless \/ q.alone => value = kv[t.key]
  BY <1>2, <1>3, <1>6
<1>14. /\ Coming(q) \subseteq Coming(m) \cup (IF t.key = "index" THEN Entries(t.change) ELSE {})
       /\ Arriving(m.todo) = Arriving(q.todo) /\ Leaving(m.todo) = Leaving(q.todo)
       /\ \A a : ~Removes(t, a)
       /\ \A a : Drops(t, a) <=> t.key = "attempts" /\ a \in t.change.drop
       /\ \A a : Brings(t, a) <=> t.key = "attempts" /\ a \in t.change.add
  BY <1>2, <1>6, <1>8, <1>9, UpdateDone
<1>15. ASSUME clean' PROVE Balanced(WithBatch(m, After(m.todo, Now)))'
  <2>1. clean /\ value = kv[t.key]
    BY <1>3, <1>11, <1>13, <1>15
  <2>2. Now' = Applied(t, Now)
    <3>1. /\ Now.geo = kv.geo /\ Now.corpus = kv.corpus /\ Now.records = records
          /\ Now' = [geo |-> kv'.geo, corpus |-> kv'.corpus, records |-> records]
      BY <1>11 DEF Now
    <3>2. CASE t.key = "geo"
      <4>1. Applied(t, Now) = [Now EXCEPT !.geo = Changed("geo", kv.geo, t.change)]
        BY <1>2, <1>6, <3>1, <3>2 DEF Applied
      <4>2. QED
        BY <1>10, <2>1, <3>1, <3>2, <4>1 DEF Now
    <3>3. CASE t.key = "corpus"
      <4>1. Applied(t, Now) = [Now EXCEPT !.corpus = Changed("corpus", kv.corpus, t.change)]
        BY <1>2, <1>6, <3>1, <3>3 DEF Applied
      <4>2. QED
        BY <1>10, <2>1, <3>1, <3>3, <4>1 DEF Now
    <3>4. CASE t.key \notin {"geo", "corpus"}
      <4>1. Applied(t, Now) = Now
        BY <1>2, <1>6, <3>4 DEF Applied
      <4>2. QED
        BY <1>10, <3>1, <3>4, <4>1 DEF Now
    <3>5. QED
      BY <3>2, <3>3, <3>4
  <2>3. After(q.todo, Now) = After(m.todo, Now')
    BY <1>3, <1>5, <1>6, <1>8, <2>2, AfterTail
  <2>4. WithBatch(m, After(m.todo, Now')) = WithBatch(q, After(q.todo, Now))
    BY <1>8, <1>9, <2>3 DEF WithBatch
  <2>5. QED
    BY <1>3, <2>1, <2>4 DEF Balanced
<1>16. RecountOf(m)'
  <2>1. kind # "recounting"
    BY <1>2, <1>4, <1>5, OpKinds
  <2>2. QED
    BY <1>9, <2>1, KindFacts
<1>17. ASSUME lossless, Cardinality(Address) <= MaxIndex PROVE ListedInv(m)' /\ RulesInv(m)'
  <2>1. ListedInv(q) /\ RulesInv(q) /\ value = kv[t.key]
    BY <1>3, <1>13, <1>17
  <2>2. Held \cup Arriving(m.todo) \subseteq Entries(kv'.index) \cup Coming(m)
    <3>1. Held \cup Arriving(m.todo) \subseteq Entries(kv.index) \cup Coming(q)
      BY <1>14, <2>1 DEF ListedInv
    <3>2. CASE t.key = "index"
      BY <1>10, <1>14, <1>17, <2>1, <3>1, <3>2
    <3>3. CASE t.key # "index"
      BY <1>10, <1>14, <3>1, <3>3
    <3>4. QED
      BY <3>2, <3>3
  <2>3. m.walk.on => kv'.index = kv.index
    <3>1. CASE t.key = "index"
      <4>1. kind = "recording"
        BY <1>2, <1>4, <1>5, <1>6, <3>1, OpKinds
      <4>2. Has(q.todo, {"resume", "scan"}) = FALSE
        BY <1>4, <1>5, <4>1, KindFacts
      <4>3. QED
        BY <1>3, <1>8, <4>2 DEF WalkOK
    <3>2. QED
      BY <1>10, <3>1
  <2>4. ListedInv(m)'
    <3>1. /\ \A u \in Entries(m.todo) : u.op = "set" /\ u.key = "index" =>
               Held \subseteq Entries(u.value) \cup Leaving(m.todo)
          /\ m.walk.on =>
               /\ m.walk.base = kv.index
               /\ Held \cap rules = {}
               /\ \A j \in m.walk.start..(m.walk.pos - 1) :
                    m.walk.base[j] \in Held => m.walk.base[j] \in Entries(m.walk.kept)
               /\ \A u \in Entries(m.todo) : u.op = "scan" /\ u.step = 1 =>
                    m.walk.base[m.walk.pos] \notin Held \/
                      m.walk.base[m.walk.pos] \in Entries(m.walk.kept) \cup Leaving(m.todo)
      BY <1>8, <1>9, <1>14, <2>1 DEF ListedInv
    <3>2. rules' = rules
      BY <1>11
    <3>3. QED
      BY <1>12, <2>2, <2>3, <3>1, <3>2 DEF ListedInv
  <2>5. ASSUME NEW a \in rules
        PROVE  /\ a \in Held => \E u \in Entries(m.todo) : Removes(u, a)
               /\ a \in kv'.attempts => \E u \in Entries(m.todo) : Drops(u, a)
               /\ \A u \in Entries(m.todo) : ~Brings(u, a)
    <3>1. /\ a \in Held => \E u \in Entries(q.todo) : Removes(u, a)
          /\ a \in kv.attempts => \E u \in Entries(q.todo) : Drops(u, a)
          /\ \A u \in Entries(q.todo) : ~Brings(u, a)
      BY <2>1, <2>5 DEF RulesInv
    <3>2. a \in kv'.attempts => a \in kv.attempts /\ ~Drops(t, a)
      <4>1. ~Brings(t, a)
        BY <1>5, <1>6, <3>1
      <4>2. QED
        BY <1>10, <1>14, <2>1, <4>1
    <3>3. QED
      BY <1>6, <1>9, <1>14, <3>1, <3>2
  <2>6. RulesInv(m)'
    BY <1>11, <1>12, <2>5 DEF RulesInv
  <2>7. QED
    BY <2>4, <2>6
<1>18. /\ overdue' \subseteq Held' /\ rules' \subseteq Ruled /\ events' \in Nat
       /\ clean' \in BOOLEAN /\ lossless' = lossless /\ records' \in [Address -> Record \cup {NoRecord}]
       /\ clean' => \A a \in Address : records'[a].marker # "legacy"
  BY <1>3, <1>11, <1>12
<1>19. (clean' => clean \/ m.alone) /\ (lossless \/ m.alone =>
           (m.todo # <<>> /\ m.read # Nothing => m.read[1] = kv'[Head(m.todo).key]))
  BY <1>8, <1>11 DEF Nothing
<1>20. QED
  BY <1>1, <1>2, <1>7, <1>8, <1>9, <1>10, <1>15, <1>16, <1>17, <1>18, <1>19, StepHolds

(* A put that is done leaves the lists the host is on.                     *)
LEMMA PutDone ==
  ASSUME NEW q, NEW m, NEW t, t = Head(q.todo), t.op = "put",
         Entries(q.todo) = {t} \cup Entries(m.todo),
         Has(m.todo, {"flush"}) = Has(q.todo, {"flush"}), m.batch = q.batch
  PROVE  /\ Coming(q) = Coming(m)
         /\ Arriving(m.todo) \subseteq Arriving(q.todo)
         /\ t.record # NoRecord => t.a \in Arriving(q.todo) /\ Leaving(m.todo) = Leaving(q.todo)
         /\ Leaving(q.todo) \subseteq Leaving(m.todo) \cup {t.a}
         /\ \A a : Removes(t, a) <=> t.a = a /\ t.record = NoRecord
         /\ \A a : ~Drops(t, a)
         /\ \A a : Brings(t, a) <=> t.a = a /\ t.record # NoRecord
<1>1. Coming(q) = Coming(m)
  BY DEF Coming
<1>2. /\ Arriving(m.todo) \subseteq Arriving(q.todo)
      /\ t.record # NoRecord => t.a \in Arriving(q.todo) /\ Leaving(m.todo) = Leaving(q.todo)
      /\ Leaving(q.todo) \subseteq Leaving(m.todo) \cup {t.a}
  BY DEF Arriving, Leaving
<1>3. /\ \A a : Removes(t, a) <=> t.a = a /\ t.record = NoRecord
      /\ \A a : ~Drops(t, a)
      /\ \A a : Brings(t, a) <=> t.a = a /\ t.record # NoRecord
  BY DEF Removes, Drops, Brings
<1>4. QED
  BY <1>1, <1>2, <1>3

(* The records as a put leaves them.                                       *)
LEMMA RecordsPut ==
  ASSUME records \in [Address -> Record \cup {NoRecord}], NEW a \in Address, NEW r,
         r \in [label : Label, marker : Label \cup {"none"}] \/ r = NoRecord,
         records' = [records EXCEPT ![a] = r]
  PROVE  /\ records' \in [Address -> Record \cup {NoRecord}]
         /\ r = NoRecord => Held' = Held \ {a}
         /\ r # NoRecord => Held' = Held \cup {a}
         /\ (\A b \in Address : records[b].marker # "legacy") =>
              \A b \in Address : records'[b].marker # "legacy"
<1>1. r \in Record \cup {NoRecord} /\ r.marker # "legacy"
  <2>1. "legacy" \notin Label \cup {"none"}
    BY KvAssumption
  <2>2. NoRecord.marker # "legacy"
    BY DEF NoRecord
  <2>3. QED
    BY <2>1, <2>2 DEF Record
<1>2. records' \in [Address -> Record \cup {NoRecord}]
  BY <1>1
<1>3. \A b \in Address : records'[b] = IF b = a THEN r ELSE records[b]
  OBVIOUS
<1>4. QED
  BY <1>1, <1>2, <1>3 DEF Held

(* A record is written or deleted.                                         *)
LEMMA PutRecordHolds ==
  ASSUME CorpusInv, NEW p \in Request, PutRecord(p) PROVE CorpusInv'
<1>1. PICK q : q = requests[p]
  OBVIOUS
<1>2. p \in Active /\ Head(q.todo).op = "put"
  BY <1>1 DEF PutRecord, At, Head1
<1>3. /\ HandlerOK(q) /\ q.todo # <<>> /\ TodoOK(q.todo) /\ kv \in Store /\ WalkOK(q)
      /\ records \in [Address -> Record \cup {NoRecord}]
      /\ overdue \subseteq Held /\ rules \subseteq Ruled /\ events \in Nat
      /\ clean \in BOOLEAN /\ lossless \in BOOLEAN
      /\ clean => /\ \A a \in Address : records[a].marker # "legacy"
                  /\ Balanced(WithBatch(q, After(q.todo, Now)))
                  /\ q.alone
      /\ lossless /\ Cardinality(Address) <= MaxIndex => ListedInv(q) /\ RulesInv(q)
  BY <1>1, <1>2, Before
<1>4. PICK kind \in Kind : \A t \in Entries(q.todo) : Fits(kind, t)
  BY <1>3 DEF TodoOK
<1>5. /\ Head(q.todo) \in Entries(q.todo) /\ q.todo \in Seq(Entries(q.todo)) /\ Front(q.todo)
  BY <1>3, TodoFacts DEF TodoOK
<1>6. PICK t : t = Head(q.todo)
  OBVIOUS
<1>7. PICK m : /\ Leaves(q, Tail(q.todo), m)
               /\ requests' = [requests EXCEPT ![p] = IF m.todo = <<>> THEN Idle ELSE m]
  BY <1>1, <1>2, Done DEF PutRecord
<1>8. /\ m.todo = Tail(q.todo) /\ m.read = <<>> /\ m.alone = q.alone /\ m.walk = q.walk
      /\ m.batch = q.batch
  BY <1>7 DEF Leaves
<1>9. /\ HandlerOK(m) /\ m.todo \in Seq(Entries(m.todo))
      /\ Entries(q.todo) = {Head(q.todo)} \cup Entries(m.todo)
      /\ Has(m.todo, {"flush"}) = Has(q.todo, {"flush"})
      /\ \A u \in Entries(m.todo) : Fits(kind, u)
  <2>1. Head(q.todo).op \notin {"publish", "resume", "scan", "flush", "screen"}
    BY <1>2
  <2>2. QED
    BY <1>3, <1>4, <1>7, <2>1, DoneTask
<1>10. /\ kv' = kv /\ rules' = rules /\ events' = events /\ clean' = clean /\ lossless' = lossless
       /\ records' = [records EXCEPT ![t.a] = t.record]
       /\ overdue' = IF t.seen THEN overdue \ {t.a} ELSE overdue
  BY <1>1, <1>6 DEF PutRecord, Head1
<1>11. /\ t.a \in Address
       /\ kind = "recording" => t.record \in [label : Label, marker : Label \cup {"none"}]
       /\ kind # "recording" => t.record = NoRecord /\ t.seen = TRUE
       /\ kind # "recounting"
       /\ t.record # NoRecord => kind = "recording"
  <2>1. Fits(kind, t)
    BY <1>4, <1>5, <1>6
  <2>2. kind # "recounting" /\ (t.record # NoRecord => kind = "recording")
    BY <1>2, <1>4, <1>6, <2>1, OpKinds
  <2>3. t.op = "put"
    BY <1>2, <1>6
  <2>4. t.a \in Address
    BY <1>4, <2>1, <2>3, TaskTypes
  <2>5. kind = "recording" => t.record \in [label : Label, marker : Label \cup {"none"}]
    BY <1>4, <2>1, <2>3, TaskTypes
  <2>6. ASSUME kind # "recording" PROVE t.record = NoRecord /\ t.seen = TRUE
    <3>1. kind \in Kind
      BY <1>4
    <3>2. t.op = "put" /\ kind # "recording"
      BY <2>3, <2>6
    <3>3. CASE kind = "forgetting"
      BY <2>1, <2>3, <3>3 DEF Fits, Forgetting, Deleting
    <3>4. CASE kind = "sweeping"
      BY <2>1, <2>3, <3>4 DEF Fits, Sweeping, Deleting
    <3>5. QED
      BY <2>2, <2>6, <3>1, <3>3, <3>4 DEF Kind
  <2>7. QED
    BY <2>2, <2>4, <2>5, <2>6
<1>12. kind = "recording" => t.record # NoRecord
  <2>1. NoRecord.marker = "absent" /\ "absent" \notin Label \cup {"none"}
    BY KvAssumption DEF NoRecord
  <2>2. QED
    BY <1>11, <2>1
<1>13. /\ records' \in [Address -> Record \cup {NoRecord}]
       /\ t.record = NoRecord => Held' = Held \ {t.a}
       /\ t.record # NoRecord => Held' = Held \cup {t.a}
       /\ (\A b \in Address : records[b].marker # "legacy") =>
            \A b \in Address : records'[b].marker # "legacy"
  <2>1. t.record \in [label : Label, marker : Label \cup {"none"}] \/ t.record = NoRecord
    BY <1>11
  <2>2. QED
    BY <1>3, <1>10, <1>11, <2>1, RecordsPut
<1>14. /\ Coming(q) = Coming(m)
       /\ Arriving(m.todo) \subseteq Arriving(q.todo)
       /\ t.record # NoRecord => t.a \in Arriving(q.todo) /\ Leaving(m.todo) = Leaving(q.todo)
       /\ Leaving(q.todo) \subseteq Leaving(m.todo) \cup {t.a}
       /\ \A a : Removes(t, a) <=> t.a = a /\ t.record = NoRecord
       /\ \A a : ~Drops(t, a)
       /\ \A a : Brings(t, a) <=> t.a = a /\ t.record # NoRecord
  <2>1. /\ t.op = "put" /\ Entries(q.todo) = {t} \cup Entries(m.todo)
        /\ Has(m.todo, {"flush"}) = Has(q.todo, {"flush"}) /\ m.batch = q.batch
    BY <1>2, <1>6, <1>8, <1>9
  <2>2. Coming(q) = Coming(m)
    BY <1>6, <2>1, PutDone
  <2>3. Arriving(m.todo) \subseteq Arriving(q.todo)
    BY <1>6, <2>1, PutDone
  <2>4. t.record # NoRecord => t.a \in Arriving(q.todo) /\ Leaving(m.todo) = Leaving(q.todo)
    BY <1>6, <2>1, PutDone
  <2>5. Leaving(q.todo) \subseteq Leaving(m.todo) \cup {t.a}
    BY <1>6, <2>1, PutDone
  <2>6. \A a : Removes(t, a) <=> t.a = a /\ t.record = NoRecord
    BY <1>6, <2>1, PutDone
  <2>7. \A a : ~Drops(t, a)
    BY <1>6, <2>1, PutDone
  <2>8. \A a : Brings(t, a) <=> t.a = a /\ t.record # NoRecord
    BY <1>6, <2>1, PutDone
  <2>9. QED
    BY <2>2, <2>3, <2>4, <2>5, <2>6, <2>7, <2>8
<1>15. ASSUME clean' PROVE Balanced(WithBatch(m, After(m.todo, Now)))'
  <2>1. Now' = Applied(t, Now)
    <3>1. /\ Now.geo = kv.geo /\ Now.corpus = kv.corpus /\ Now.records = records
          /\ Now' = [geo |-> kv.geo, corpus |-> kv.corpus, records |-> records']
      BY <1>10 DEF Now
    <3>2. Applied(t, Now) = [Now EXCEPT !.records = [@ EXCEPT ![t.a] = t.record]]
      BY <1>2, <1>6 DEF Applied
    <3>3. QED
      BY <1>10, <3>1, <3>2 DEF Now
  <2>2. After(q.todo, Now) = After(m.todo, Now')
    BY <1>3, <1>5, <1>6, <1>8, <2>1, AfterTail
  <2>3. WithBatch(m, After(m.todo, Now')) = WithBatch(q, After(q.todo, Now))
    BY <1>8, <1>9, <2>2 DEF WithBatch
  <2>4. QED
    BY <1>3, <1>10, <1>15, <2>3 DEF Balanced
<1>16. RecountOf(m)'
  BY <1>9, <1>11, KindFacts
<1>17. ASSUME lossless, Cardinality(Address) <= MaxIndex PROVE ListedInv(m)' /\ RulesInv(m)'
  <2>1. ListedInv(q) /\ RulesInv(q)
    BY <1>3, <1>17
  <2>2. Held' \cup Arriving(m.todo) \subseteq Entries(kv.index) \cup Coming(m)
    BY <1>13, <1>14, <2>1 DEF ListedInv
  <2>3. \A u \in Entries(m.todo) : u.op = "set" /\ u.key = "index" =>
             Held' \subseteq Entries(u.value) \cup Leaving(m.todo)
    <3>1. ASSUME NEW u \in Entries(m.todo), u.op = "set", u.key = "index"
          PROVE  Held' \subseteq Entries(u.value) \cup Leaving(m.todo)
      <4>1. Held \subseteq Entries(u.value) \cup Leaving(q.todo)
        BY <1>9, <2>1, <3>1 DEF ListedInv
      <4>2. kind # "recording"
        BY <1>4, <1>9, <3>1, KindFacts
      <4>3. QED
        BY <1>11, <1>13, <1>14, <4>1, <4>2
    <3>2. QED
      BY <3>1
  <2>4. ASSUME m.walk.on
        PROVE  /\ m.walk.base = kv.index
               /\ Held' \cap rules = {}
               /\ \A j \in m.walk.start..(m.walk.pos - 1) :
                    m.walk.base[j] \in Held' => m.walk.base[j] \in Entries(m.walk.kept)
               /\ \A u \in Entries(m.todo) : u.op = "scan" /\ u.step = 1 =>
                    m.walk.base[m.walk.pos] \notin Held' \/
                      m.walk.base[m.walk.pos] \in Entries(m.walk.kept) \cup Leaving(m.todo)
    <3>1. /\ q.walk.base = kv.index
          /\ Held \cap rules = {}
          /\ \A j \in q.walk.start..(q.walk.pos - 1) :
               q.walk.base[j] \in Held => q.walk.base[j] \in Entries(q.walk.kept)
          /\ \A u \in Entries(q.todo) : u.op = "scan" /\ u.step = 1 =>
               q.walk.base[q.walk.pos] \notin Held \/
                 q.walk.base[q.walk.pos] \in Entries(q.walk.kept) \cup Leaving(q.todo)
      BY <1>8, <2>1, <2>4 DEF ListedInv
    <3>2. kind # "recording"
      <4>1. Has(q.todo, {"resume", "scan"})
        BY <1>3, <1>8, <2>4 DEF WalkOK
      <4>2. ASSUME kind = "recording" PROVE FALSE
        BY <1>4, <1>5, <4>1, <4>2, KindFacts
      <4>3. QED
        BY <4>2
    <3>3. Held' = Held \ {t.a}
      BY <1>11, <1>13, <3>2
    <3>4. QED
      BY <1>8, <1>9, <1>14, <3>1, <3>3
  <2>5. ListedInv(m)'
    BY <1>10, <2>2, <2>3, <2>4 DEF ListedInv
  <2>6. ASSUME NEW a \in rules
        PROVE  /\ a \in Held' => \E u \in Entries(m.todo) : Removes(u, a)
               /\ a \in kv.attempts => \E u \in Entries(m.todo) : Drops(u, a)
               /\ \A u \in Entries(m.todo) : ~Brings(u, a)
    <3>1. /\ a \in Held => \E u \in Entries(q.todo) : Removes(u, a)
          /\ a \in kv.attempts => \E u \in Entries(q.todo) : Drops(u, a)
          /\ \A u \in Entries(q.todo) : ~Brings(u, a)
      BY <2>1, <2>6 DEF RulesInv
    <3>2. ~Brings(t, a)
      BY <1>5, <1>6, <3>1
    <3>3. a \in Held' => a \in Held /\ ~Removes(t, a)
      BY <1>13, <1>14, <3>2
    <3>4. QED
      BY <1>6, <1>9, <1>14, <3>1, <3>3
  <2>7. RulesInv(m)'
    BY <1>10, <2>6 DEF RulesInv
  <2>8. QED
    BY <2>5, <2>7
<1>18. overdue' \subseteq Held'
  BY <1>3, <1>10, <1>11, <1>12, <1>13
<1>19. /\ rules' \subseteq Ruled /\ events' \in Nat /\ kv' \in Store
       /\ clean' \in BOOLEAN /\ lossless' = lossless
       /\ clean' => \A a \in Address : records'[a].marker # "legacy"
  BY <1>3, <1>10, <1>13
<1>20. (clean' => clean \/ m.alone) /\ (lossless \/ m.alone =>
           (m.todo # <<>> /\ m.read # Nothing => m.read[1] = kv'[Head(m.todo).key]))
  BY <1>8, <1>10 DEF Nothing
<1>21. QED
  BY <1>1, <1>2, <1>7, <1>8, <1>9, <1>13, <1>15, <1>16, <1>17, <1>18, <1>19, <1>20, StepHolds

(* What comes after the changes of counts makes no difference to them.     *)
LEMMA AfterQuietTail ==
  ASSUME NEW s, s \in Seq(Entries(s)), NEW t, t \in Seq(Entries(t)),
         \A u \in Entries(t) : ~Loud(u), NEW x
  PROVE  After(s \o t, x) = After(s, x)
<1>1. ASSUME NEW i \in {1, 2, 3}, NEW y PROVE AppliedAt(s \o t, i, y) = AppliedAt(s, i, y)
  <2>1. /\ DOMAIN (s \o t) = 1..(Len(s) + Len(t)) /\ DOMAIN s = 1..Len(s)
        /\ Len(s) \in Nat /\ Len(t) \in Nat
        /\ \A j \in DOMAIN s : (s \o t)[j] = s[j]
        /\ \A j \in DOMAIN (s \o t) : j > Len(s) =>
             j - Len(s) \in DOMAIN t /\ (s \o t)[j] = t[j - Len(s)]
    BY JoinedSeq, InSeq
  <2>2. CASE i \in DOMAIN s
    <3>1. i \in DOMAIN (s \o t) /\ (s \o t)[i] = s[i]
      BY <2>1, <2>2
    <3>2. QED
      BY <2>2, <3>1 DEF AppliedAt
  <2>3. CASE i \notin DOMAIN s /\ i \in DOMAIN (s \o t)
    <3>1. (s \o t)[i] \in Entries(t)
      BY <2>1, <2>3 DEF Entries
    <3>2. ~Loud((s \o t)[i])
      BY <3>1
    <3>3. Applied((s \o t)[i], y) = y
      BY <3>2 DEF Applied, Loud
    <3>4. QED
      BY <2>3, <3>3 DEF AppliedAt
  <2>4. CASE i \notin DOMAIN s /\ i \notin DOMAIN (s \o t)
    BY <2>4 DEF AppliedAt
  <2>5. QED
    BY <2>2, <2>3, <2>4
<1>2. \A y : /\ AppliedAt(s \o t, 1, y) = AppliedAt(s, 1, y)
             /\ AppliedAt(s \o t, 2, y) = AppliedAt(s, 2, y)
             /\ AppliedAt(s \o t, 3, y) = AppliedAt(s, 3, y)
  BY <1>1
<1>3. QED
  BY <1>2 DEF After

(* At most three changes, written out.                                     *)
LEMMA AfterShort ==
  /\ \A x : After(<<>>, x) = x
  /\ \A t, x : After(<<t>>, x) = Applied(t, x)
  /\ \A t, u, x : After(<<t, u>>, x) = Applied(u, Applied(t, x))
  /\ \A t, u, v, x : After(<<t, u, v>>, x) = Applied(v, Applied(u, Applied(t, x)))
<1>1. \A x : After(<<>>, x) = x
  BY Written DEF After, AppliedAt
<1>2. \A t, x : After(<<t>>, x) = Applied(t, x)
  BY Written DEF After, AppliedAt
<1>3. \A t, u, x : After(<<t, u>>, x) = Applied(u, Applied(t, x))
  BY Written DEF After, AppliedAt
<1>4. \A t, u, v, x : After(<<t, u, v>>, x) = Applied(v, Applied(u, Applied(t, x)))
  BY Written DEF After, AppliedAt
<1>5. QED
  BY <1>1, <1>2, <1>3, <1>4

(* The tasks that forget a host.                                           *)
Forgets(t, a) ==
  /\ Deleting(t) /\ Loud(t) /\ Plain(t)
  /\ t.op = "put" \/ (t.op = "update" /\ t.key \in {"geo", "corpus"})
  /\ t.op = "put" => t.a = a /\ t.record = NoRecord
  /\ \A u : MayPrecede(t, u)

(* At most three tasks that may come in any order.                         *)
LEMMA Ordered ==
  ASSUME NEW s, s \in Seq(Entries(s)), DOMAIN s \subseteq {1, 2, 3},
         \A t, u \in Entries(s) : MayPrecede(t, u)
  PROVE  InOrder(s) /\ Front(s)
<1>1. \A i \in DOMAIN s : s[i] \in Entries(s) /\ i <= 3
  BY DEF Entries
<1>2. QED
  BY <1>1 DEF InOrder, Front

(* The tasks that forget a host, by what is known of its record.           *)
LEMMA ForgetFacts ==
  ASSUME NEW a \in Address, NEW r \in Record, NEW ft, ft = ForgetTasks(a, r)
  PROVE  /\ ft # <<>> /\ ft \in Seq(Entries(ft)) /\ InOrder(ft) /\ Front(ft)
         /\ \E t \in Entries(ft) : t.op = "put" /\ t.a = a /\ t.record = NoRecord
         /\ \A t \in Entries(ft) : Forgets(t, a)
<1>1. PICK first : first = Put(a, NoRecord, TRUE)
  OBVIOUS
<1>2. first.op = "put" /\ first.a = a /\ first.record = NoRecord /\ first.seen = TRUE
  BY <1>1 DEF Put
<1>3. /\ -1 \in Int /\ r.label \in Label
      /\ Counted(r) => r.marker \in Label
  BY DEF Record, Counted
<1>4. PICK geo, corpus, old : /\ geo = Update("geo", One(r.marker, -1))
                              /\ corpus = Update("corpus", -1)
                              /\ old = Update("geo", One(r.label, -1))
  OBVIOUS
<1>5. /\ geo.op = "update" /\ geo.key = "geo"
      /\ Counted(r) => geo.change \in [Label -> Int]
      /\ corpus.op = "update" /\ corpus.key = "corpus" /\ corpus.change \in Int
      /\ old.op = "update" /\ old.key = "geo" /\ old.change \in [Label -> Int]
  BY <1>3, <1>4, OneType DEF Update
<1>6. /\ Counted(r) => ft = <<first, geo, corpus>>
      /\ ~Counted(r) /\ r.marker = "legacy" => ft = <<first, old>>
      /\ ~Counted(r) /\ r.marker # "legacy" => ft = <<first>>
  <2>1. Counted(r) => r.marker # "legacy"
    BY KvAssumption DEF Counted
  <2>2. CASE Counted(r)
    BY <1>1, <1>4, <2>1, <2>2 DEF ForgetTasks
  <2>3. CASE ~Counted(r) /\ r.marker = "legacy"
    BY <1>1, <1>4, <2>3 DEF ForgetTasks
  <2>4. CASE ~Counted(r) /\ r.marker # "legacy"
    BY <1>1, <1>4, <2>4 DEF ForgetTasks
  <2>5. QED
    BY <2>2, <2>3, <2>4
<1>7. /\ Forgets(first, a) /\ Forgets(corpus, a) /\ Forgets(old, a)
      /\ Counted(r) => Forgets(geo, a)
  <2>1. Forgets(first, a)
    BY <1>2 DEF Forgets, Deleting, Loud, Plain, MayPrecede
  <2>2. Forgets(corpus, a)
    BY <1>5 DEF Forgets, Deleting, Loud, Plain, MayPrecede, Change
  <2>3. Forgets(old, a)
    BY <1>5 DEF Forgets, Deleting, Loud, Plain, MayPrecede, Change
  <2>4. ASSUME Counted(r) PROVE Forgets(geo, a)
    <3>1. geo.op = "update" /\ geo.key = "geo" /\ geo.change \in [Label -> Int]
      BY <1>5, <2>4
    <3>2. QED
      BY <3>1 DEF Forgets, Deleting, Loud, Plain, MayPrecede, Change
  <2>5. QED
    BY <2>1, <2>2, <2>3, <2>4
<1>8. CASE Counted(r)
  <2>1. /\ ft # <<>> /\ ft \in Seq(Entries(ft)) /\ Entries(ft) = {first, geo, corpus}
        /\ DOMAIN ft = {1, 2, 3}
    BY <1>6, <1>8, Written
  <2>2. \A t \in Entries(ft) : Forgets(t, a)
    BY <1>7, <1>8, <2>1
  <2>3. QED
    BY <1>2, <2>1, <2>2, Ordered DEF Forgets
<1>9. CASE ~Counted(r) /\ r.marker = "legacy"
  <2>1. /\ ft # <<>> /\ ft \in Seq(Entries(ft)) /\ Entries(ft) = {first, old}
        /\ DOMAIN ft = {1, 2}
    <3>1. ft = <<first, old>>
      BY <1>6, <1>9
    <3>2. QED
      BY <3>1, Written
  <2>2. \A t \in Entries(ft) : Forgets(t, a)
    BY <1>7, <2>1
  <2>3. QED
    BY <1>2, <2>1, <2>2, Ordered DEF Forgets
<1>10. CASE ~Counted(r) /\ r.marker # "legacy"
  <2>1. /\ ft # <<>> /\ ft \in Seq(Entries(ft)) /\ Entries(ft) = {first}
        /\ DOMAIN ft = {1}
    <3>1. ft = <<first>>
      BY <1>6, <1>10
    <3>2. QED
      BY <3>1, Written
  <2>2. \A t \in Entries(ft) : Forgets(t, a)
    BY <1>7, <2>1
  <2>3. QED
    BY <1>2, <2>1, <2>2, Ordered DEF Forgets
<1>11. QED
  BY <1>8, <1>9, <1>10

(* Counts and records after one change.                                    *)
Counts(s) == DOMAIN s = {"geo", "corpus", "records"}

(* One change, field by field.                                             *)
LEMMA AppliedFields ==
  ASSUME NEW s, Counts(s), NEW t
  PROVE  /\ t.op = "put" => /\ Applied(t, s).records = With(s.records, t.a, t.record)
                            /\ Applied(t, s).geo = s.geo /\ Applied(t, s).corpus = s.corpus
         /\ t.op = "update" /\ t.key = "geo" =>
              /\ Applied(t, s).geo = Changed("geo", s.geo, t.change)
              /\ Applied(t, s).records = s.records /\ Applied(t, s).corpus = s.corpus
         /\ t.op = "update" /\ t.key = "corpus" =>
              /\ Applied(t, s).corpus = Changed("corpus", s.corpus, t.change)
              /\ Applied(t, s).records = s.records /\ Applied(t, s).geo = s.geo
         /\ ~Loud(t) => Applied(t, s) = s
<1>1. CASE t.op = "put"
  <2>1. Applied(t, s) = [s EXCEPT !.records = [@ EXCEPT ![t.a] = t.record]]
    BY <1>1 DEF Applied
  <2>2. QED
    BY <1>1, <2>1 DEF Counts, Loud, With
<1>2. CASE t.op = "update" /\ t.key = "geo"
  <2>1. Applied(t, s) = [s EXCEPT !.geo = Changed("geo", @, t.change)]
    BY <1>2 DEF Applied
  <2>2. QED
    BY <1>2, <2>1 DEF Counts, Loud
<1>3. CASE t.op = "update" /\ t.key = "corpus"
  <2>1. Applied(t, s) = [s EXCEPT !.corpus = Changed("corpus", @, t.change)]
    BY <1>3 DEF Applied
  <2>2. QED
    BY <1>3, <2>1 DEF Counts, Loud
<1>4. CASE ~Loud(t)
  BY <1>4 DEF Applied, Loud, Counts
<1>5. QED
  BY <1>1, <1>2, <1>3, <1>4 DEF Loud

(* One change leaves counts and records.                                   *)
LEMMA AppliedCounts == ASSUME NEW s, Counts(s), NEW t PROVE Counts(Applied(t, s))
<1>1. CASE t.op = "put"
  <2>1. Applied(t, s) = [s EXCEPT !.records = [@ EXCEPT ![t.a] = t.record]]
    BY <1>1 DEF Applied
  <2>2. QED
    BY <2>1 DEF Counts
<1>2. CASE t.op = "update" /\ t.key = "geo"
  <2>1. Applied(t, s) = [s EXCEPT !.geo = Changed("geo", @, t.change)]
    BY <1>2 DEF Applied
  <2>2. QED
    BY <2>1 DEF Counts
<1>3. CASE t.op = "update" /\ t.key = "corpus"
  <2>1. Applied(t, s) = [s EXCEPT !.corpus = Changed("corpus", @, t.change)]
    BY <1>3 DEF Applied
  <2>2. QED
    BY <2>1 DEF Counts
<1>4. CASE ~Loud(t)
  BY <1>4 DEF Applied, Loud
<1>5. QED
  BY <1>1, <1>2, <1>3, <1>4 DEF Loud

(* A decrement and an increment of counts that agree with the records.     *)
LEMMA ChangedCounts ==
  ASSUME NEW g \in [Label -> Nat], NEW k \in Label, NEW n \in Nat
  PROVE  /\ \A l \in Label : Changed("geo", g, One(k, 1))[l] = g[l] + (IF l = k THEN 1 ELSE 0)
         /\ g[k] > 0 =>
              \A l \in Label : Changed("geo", g, One(k, -1))[l] = g[l] - (IF l = k THEN 1 ELSE 0)
         /\ Changed("corpus", n, 1) = n + 1
         /\ n > 0 => Changed("corpus", n, -1) = n - 1
<1>1. /\ -1 \in Int /\ 1 \in Int
      /\ \A l \in Label : One(k, 1)[l] = IF l = k THEN 1 ELSE 0
      /\ \A l \in Label : One(k, -1)[l] = IF l = k THEN -1 ELSE 0
      /\ One(k, 1) \in [Label -> Int] /\ One(k, -1) \in [Label -> Int]
  BY OneType
<1>2. /\ \A c \in [Label -> Int] :
           /\ Changed("geo", g, c) = [l \in Label |-> Clamp(g[l] + c[l])]
           /\ Changed("geo", g, c) \in [Label -> Nat]
      /\ \A c : Changed("corpus", n, c) = Clamp(n + c)
  <2>1. /\ \A c : Changed("geo", g, c) = [l \in Label |-> Clamp(g[l] + c[l])]
        /\ \A c : Changed("corpus", n, c) = Clamp(n + c)
    BY DEF Changed
  <2>2. \A c \in [Label -> Int] : Changed("geo", g, c) \in [Label -> Nat]
    BY ChangedValue
  <2>3. QED
    BY <2>1, <2>2
<1>3. \A l \in Label : g[l] \in Nat
  OBVIOUS
<1>4. \A l \in Label : Changed("geo", g, One(k, 1))[l] = g[l] + (IF l = k THEN 1 ELSE 0)
  BY <1>1, <1>2, <1>3 DEF Clamp
<1>5. ASSUME g[k] > 0
      PROVE  \A l \in Label : Changed("geo", g, One(k, -1))[l] = g[l] - (IF l = k THEN 1 ELSE 0)
  <2>1. ASSUME NEW l \in Label
        PROVE  Changed("geo", g, One(k, -1))[l] = g[l] - (IF l = k THEN 1 ELSE 0)
    <3>1. Changed("geo", g, One(k, -1))[l] = Clamp(g[l] + One(k, -1)[l])
      BY <1>1, <1>2
    <3>2. CASE l = k
      BY <1>1, <1>3, <1>5, <3>1, <3>2 DEF Clamp
    <3>3. CASE l # k
      BY <1>1, <1>3, <3>1, <3>3 DEF Clamp
    <3>4. QED
      BY <3>2, <3>3
  <2>2. QED
    BY <2>1
<1>6. /\ Changed("corpus", n, 1) = n + 1
      /\ n > 0 => Changed("corpus", n, -1) = n - 1
  BY <1>1, <1>2 DEF Clamp
<1>7. QED
  BY <1>1, <1>2, <1>4, <1>5, <1>6

(* A host that is forgotten leaves its bucket.                             *)
LEMMA ForgetMarks ==
  ASSUME NEW R, DOMAIN R = Address, NEW a \in Address, NEW r, r = R[a],
         NEW R2, R2 = With(R, a, NoRecord)
  PROVE  /\ \A l \in Label : /\ Marked(R2, l) = Marked(R, l) - (IF r.marker = l THEN 1 ELSE 0)
                             /\ r.marker = l => Marked(R, l) > 0
                             /\ Marked(R, l) \in Nat
         /\ Marks(R2) = Marks(R) - (IF Counted(r) THEN 1 ELSE 0)
         /\ Counted(r) => Marks(R) > 0
         /\ Marks(R) \in Nat
<1>1. ~Counted(NoRecord) /\ \A l \in Label : NoRecord.marker # l
  BY KvAssumption DEF Counted, NoRecord
<1>2. PICK gone : gone = NoRecord
  OBVIOUS
<1>3. /\ \A l : /\ Marked(R2, l) = Marked(R, l) + (IF gone.marker = l THEN 1 ELSE 0)
                                                 - (IF R[a].marker = l THEN 1 ELSE 0)
                /\ Marked(R, l) \in Nat
                /\ R[a].marker = l => Marked(R, l) > 0
      /\ Marks(R2) = Marks(R) + (IF Counted(gone) THEN 1 ELSE 0) - (IF Counted(R[a]) THEN 1 ELSE 0)
      /\ Marks(R) \in Nat
      /\ Counted(R[a]) => Marks(R) > 0
  BY <1>2, CountsMove
<1>4. ~Counted(gone) /\ \A l \in Label : gone.marker # l
  BY <1>1, <1>2
<1>5. QED
  BY <1>3, <1>4

(* Forgetting a host leaves counts that agree.                             *)
LEMMA ForgetCounts ==
  ASSUME NEW R, DOMAIN R = Address, NEW a \in Address, NEW r, r = R[a], r.marker # "legacy",
         NEW s, Counts(s), s.records = R, s.geo \in [Label -> Nat], s.corpus \in Nat, Balanced(s)
  PROVE  Balanced(After(ForgetTasks(a, r), s))
<1>1. PICK R2 : R2 = With(R, a, NoRecord)
  OBVIOUS
<1>2. /\ \A l \in Label : s.geo[l] = Marked(R, l) /\ s.geo[l] \in Nat
      /\ s.geo = [l \in Label |-> s.geo[l]]
      /\ s.corpus = Marks(R)
  BY BalancedMarks
<1>3. /\ \A l \in Label : /\ Marked(R2, l) = Marked(R, l) - (IF r.marker = l THEN 1 ELSE 0)
                          /\ r.marker = l => Marked(R, l) > 0
      /\ Marks(R2) = Marks(R) - (IF Counted(r) THEN 1 ELSE 0)
      /\ Counted(r) => Marks(R) > 0
  BY <1>1, ForgetMarks
<1>4. PICK first : first = Put(a, NoRecord, TRUE)
  OBVIOUS
<1>5. PICK s1 : s1 = Applied(first, s)
  OBVIOUS
<1>6. Counts(s1) /\ s1.records = R2 /\ s1.geo = s.geo /\ s1.corpus = s.corpus
  <2>1. first.op = "put" /\ first.a = a /\ first.record = NoRecord
    BY <1>4 DEF Put
  <2>2. QED
    BY <1>1, <1>5, <2>1, AppliedFields, AppliedCounts
<1>7. CASE ~Counted(r)
  <2>1. ForgetTasks(a, r) = <<first>>
    BY <1>4, <1>7 DEF ForgetTasks
  <2>2. After(ForgetTasks(a, r), s) = s1
    BY <1>5, <2>1, AfterShort
  <2>3. \A l \in Label : r.marker # l
    BY <1>7 DEF Counted
  <2>4. \A l \in Label : Marked(R2, l) = s.geo[l]
    BY <1>2, <1>3, <2>3
  <2>5. Marks(R2) = s.corpus
    BY <1>2, <1>3, <1>7
  <2>6. QED
    BY <1>6, <2>2, <2>4, <2>5, BalancedMarks
<1>8. CASE Counted(r)
  <2>1. PICK k \in Label : k = r.marker
    BY <1>8 DEF Counted
  <2>2. PICK second, third : second = Update("geo", One(k, -1)) /\ third = Update("corpus", -1)
    OBVIOUS
  <2>3. ForgetTasks(a, r) = <<first, second, third>>
    BY <1>4, <1>8, <2>1, <2>2 DEF ForgetTasks
  <2>4. PICK s2, s3 : s2 = Applied(second, s1) /\ s3 = Applied(third, s2)
    OBVIOUS
  <2>5. After(ForgetTasks(a, r), s) = s3
    BY <1>5, <2>3, <2>4, AfterShort
  <2>6. Counts(s2) /\ s2.records = R2 /\ s2.geo = Changed("geo", s.geo, One(k, -1)) /\ s2.corpus = s.corpus
    <3>1. second.op = "update" /\ second.key = "geo" /\ second.change = One(k, -1)
      BY <2>2 DEF Update
    <3>2. QED
      BY <1>6, <2>4, <3>1, AppliedFields, AppliedCounts
  <2>7. s3.records = R2 /\ s3.geo = Changed("geo", s.geo, One(k, -1)) /\ s3.corpus = Changed("corpus", s.corpus, -1)
    <3>1. third.op = "update" /\ third.key = "corpus" /\ third.change = -1
      BY <2>2 DEF Update
    <3>2. QED
      BY <2>4, <2>6, <3>1, AppliedFields
  <2>8. s.geo[k] > 0 /\ s.corpus > 0
    BY <1>2, <1>3, <1>8, <2>1
  <2>9. /\ \A l \in Label : s3.geo[l] = s.geo[l] - (IF l = k THEN 1 ELSE 0)
        /\ s3.corpus = s.corpus - 1
    BY <2>7, <2>8, ChangedCounts
  <2>10. s3.geo = [l \in Label |-> s3.geo[l]]
    BY <2>7 DEF Changed
  <2>11. \A l \in Label : s3.geo[l] = Marked(R2, l)
    <3>1. ASSUME NEW l \in Label PROVE s3.geo[l] = Marked(R2, l)
      BY <1>2, <1>3, <2>1, <2>9, <3>1
    <3>2. QED
      BY <3>1
  <2>12. s3.corpus = Marks(R2)
    BY <1>2, <1>3, <1>8, <2>9
  <2>13. QED
    BY <2>5, <2>7, <2>10, <2>11, <2>12, BalancedMarks
<1>9. QED
  BY <1>7, <1>8

(* Counts that agree stay so when a host is forgotten.                     *)
LEMMA ForgetBalance ==
  ASSUME records \in [Address -> Record \cup {NoRecord}], kv \in Store,
         NEW a \in Address, NEW r, r = records[a], r.marker # "legacy", Balanced(Now),
         NEW rest, rest \in Seq(Entries(rest)), \A u \in Entries(rest) : ~Loud(u),
         ForgetTasks(a, r) \in Seq(Entries(ForgetTasks(a, r)))
  PROVE  Balanced(After(ForgetTasks(a, r) \o rest, Now))
<1>1. After(ForgetTasks(a, r) \o rest, Now) = After(ForgetTasks(a, r), Now)
  BY AfterQuietTail
<1>2. DOMAIN records = Address
  OBVIOUS
<1>3. /\ Now.geo \in [Label -> Nat] /\ Now.corpus \in Nat /\ Counts(Now) /\ Now.records = records
  BY DEF Store, Now, Counts
<1>4. QED
  BY <1>1, <1>2, <1>3, ForgetCounts

(* What is still to leave, to be removed and to be dropped, when one task  *)
(* gives way to those that forget its host.                                *)
LEMMA ForgetLists ==
  ASSUME NEW a, NEW q, NEW tasks, NEW m,
         Head(q.todo).op = "forget", Head(q.todo).a = a,
         Entries(q.todo) = {Head(q.todo)} \cup Entries(Tail(q.todo)),
         Entries(m.todo) = Entries(tasks) \cup Entries(Tail(q.todo)),
         a \in Held => \E t \in Entries(tasks) : t.op = "put" /\ t.a = a /\ t.record = NoRecord,
         Coming(q) = {}, Coming(m) = {}, Arriving(m.todo) = {},
         \A t \in Entries(m.todo) : \A b : ~Brings(t, b),
         \A t \in Entries(tasks) : t.op # "set",
         q.walk.on = FALSE, m.walk.on = FALSE,
         ListedInv(q), RulesInv(q)
  PROVE  ListedInv(m) /\ RulesInv(m)
<1>1. Held \cap Leaving(q.todo) \subseteq Leaving(m.todo)
  <2>1. ASSUME NEW b \in Held, b \in Leaving(q.todo) PROVE b \in Leaving(m.todo)
    <3>1. PICK u \in Entries(q.todo) : u.a = b /\ (u.op = "forget" \/ (u.op = "put" /\ u.record = NoRecord))
      BY <2>1 DEF Leaving
    <3>2. CASE u \in Entries(Tail(q.todo))
      BY <3>1, <3>2 DEF Leaving
    <3>3. CASE u = Head(q.todo)
      BY <2>1, <3>1, <3>3 DEF Leaving
    <3>4. QED
      BY <3>1, <3>2, <3>3
  <2>2. QED
    BY <2>1
<1>2. ListedInv(m)
  <2>1. Held \subseteq Entries(kv.index)
    BY DEF ListedInv
  <2>2. ASSUME NEW t \in Entries(m.todo), t.op = "set", t.key = "index"
        PROVE  Held \subseteq Entries(t.value) \cup Leaving(m.todo)
    <3>1. t \in Entries(q.todo)
      BY <2>2
    <3>2. Held \subseteq Entries(t.value) \cup Leaving(q.todo)
      BY <2>2, <3>1 DEF ListedInv
    <3>3. QED
      BY <1>1, <3>2
  <2>3. QED
    BY <2>1, <2>2 DEF ListedInv
<1>3. ASSUME NEW b \in rules
      PROVE  /\ b \in Held => \E t \in Entries(m.todo) : Removes(t, b)
             /\ b \in kv.attempts => \E t \in Entries(m.todo) : Drops(t, b)
  <2>1. /\ b \in Held => \E t \in Entries(q.todo) : Removes(t, b)
        /\ b \in kv.attempts => \E t \in Entries(q.todo) : Drops(t, b)
    BY <1>3 DEF RulesInv
  <2>2. ~Drops(Head(q.todo), b) /\ (Removes(Head(q.todo), b) => b = a)
    BY DEF Drops, Removes
  <2>3. a \in Held => \E t \in Entries(m.todo) : Removes(t, a)
    BY DEF Removes
  <2>4. QED
    BY <2>1, <2>2, <2>3
<1>4. RulesInv(m)
  BY <1>3 DEF RulesInv
<1>5. QED
  BY <1>2, <1>4

(* forgetRecord reads the record and undoes what it was counted as.        *)
LEMMA ForgetHostHolds ==
  ASSUME CorpusInv, NEW p \in Request, ForgetHost(p) PROVE CorpusInv'
<1>1. PICK q : q = requests[p]
  OBVIOUS
<1>2. p \in Active /\ Head(q.todo).op = "forget"
  BY <1>1 DEF ForgetHost, At, Head1
<1>3. /\ HandlerOK(q) /\ q.todo # <<>> /\ TodoOK(q.todo) /\ kv \in Store /\ WalkOK(q)
      /\ records \in [Address -> Record \cup {NoRecord}] /\ events \in Nat
      /\ clean \in BOOLEAN /\ lossless \in BOOLEAN
      /\ clean => /\ \A a \in Address : records[a].marker # "legacy"
                  /\ Balanced(WithBatch(q, After(q.todo, Now)))
      /\ lossless /\ Cardinality(Address) <= MaxIndex => ListedInv(q) /\ RulesInv(q)
  BY <1>1, <1>2, Before
<1>4. PICK kind \in Kind : \A t \in Entries(q.todo) : Fits(kind, t)
  BY <1>3 DEF TodoOK
<1>5. /\ Head(q.todo) \in Entries(q.todo) /\ q.todo \in Seq(Entries(q.todo))
      /\ Tail(q.todo) \in Seq(Entries(Tail(q.todo)))
      /\ Entries(q.todo) = {Head(q.todo)} \cup Entries(Tail(q.todo))
      /\ ~Loud(Head(q.todo)) => \A u \in Entries(q.todo) : ~Loud(u)
      /\ \A u \in Entries(Tail(q.todo)) : MayPrecede(Head(q.todo), u)
  BY <1>3, TodoFacts
<1>6. PICK a : a = Head(q.todo).a
  OBVIOUS
<1>7. a \in Address /\ kind = "forgetting"
  <2>1. Fits(kind, Head(q.todo))
    BY <1>4, <1>5
  <2>2. a \in Address
    BY <1>2, <1>4, <1>6, <2>1, TaskTypes
  <2>3. kind = "forgetting"
    BY <1>2, <1>4, <2>1, OpKinds
  <2>4. QED
    BY <2>2, <2>3
<1>8. PICK r : r = records[a]
  OBVIOUS
<1>9. r \in Record \cup {NoRecord} /\ (a \in Held <=> r # NoRecord)
  BY <1>3, <1>7, <1>8 DEF Held
<1>10. PICK tasks : tasks = IF r = NoRecord THEN <<>> ELSE ForgetTasks(a, r)
  OBVIOUS
<1>11. Continue(p, tasks)
  BY <1>1, <1>6, <1>8, <1>10 DEF ForgetHost, Head1
<1>12. /\ tasks \in Seq(Entries(tasks)) /\ InOrder(tasks) /\ Front(tasks)
       /\ r # NoRecord => tasks # <<>> /\ \E t \in Entries(tasks) : t.op = "put" /\ t.a = a /\ t.record = NoRecord
       /\ \A t \in Entries(tasks) : Forgets(t, a)
  <2>1. CASE r = NoRecord
    BY <1>10, <2>1, Written, NothingLeft
  <2>2. CASE r # NoRecord
    <3>1. r \in Record /\ tasks = ForgetTasks(a, r)
      BY <1>9, <1>10, <2>2
    <3>2. QED
      BY <1>7, <3>1, ForgetFacts
  <2>3. QED
    BY <2>1, <2>2
<1>13. /\ \A t \in Entries(tasks) : Fits(kind, t) /\ Plain(t) /\ t.op # "set"
       /\ \A t \in Entries(tasks), u \in Entries(Tail(q.todo)) : MayPrecede(t, u)
  <2>1. \A t \in Entries(tasks) : /\ Deleting(t) /\ Plain(t) /\ t.op # "set"
                                  /\ \A u : MayPrecede(t, u)
    BY <1>12 DEF Forgets
  <2>2. \A t : Deleting(t) => Fits("forgetting", t)
    BY DEF Fits, Forgetting
  <2>3. QED
    BY <1>7, <2>1, <2>2
<1>14. ~Loud(Head(q.todo)) /\ \A u \in Entries(q.todo) : ~Loud(u)
  BY <1>2, <1>5 DEF Loud
<1>15. PICK m : /\ Leaves(q, tasks \o Tail(q.todo), m)
                /\ requests' = [requests EXCEPT ![p] = IF m.todo = <<>> THEN Idle ELSE m]
  BY <1>1, <1>2, <1>11, Goes
<1>16. /\ m.todo = tasks \o Tail(q.todo) /\ m.read = <<>> /\ m.alone = q.alone /\ m.walk = q.walk
       /\ m.batch = q.batch
  BY <1>15 DEF Leaves
<1>17. /\ HandlerOK(m)
       /\ Entries(m.todo) = Entries(tasks) \cup Entries(Tail(q.todo))
       /\ m.todo \in Seq(Entries(m.todo)) /\ \A t \in Entries(m.todo) : Fits(kind, t)
  <2>1. Head(q.todo).op \notin {"publish", "resume", "scan", "flush", "screen"}
    BY <1>2
  <2>2. QED
    BY <1>3, <1>4, <1>12, <1>13, <1>14, <1>15, <2>1, Continued
<1>18. /\ Coming(q) = {} /\ Coming(m) = {} /\ Arriving(m.todo) = {}
       /\ Has(m.todo, {"flush"}) = FALSE /\ Has(q.todo, {"flush"}) = FALSE
       /\ \A t \in Entries(m.todo) : \A b : ~Brings(t, b)
       /\ Has(q.todo, {"resume", "scan"}) = FALSE
  BY <1>4, <1>5, <1>7, <1>17, KindFacts
<1>19. q.walk.on = FALSE /\ m.walk.on = FALSE
  BY <1>3, <1>16, <1>18 DEF WalkOK
<1>20. ASSUME clean PROVE Balanced(WithBatch(m, After(m.todo, Now)))
  <2>1. After(q.todo, Now) = Now
    BY <1>14, AfterQuiet
  <2>2. Balanced(Now) /\ r.marker # "legacy"
    BY <1>3, <1>7, <1>8, <1>18, <1>20, <2>1 DEF WithBatch
  <2>3. \A u \in Entries(Tail(q.todo)) : ~Loud(u)
    BY <1>5, <1>14
  <2>4. Balanced(After(tasks \o Tail(q.todo), Now))
    <3>1. CASE r = NoRecord
      <4>1. tasks \o Tail(q.todo) = Tail(q.todo)
        BY <1>5, <1>10, <3>1, NoTasks
      <4>2. QED
        BY <2>2, <2>3, <4>1, AfterQuiet
    <3>2. CASE r # NoRecord
      <4>1. tasks = ForgetTasks(a, r)
        BY <1>10, <3>2
      <4>2. QED
        BY <1>3, <1>5, <1>7, <1>8, <1>12, <2>2, <2>3, <4>1, ForgetBalance
    <3>3. QED
      BY <3>1, <3>2
  <2>5. QED
    BY <1>16, <1>18, <2>4 DEF WithBatch
<1>21. RecountOf(m)
  BY <1>4, <1>7, <1>17, KindFacts
<1>22. lossless /\ Cardinality(Address) <= MaxIndex => ListedInv(m) /\ RulesInv(m)
  BY <1>2, <1>3, <1>5, <1>6, <1>9, <1>12, <1>13, <1>17, <1>18, <1>19, ForgetLists
<1>23. UNCHANGED <<records, kv, overdue, rules, lossless>> /\ events' = events /\ clean' = clean
  BY DEF ForgetHost
<1>24. QED
  BY <1>1, <1>2, <1>3, <1>15, <1>16, <1>17, <1>20, <1>21, <1>22, <1>23, StoresStay DEF Nothing

(* When every record is counted where it belongs and listed, the records   *)
(* listed are the ones counted.                                            *)
LEMMA Agreed ==
  ASSUME MarkersAgree, records \in [Address -> Record \cup {NoRecord}]
  PROVE  /\ Listed = Held
         /\ \A a \in Address : records[a].marker # "legacy"
         /\ Tally(Listed) = [l \in Label |-> Marked(records, l)]
         /\ Cardinality(Listed) = Marks(records)
<1>1. \A a \in Address : records[a].marker = "absent" \/ (a \in Held /\ records[a].marker \in Label)
  <2>1. ASSUME NEW a \in Address
        PROVE  records[a].marker = "absent" \/ (a \in Held /\ records[a].marker \in Label)
    <3>1. CASE a \in Held
      <4>1. records[a] \in Record /\ records[a].marker = records[a].label
        BY <2>1, <3>1 DEF MarkersAgree, Held
      <4>2. QED
        BY <3>1, <4>1 DEF Record
    <3>2. CASE a \notin Held
      BY <2>1, <3>2 DEF Held, NoRecord
    <3>3. QED
      BY <3>1, <3>2
  <2>2. QED
    BY <2>1
<1>2. "absent" \notin Label /\ "legacy" \notin Label /\ Held \subseteq Address /\ NoRecord.marker = "absent"
  BY KvAssumption DEF Held, NoRecord
<1>3. Listed = Held
  BY DEF Listed, MarkersAgree
<1>4. \A a \in Address : records[a].marker # "legacy"
  BY <1>1, <1>2
<1>5. \A l \in Label : {a \in Held : records[a].label = l} = {a \in Address : records[a].marker = l}
  <2>1. ASSUME NEW l \in Label, NEW a \in Address
        PROVE  a \in Held /\ records[a].label = l <=> records[a].marker = l
    <3>1. a \in Held => records[a].marker = records[a].label
      BY DEF MarkersAgree
    <3>2. QED
      BY <1>1, <1>2, <2>1, <3>1
  <2>2. QED
    BY <1>2, <2>1
<1>6. Tally(Listed) = [l \in Label |-> Marked(records, l)]
  BY <1>3, <1>5 DEF Tally, Marked
<1>7. Held = {a \in Address : Counted(records[a])}
  <2>1. \A a \in Address : a \in Held <=> Counted(records[a])
    <3>1. ASSUME NEW a \in Address PROVE a \in Held <=> Counted(records[a])
      <4>1. CASE a \in Held
        <5>1. records[a] \in Record /\ records[a].marker = records[a].label
          BY <3>1, <4>1 DEF MarkersAgree, Held
        <5>2. QED
          BY <4>1, <5>1 DEF Record, Counted
      <4>2. CASE a \notin Held
        <5>1. records[a].marker = "absent"
          BY <1>1, <4>2
        <5>2. QED
          BY <1>2, <4>2, <5>1 DEF Counted
      <4>3. QED
        BY <4>1, <4>2
    <3>2. QED
      BY <3>1
  <2>2. QED
    BY <1>2, <2>1
<1>8. QED
  BY <1>3, <1>4, <1>6, <1>7 DEF Marks

(* The writes that are left when a recount replaces a count.               *)
LEMMA PublishFacts ==
  ASSUME NEW q, HandlerOK(q), q.todo # <<>>, Head(q.todo).op = "publish",
         NEW t, t = Head(q.todo)
  PROVE  /\ \A u \in Entries(q.todo) : Fits("recounting", u) /\ ~Loud(u)
         /\ TodoOK(Tail(q.todo))
         /\ \A u \in Entries(Tail(q.todo)) : Fits("recounting", u) /\ ~Loud(u)
         /\ t.whole \in BOOLEAN
         /\ \/ /\ t.key = "corpus" /\ t.value \in Nat
               /\ \E two, three : /\ Tail(q.todo) = <<two, three>> /\ two \in Entries(q.todo)
                                  /\ two.op = "publish" /\ two.key = "geo" /\ two.whole = t.whole
                                  /\ three.op = "set"
            \/ /\ t.key = "geo" /\ t.value \in [Label -> Nat]
               /\ \E three : Tail(q.todo) = <<three>> /\ three.op = "set"
<1>1. TodoOK(q.todo) /\ Published(q.todo)
  BY DEF HandlerOK, TodoOK
<1>2. /\ t \in Entries(q.todo) /\ t = q.todo[1]
      /\ \A u \in Entries(q.todo) : u \in Entries(q.todo)
  BY <1>1, TodoFacts
<1>3. t.op = "publish"
  OBVIOUS
<1>4. Has(q.todo, {"publish"})
  BY <1>2 DEF Has
<1>5. PICK kind \in Kind : \A u \in Entries(q.todo) : Fits(kind, u)
  BY <1>1 DEF TodoOK
<1>6. Fits(kind, t)
  BY <1>2, <1>5
<1>7. kind = "recounting"
  BY <1>5, <1>6, OpKinds
<1>8. CASE q.todo = <<Publish("corpus", q.todo[1].value, q.todo[1].whole),
                      Publish("geo", q.todo[2].value, q.todo[1].whole), Set("staged", NoStaged)>>
  <2>1. PICK two, three : /\ two = Publish("geo", q.todo[2].value, t.whole)
                          /\ three = Set("staged", NoStaged)
    OBVIOUS
  <2>2. t = Publish("corpus", t.value, t.whole) /\ q.todo = <<t, two, three>> /\ q.todo[2] = two
    <3>1. q.todo = <<Publish("corpus", t.value, t.whole), two, three>>
      BY <1>2, <1>8, <2>1
    <3>2. q.todo[1] = Publish("corpus", t.value, t.whole) /\ q.todo[2] = two
      BY <3>1, Written
    <3>3. QED
      BY <1>2, <3>1, <3>2
  <2>3. t.key = "corpus" /\ two.op = "publish" /\ two.key = "geo" /\ two = Publish("geo", two.value, t.whole)
    BY <2>1, <2>2 DEF Publish
  <2>4. Entries(q.todo) = {t, two, three} /\ Tail(q.todo) = <<two, three>> /\ Entries(Tail(q.todo)) = {two, three}
    BY <2>2, Written
  <2>5. t.value \in Nat /\ t.whole \in BOOLEAN
    <3>1. \/ t.key = "corpus" /\ t.value \in Nat /\ t.whole \in BOOLEAN
          \/ t.key = "geo" /\ t.value \in [Label -> Nat] /\ t.whole \in BOOLEAN
      BY <1>5, <1>6, <1>3, <2>3, TaskTypes
    <3>2. QED
      BY <2>3, <3>1
  <2>6. two.value \in [Label -> Nat]
    <3>1. Fits(kind, two)
      BY <1>5, <2>4
    <3>2. \/ two.key = "corpus" /\ two.value \in Nat /\ two.whole \in BOOLEAN
          \/ two.key = "geo" /\ two.value \in [Label -> Nat] /\ two.whole \in BOOLEAN
      BY <1>5, <2>3, <3>1, TaskTypes
    <3>3. QED
      BY <2>3, <3>2
  <2>7. Trio(t, two, three)
    <3>1. three = Set("staged", NoStaged)
      BY <2>1
    <3>2. t = Publish("corpus", t.value, t.whole)
      BY <2>2
    <3>3. two = Publish("geo", two.value, t.whole)
      BY <2>3
    <3>4. QED
      BY <2>5, <2>6, <3>1, <3>2, <3>3 DEF Trio
  <2>8. /\ TodoOK(<<two, three>>)
        /\ \A u \in {t, two, three} : Fits("recounting", u) /\ ~Loud(u)
        /\ two.whole = t.whole /\ three.op = "set"
    BY <2>7, Publishing
  <2>9. QED
    BY <2>3, <2>4, <2>5, <2>8
<1>9. CASE q.todo = <<Publish("geo", q.todo[1].value, q.todo[1].whole), Set("staged", NoStaged)>>
  <2>1. PICK one, three : /\ one = Publish("corpus", 0, t.whole)
                          /\ three = Set("staged", NoStaged)
    OBVIOUS
  <2>2. t = Publish("geo", t.value, t.whole) /\ q.todo = <<t, three>>
    <3>1. q.todo = <<Publish("geo", t.value, t.whole), three>>
      BY <1>2, <1>9, <2>1
    <3>2. q.todo[1] = Publish("geo", t.value, t.whole)
      BY <3>1, Written
    <3>3. QED
      BY <1>2, <3>1, <3>2
  <2>3. t.key = "geo" /\ one.value = 0 /\ one.whole = t.whole /\ one.op = "publish" /\ one.key = "corpus"
    BY <2>1, <2>2 DEF Publish
  <2>4. Entries(q.todo) = {t, three} /\ Tail(q.todo) = <<three>> /\ Entries(Tail(q.todo)) = {three}
    BY <2>2, Written
  <2>5. t.value \in [Label -> Nat] /\ t.whole \in BOOLEAN
    <3>1. \/ t.key = "corpus" /\ t.value \in Nat /\ t.whole \in BOOLEAN
          \/ t.key = "geo" /\ t.value \in [Label -> Nat] /\ t.whole \in BOOLEAN
      BY <1>5, <1>6, <1>3, <2>3, TaskTypes
    <3>2. QED
      BY <2>3, <3>1
  <2>6. Trio(one, t, three)
    BY <2>1, <2>2, <2>3, <2>5 DEF Trio
  <2>7. /\ TodoOK(<<three>>)
        /\ \A u \in {one, t, three} : Fits("recounting", u) /\ ~Loud(u)
        /\ three.op = "set"
    BY <2>6, Publishing
  <2>8. QED
    BY <2>3, <2>4, <2>5, <2>7
<1>10. QED
  BY <1>1, <1>4, <1>8, <1>9 DEF Published

(* What a recount that nobody disturbs publishes is what the records say.  *)
LEMMA PublishedBalance ==
  ASSUME records \in [Address -> Record \cup {NoRecord}], MarkersAgree, NEW q, RecountOf(q),
         NEW t, t = Head(q.todo), q.todo # <<>>, t \in Entries(q.todo),
         t.op = "publish", t.key \in {"geo", "corpus"}, t.whole = TRUE,
         records' = records,
         t.key = "geo" => kv'.geo = t.value /\ kv'.corpus = kv.corpus,
         t.key = "corpus" => kv'.corpus = t.value /\ kv'.geo = kv.geo /\ Balanced(Now)
  PROVE  Balanced(Now')
<1>1. /\ Listed = Held
      /\ Tally(Listed) = [l \in Label |-> Marked(records, l)]
      /\ Cardinality(Listed) = Marks(records)
  BY Agreed
<1>2. /\ t.value = IF t.key = "geo" THEN Tally(Listed) ELSE Cardinality(Listed)
      /\ t.key = "geo" => kv.corpus = Cardinality(Listed)
  BY DEF RecountOf
<1>3. /\ Now.geo = kv.geo /\ Now.corpus = kv.corpus /\ Now.records = records
      /\ Now'.geo = kv'.geo /\ Now'.corpus = kv'.corpus /\ Now'.records = records
  BY DEF Now
<1>4. CASE t.key = "geo"
  BY <1>1, <1>2, <1>3, <1>4, BalancedMarks
<1>5. CASE t.key = "corpus"
  <2>1. kv.geo = [l \in Label |-> Marked(records, l)]
    BY <1>3, <1>5, BalancedMarks
  <2>2. kv'.corpus = Marks(records)
    BY <1>1, <1>2, <1>5
  <2>3. QED
    BY <1>3, <1>5, <2>1, <2>2, BalancedMarks
<1>6. QED
  BY <1>4, <1>5

(* A recount publishes a count.                                            *)
LEMMA PublishKeyHolds ==
  ASSUME CorpusInv, NEW p \in Request, PublishKey(p) PROVE CorpusInv'
<1>1. PICK q : q = requests[p]
  OBVIOUS
<1>2. p \in Active /\ Head(q.todo).op = "publish"
  BY <1>1 DEF PublishKey, At, Head1
<1>3. /\ HandlerOK(q) /\ q.todo # <<>> /\ TodoOK(q.todo) /\ kv \in Store /\ WalkOK(q)
      /\ records \in [Address -> Record \cup {NoRecord}]
      /\ overdue \subseteq Held /\ rules \subseteq Ruled /\ events \in Nat
      /\ clean \in BOOLEAN /\ lossless \in BOOLEAN /\ q.alone \in BOOLEAN
      /\ clean => /\ Balanced(WithBatch(q, After(q.todo, Now)))
                  /\ q.alone
      /\ q.alone => RecountOf(q)
      /\ lossless /\ Cardinality(Address) <= MaxIndex => ListedInv(q) /\ RulesInv(q)
  BY <1>1, <1>2, Before
<1>4. PICK t : t = Head(q.todo)
  OBVIOUS
<1>5. t \in Entries(q.todo) /\ q.todo \in Seq(Entries(q.todo))
      /\ Entries(q.todo) = {t} \cup Entries(Tail(q.todo)) /\ Tail(q.todo) \in Seq(Entries(Tail(q.todo)))
  BY <1>3, <1>4, TodoFacts
<1>6. /\ \A u \in Entries(q.todo) : Fits("recounting", u) /\ ~Loud(u)
      /\ TodoOK(Tail(q.todo))
      /\ \A u \in Entries(Tail(q.todo)) : Fits("recounting", u) /\ ~Loud(u)
      /\ t.whole \in BOOLEAN
      /\ \/ /\ t.key = "corpus" /\ t.value \in Nat
            /\ \E two, three : /\ Tail(q.todo) = <<two, three>> /\ two \in Entries(q.todo)
                               /\ two.op = "publish" /\ two.key = "geo" /\ two.whole = t.whole
                               /\ three.op = "set"
         \/ /\ t.key = "geo" /\ t.value \in [Label -> Nat]
            /\ \E three : Tail(q.todo) = <<three>> /\ three.op = "set"
  BY <1>2, <1>3, <1>4, PublishFacts
<1>7. PICK m : /\ Leaves(q, Tail(q.todo), m)
               /\ requests' = [requests EXCEPT ![p] = IF m.todo = <<>> THEN Idle ELSE m]
  BY <1>1, <1>2, Done DEF PublishKey
<1>8. /\ m.todo = Tail(q.todo) /\ m.read = <<>> /\ m.alone = q.alone /\ m.walk = q.walk
      /\ m.batch = q.batch
  BY <1>7 DEF Leaves
<1>9. HandlerOK(m)
  BY <1>3, <1>6, <1>7, RecountHandler
<1>10. /\ Wrote(t.key, t.value)
       /\ clean' = (t.whole /\ MarkersAgree /\ (clean \/ (q.alone /\ t.key = "geo")))
       /\ records' = records /\ overdue' = overdue /\ rules' = rules /\ events' = events
       /\ lossless' = lossless
  BY <1>1, <1>4 DEF PublishKey, Head1, Wrote
<1>11. /\ kv' \in Store
       /\ kv'.index = kv.index /\ kv'.attempts = kv.attempts
       /\ t.key = "geo" => kv'.geo = t.value /\ kv'.corpus = kv.corpus
       /\ t.key = "corpus" => kv'.corpus = t.value /\ kv'.geo = kv.geo
  <2>1. ValueOK(t.key, t.value) /\ t.key \in {"geo", "corpus"}
    BY <1>6 DEF ValueOK
  <2>2. QED
    BY <1>3, <1>10, <2>1, StoreWrite
<1>12. /\ ListedInv(m) => ListedInv(m)'
       /\ RulesInv(m) => RulesInv(m)'
       /\ Held' = Held /\ Listed' = Listed
  BY <1>10, <1>11, SameLists
<1>13. "recounting" \in Kind
  BY DEF Kind
<1>14. Has(m.todo, {"flush"}) = FALSE /\ Has(q.todo, {"flush"}) = FALSE
  BY <1>5, <1>6, <1>8, <1>13, KindFacts
<1>15. ASSUME clean'
       PROVE  /\ Balanced(WithBatch(m, After(m.todo, Now)))'
              /\ \A a \in Address : records'[a].marker # "legacy"
              /\ m.alone
  <2>1. /\ t.whole = TRUE /\ MarkersAgree /\ q.alone
        /\ t.key = "corpus" => clean
    BY <1>3, <1>6, <1>10, <1>15
  <2>2. t.op = "publish" /\ t.key \in {"geo", "corpus"}
    BY <1>2, <1>4, <1>6
  <2>3. t.key = "corpus" => Balanced(Now)
    BY <1>3, <1>6, <1>14, <2>1, AfterQuiet DEF WithBatch
  <2>4. Balanced(Now')
    BY <1>3, <1>4, <1>5, <1>10, <1>11, <2>1, <2>2, <2>3, PublishedBalance
  <2>5. After(m.todo, Now') = Now'
    BY <1>6, <1>8, AfterQuiet
  <2>6. WithBatch(m, After(m.todo, Now')) = Now'
    BY <1>14, <2>5 DEF WithBatch
  <2>7. \A a \in Address : records'[a].marker # "legacy"
    BY <1>3, <1>10, <2>1, Agreed
  <2>8. QED
    BY <1>8, <2>1, <2>4, <2>6, <2>7
<1>16. ASSUME m.alone PROVE RecountOf(m)'
  <2>1. RecountOf(q)
    BY <1>3, <1>8, <1>16
  <2>2. \A A : Tally(A)' = Tally(A)
    BY <1>10 DEF Tally
  <2>3. CASE t.key = "corpus"
    <3>1. PICK two, three : /\ Tail(q.todo) = <<two, three>> /\ two \in Entries(q.todo)
                            /\ two.op = "publish" /\ two.key = "geo" /\ two.whole = t.whole
                            /\ three.op = "set"
      BY <1>6, <2>3
    <3>2. Entries(m.todo) = {two, three} /\ Head(m.todo) = two
      <4>1. Entries(<<two, three>>) = {two, three} /\ Head(<<two, three>>) = two
        BY Written
      <4>2. m.todo = <<two, three>>
        BY <1>8, <3>1
      <4>3. QED
        BY <4>1, <4>2
    <3>3. two.whole => two.value = Tally(Listed) /\ kv'.corpus = Cardinality(Listed)
      <4>1. two.whole => two.value = Tally(Listed)
        BY <2>1, <3>1 DEF RecountOf
      <4>2. two.whole => t.value = Cardinality(Listed)
        BY <1>2, <1>4, <1>5, <2>1, <2>3, <3>1 DEF RecountOf
      <4>3. QED
        BY <1>11, <2>3, <4>1, <4>2
    <3>4. Tally(Listed)' = Tally(Listed)
      BY <1>10, <1>12 DEF Tally
    <3>5. QED
      BY <1>12, <3>1, <3>2, <3>3, <3>4 DEF RecountOf
  <2>4. CASE t.key = "geo"
    <3>1. PICK three : Tail(q.todo) = <<three>> /\ three.op = "set"
      BY <1>6, <2>4
    <3>2. Entries(m.todo) = {three} /\ Head(m.todo) = three
      BY <1>8, <3>1, Written
    <3>3. QED
      BY <3>1, <3>2 DEF RecountOf
  <2>5. QED
    BY <1>6, <2>3, <2>4
<1>17. lossless /\ Cardinality(Address) <= MaxIndex => ListedInv(m)' /\ RulesInv(m)'
  <2>1. lossless /\ Cardinality(Address) <= MaxIndex => ListedInv(m) /\ RulesInv(m)
    BY <1>3, <1>5, <1>6, <1>8, RecountListed
  <2>2. QED
    BY <1>12, <2>1
<1>18. /\ overdue' \subseteq Held' /\ rules' \subseteq Ruled /\ events' \in Nat
       /\ clean' \in BOOLEAN /\ lossless' = lossless /\ records' \in [Address -> Record \cup {NoRecord}]
  <2>1. MarkersAgree \in BOOLEAN
    BY DEF MarkersAgree
  <2>2. clean' \in BOOLEAN
    BY <1>3, <1>6, <1>10, <2>1
  <2>3. QED
    BY <1>3, <1>10, <1>12, <2>2
<1>19. (clean' => clean \/ m.alone) /\ (lossless \/ m.alone =>
           (m.todo # <<>> /\ m.read # Nothing => m.read[1] = kv'[Head(m.todo).key]))
  BY <1>8, <1>15 DEF Nothing
<1>20. QED
  BY <1>1, <1>2, <1>7, <1>8, <1>9, <1>11, <1>15, <1>16, <1>17, <1>18, <1>19, StepHolds

(* What a contact makes of a record: it is counted if it answered, and     *)
(* counted as it was if it did not.                                        *)
Counting(old, new, answered) ==
  /\ new \in [label : Label, marker : Label \cup {"none"}] /\ new # NoRecord
  /\ answered \in BOOLEAN
  /\ answered => new.marker \in Label
  /\ ~answered => (Counted(new) <=> Counted(old))
  /\ ~answered => \A l \in Label : new.marker = l <=> old.marker = l

Answered(c) == c.answered

(* The record a contact leaves.                                            *)
LEMMA MergedFacts ==
  ASSUME NEW old \in Record \cup {NoRecord}, NEW c \in Contact, NEW new, new = Merged(old, c)
  PROVE  Counting(old, new, Answered(c))
<1>1. PICK answered : answered = Answered(c)
  OBVIOUS
<1>2. /\ c.label \in Label /\ answered \in BOOLEAN /\ old.label \in Label
      /\ "none" \notin Label /\ "absent" \notin Label /\ NoRecord.marker = "absent"
  BY <1>1, KvAssumption DEF Answered, Contact, Record, NoRecord
<1>3. PICK kept : kept = IF c.label # Unlabelled \/ old = NoRecord THEN c.label ELSE old.label
  OBVIOUS
<1>4. PICK mark : mark = CASE answered -> kept
                           [] ~answered /\ Counted(old) -> old.marker
                           [] OTHER -> "none"
  OBVIOUS
<1>5. new = [label |-> kept, marker |-> mark]
  BY <1>1, <1>3, <1>4 DEF Answered, Merged
<1>6. kept \in Label
  BY <1>2, <1>3
<1>7. mark \in Label \cup {"none"} /\ (answered => mark \in Label)
  BY <1>2, <1>4, <1>6 DEF Counted
<1>8. ASSUME ~answered
      PROVE  (mark \in Label <=> Counted(old)) /\ \A l \in Label : mark = l <=> old.marker = l
  <2>1. CASE Counted(old)
    BY <1>4, <1>8, <2>1 DEF Counted
  <2>2. CASE ~Counted(old)
    BY <1>2, <1>4, <1>8, <2>2 DEF Counted
  <2>3. QED
    BY <2>1, <2>2
<1>9. new.marker = mark /\ new \in [label : Label, marker : Label \cup {"none"}]
  BY <1>5, <1>6, <1>7
<1>10. new # NoRecord
  BY <1>2, <1>7, <1>9
<1>11. Counting(old, new, answered)
  BY <1>2, <1>7, <1>8, <1>9, <1>10 DEF Counted, Counting
<1>12. QED
  BY <1>1, <1>11

(* How the counts of the records change with it.                           *)
Merging(R, a, old, new, answered, R2) ==
  /\ DOMAIN R = Address /\ a \in Address /\ old = R[a] /\ R2 = With(R, a, new)
  /\ Counting(old, new, answered)

(* How a contact moves the host between the buckets.                       *)
LEMMA ContactMarks ==
  ASSUME NEW R, NEW a, NEW old, NEW new, NEW answered, NEW R2,
         Merging(R, a, old, new, answered, R2),
         NEW moved \in BOOLEAN, moved <=> (answered /\ old.marker # new.marker)
  PROVE  /\ \A l \in Label :
              /\ Marked(R, l) \in Nat
              /\ old.marker = l => Marked(R, l) > 0
              /\ Marked(R2, l) = IF moved THEN Marked(R, l) + (IF l = new.marker THEN 1 ELSE 0)
                                                            - (IF l = old.marker THEN 1 ELSE 0)
                                 ELSE Marked(R, l)
         /\ Marks(R) \in Nat
         /\ Marks(R2) = Marks(R) + (IF answered /\ ~Counted(old) THEN 1 ELSE 0)
<1>1. /\ \A l : /\ Marked(R2, l) = Marked(R, l) + (IF new.marker = l THEN 1 ELSE 0)
                                                - (IF R[a].marker = l THEN 1 ELSE 0)
                /\ Marked(R, l) \in Nat
                /\ R[a].marker = l => Marked(R, l) > 0
      /\ Marks(R2) = Marks(R) + (IF Counted(new) THEN 1 ELSE 0) - (IF Counted(R[a]) THEN 1 ELSE 0)
      /\ Marks(R) \in Nat
  BY CountsMove DEF Merging
<1>2. /\ old = R[a] /\ (answered => Counted(new))
      /\ ~answered => /\ Counted(new) <=> Counted(old)
                      /\ \A l \in Label : new.marker = l <=> old.marker = l
  BY DEF Merging, Counting, Counted
<1>3. ASSUME NEW l \in Label
      PROVE  Marked(R2, l) = IF moved THEN Marked(R, l) + (IF l = new.marker THEN 1 ELSE 0)
                                                        - (IF l = old.marker THEN 1 ELSE 0)
                             ELSE Marked(R, l)
  <2>1. CASE moved
    BY <1>1, <1>2, <2>1
  <2>2. CASE ~moved
    <3>1. new.marker = l <=> old.marker = l
      BY <1>2, <2>2
    <3>2. QED
      BY <1>1, <1>2, <2>2, <3>1
  <2>3. QED
    BY <2>1, <2>2
<1>4. Marks(R2) = Marks(R) + (IF answered /\ ~Counted(old) THEN 1 ELSE 0)
  BY <1>1, <1>2
<1>5. QED
  BY <1>1, <1>2, <1>3, <1>4

(* The changes of one contact without a batch: counts, then the record.    *)
Loudly(moved, a, old, new, seen) ==
  CASE moved /\ Counted(old) -> <<Update("geo", One(old.marker, -1)),
                                  Update("geo", One(new.marker, 1)), Put(a, new, seen)>>
    [] moved /\ ~Counted(old) -> <<Update("geo", One(new.marker, 1)),
                                   Update("corpus", 1), Put(a, new, seen)>>
    [] ~moved -> <<Put(a, new, seen)>>

Stores(t, a) ==
  /\ Recording(t) /\ Loud(t) /\ Plain(t) /\ t.op # "set"
  /\ t.op = "put" \/ (t.op = "update" /\ t.key \in {"geo", "corpus"})
  /\ t.op = "put" => t.a = a /\ t.record # NoRecord
  /\ \A u : MayPrecede(t, u)

(* The changes of one contact are in order.                                *)
LEMMA LoudTasks ==
  ASSUME NEW a \in Address, NEW old, NEW new, new # NoRecord,
         new \in [label : Label, marker : Label \cup {"none"}], NEW moved \in BOOLEAN, moved => new.marker \in Label,
         NEW seen \in BOOLEAN, NEW s, s = Loudly(moved, a, old, new, seen)
  PROVE  /\ s # <<>> /\ s \in Seq(Entries(s)) /\ InOrder(s) /\ Front(s)
         /\ \A t \in Entries(s) : Stores(t, a)
<1>1. PICK put, minus, plus, one : /\ put = Put(a, new, seen) /\ one = Update("corpus", 1)
                                   /\ minus = Update("geo", One(old.marker, -1))
                                   /\ plus = Update("geo", One(new.marker, 1))
  OBVIOUS
<1>2. /\ put.op = "put" /\ put.a = a /\ put.record = new /\ put.seen = seen
      /\ one.op = "update" /\ one.key = "corpus" /\ one.change = 1
      /\ minus.op = "update" /\ minus.key = "geo" /\ minus.change = One(old.marker, -1)
      /\ plus.op = "update" /\ plus.key = "geo" /\ plus.change = One(new.marker, 1)
  BY <1>1 DEF Put, Update
<1>3. \A k \in Label : One(k, -1) \in [Label -> Int] /\ One(k, 1) \in [Label -> Int]
  BY OneType
<1>4. Stores(put, a)
  BY <1>2 DEF Stores, Recording, Loud, Plain, MayPrecede
<1>5. Stores(one, a)
  BY <1>2 DEF Stores, Recording, Loud, Plain, MayPrecede, Change
<1>6. ASSUME moved PROVE Stores(plus, a)
  <2>1. plus.change \in [Label -> Int]
    BY <1>2, <1>3, <1>6
  <2>2. QED
    BY <1>2, <2>1 DEF Stores, Recording, Loud, Plain, MayPrecede, Change
<1>7. ASSUME Counted(old) PROVE Stores(minus, a)
  <2>1. minus.change \in [Label -> Int]
    BY <1>2, <1>3, <1>7 DEF Counted
  <2>2. QED
    BY <1>2, <2>1 DEF Stores, Recording, Loud, Plain, MayPrecede, Change
<1>8. /\ s # <<>> /\ s \in Seq(Entries(s)) /\ DOMAIN s \subseteq {1, 2, 3}
      /\ \A t \in Entries(s) : Stores(t, a)
  <2>1. CASE moved /\ Counted(old)
    <3>1. s = <<minus, plus, put>>
      BY <1>1, <2>1 DEF Loudly
    <3>2. Entries(<<minus, plus, put>>) = {minus, plus, put}
      BY Written
    <3>3. \A t \in {minus, plus, put} : Stores(t, a)
      BY <1>4, <1>6, <1>7, <2>1
    <3>4. QED
      BY <3>1, <3>2, <3>3, Written
  <2>2. CASE moved /\ ~Counted(old)
    <3>1. s = <<plus, one, put>>
      BY <1>1, <2>2 DEF Loudly
    <3>2. Entries(<<plus, one, put>>) = {plus, one, put}
      BY Written
    <3>3. \A t \in {plus, one, put} : Stores(t, a)
      BY <1>4, <1>5, <1>6, <2>2
    <3>4. QED
      BY <3>1, <3>2, <3>3, Written
  <2>3. CASE ~moved
    <3>1. s = <<put>>
      BY <1>1, <2>3 DEF Loudly
    <3>2. Entries(<<put>>) = {put}
      BY Written
    <3>3. QED
      BY <1>4, <3>1, <3>2, Written
  <2>4. QED
    BY <2>1, <2>2, <2>3
<1>9. \A t, u \in Entries(s) : MayPrecede(t, u)
  BY <1>8 DEF Stores
<1>10. QED
  BY <1>8, <1>9, Ordered

(* Two tasks and a third.                                                  *)
LEMMA ThreeTasks ==
  ASSUME NEW t, NEW u, NEW v
  PROVE  <<t, u>> \o <<v>> = <<t, u, v>>
<1>1. /\ <<t, u>> \in Seq({t, u, v}) /\ <<v>> \in Seq({t, u, v})
      /\ <<t, u, v>> \in Seq({t, u, v})
  OBVIOUS
<1> DEFINE all == <<t, u>> \o <<v>>
<1>2. /\ all \in Seq({t, u, v}) /\ Len(all) = 3
      /\ all[1] = t /\ all[2] = u /\ all[3] = v
  <2>1. all \in Seq({t, u, v})
    BY <1>1, ConcatProperties
  <2>2. /\ 1 \in DOMAIN <<t, u>> /\ 2 \in DOMAIN <<t, u>> /\ 1 \in DOMAIN <<v>>
        /\ Len(<<t, u>>) = 2 /\ Len(<<v>>) = 1
    BY Written
  <2>3. /\ Len(all) = Len(<<t, u>>) + Len(<<v>>)
        /\ all[1] = <<t, u>>[1] /\ all[2] = <<t, u>>[2] /\ all[Len(<<t, u>>) + 1] = <<v>>[1]
    BY <2>2, Written, JoinedSeq
  <2>4. QED
    BY <2>1, <2>2, <2>3, Written
<1> HIDE DEF all
<1>3. \A i \in 1..Len(all) : all[i] = <<t, u, v>>[i]
  <2>1. \A i \in 1..3 : i = 1 \/ i = 2 \/ i = 3
    OBVIOUS
  <2>2. QED
    BY <1>2, <2>1, Written
<1>4. all = <<t, u, v>>
  BY <1>1, <1>2, <1>3, Written, SeqEqual
<1>5. QED
  BY <1>4 DEF all

Leads(first, moved, old, new) == first = IF moved THEN CountTasks(old, new) ELSE <<>>
Closes(first, moved, a, old, new, seen, last) ==
  first \o <<Put(a, new, seen), last>> = Loudly(moved, a, old, new, seen) \o <<last>>

(* What a contact leads to without a batch is in order.                    *)
LEMMA ContactTasks ==
  ASSUME NEW a, NEW old, NEW new, NEW moved \in BOOLEAN, NEW seen, NEW last,
         NEW first, Leads(first, moved, old, new)
  PROVE  Closes(first, moved, a, old, new, seen, last)
<1>1. PICK put, minus, plus, one : /\ put = Put(a, new, seen) /\ one = Update("corpus", 1)
                                   /\ minus = Update("geo", One(old.marker, -1))
                                   /\ plus = Update("geo", One(new.marker, 1))
  OBVIOUS
<1>2. first \in Seq(Entries(first)) /\ first \o <<put>> = Loudly(moved, a, old, new, seen)
  <2>1. CASE moved /\ Counted(old)
    <3>1. first = <<minus, plus>> /\ Loudly(moved, a, old, new, seen) = <<minus, plus, put>>
      BY <1>1, <2>1 DEF Leads, CountTasks, Loudly
    <3>2. /\ <<minus, plus>> \in Seq(Entries(<<minus, plus>>))
          /\ <<minus, plus>> \o <<put>> = <<minus, plus, put>>
      BY Written, ThreeTasks
    <3>3. QED
      BY <3>1, <3>2
  <2>2. CASE moved /\ ~Counted(old)
    <3>1. first = <<plus, one>> /\ Loudly(moved, a, old, new, seen) = <<plus, one, put>>
      BY <1>1, <2>2 DEF Leads, CountTasks, Loudly
    <3>2. /\ <<plus, one>> \in Seq(Entries(<<plus, one>>))
          /\ <<plus, one>> \o <<put>> = <<plus, one, put>>
      BY Written, ThreeTasks
    <3>3. QED
      BY <3>1, <3>2
  <2>3. CASE ~moved
    <3>1. first = <<>> /\ Loudly(moved, a, old, new, seen) = <<put>>
      BY <1>1, <2>3 DEF Leads, Loudly
    <3>2. QED
      BY <3>1, Written, NoTasks
  <2>4. QED
    BY <2>1, <2>2, <2>3
<1>3. <<put>> \o <<last>> = <<put, last>>
  BY TwoJoined
<1>4. first \o (<<put>> \o <<last>>) = (first \o <<put>>) \o <<last>>
  <2> DEFINE S == Entries(first) \cup {put, last}
  <2>1. first \in Seq(S) /\ <<put>> \in Seq(S) /\ <<last>> \in Seq(S)
    <3>1. first \in Seq(S)
      BY <1>2, SeqMonotonic
    <3>2. QED
      BY <3>1
  <2>2. QED
    BY <2>1, ConcatAssociative
<1>5. first \o <<put, last>> = Loudly(moved, a, old, new, seen) \o <<last>>
  BY <1>2, <1>3, <1>4
<1>6. QED
  BY <1>1, <1>5 DEF Closes

(* Those changes leave counts that agree.                                  *)
LEMMA ContactCounts ==
  ASSUME NEW R, NEW a, NEW old, NEW new, NEW answered, NEW R2,
         Merging(R, a, old, new, answered, R2),
         NEW moved \in BOOLEAN, moved <=> (answered /\ old.marker # new.marker), NEW seen,
         NEW s, Counts(s), s.records = R, s.geo \in [Label -> Nat], s.corpus \in Nat, Balanced(s)
  PROVE  Balanced(After(Loudly(moved, a, old, new, seen), s))
<1>1. /\ \A l \in Label : s.geo[l] = Marked(R, l) /\ s.geo[l] \in Nat
      /\ s.geo = [l \in Label |-> s.geo[l]]
      /\ s.corpus = Marks(R)
  BY BalancedMarks
<1>2. /\ \A l \in Label :
              /\ old.marker = l => Marked(R, l) > 0
              /\ Marked(R2, l) = IF moved THEN Marked(R, l) + (IF l = new.marker THEN 1 ELSE 0)
                                                            - (IF l = old.marker THEN 1 ELSE 0)
                                 ELSE Marked(R, l)
      /\ Marks(R2) = Marks(R) + (IF answered /\ ~Counted(old) THEN 1 ELSE 0)
  BY ContactMarks
<1>3. /\ R2 = With(R, a, new) /\ answered \in BOOLEAN
      /\ answered => new.marker \in Label
      /\ answered /\ old.marker = new.marker => Counted(old)
  BY DEF Merging, Counting, Counted
<1>4. PICK put, minus, plus, one : /\ put = Put(a, new, seen) /\ one = Update("corpus", 1)
                                   /\ minus = Update("geo", One(old.marker, -1))
                                   /\ plus = Update("geo", One(new.marker, 1))
  OBVIOUS
<1>5. /\ put.op = "put" /\ put.a = a /\ put.record = new
      /\ one.op = "update" /\ one.key = "corpus" /\ one.change = 1
      /\ minus.op = "update" /\ minus.key = "geo" /\ minus.change = One(old.marker, -1)
      /\ plus.op = "update" /\ plus.key = "geo" /\ plus.change = One(new.marker, 1)
  BY <1>4 DEF Put, Update
<1>6. CASE ~moved
  <2>1. PICK s1 : s1 = Applied(put, s)
    OBVIOUS
  <2>2. After(Loudly(moved, a, old, new, seen), s) = s1
    <3>1. Loudly(moved, a, old, new, seen) = <<put>>
      BY <1>4, <1>6 DEF Loudly
    <3>2. QED
      BY <2>1, <3>1, AfterShort
  <2>3. s1.records = R2 /\ s1.geo = s.geo /\ s1.corpus = s.corpus
    BY <1>3, <1>5, <2>1, AppliedFields
  <2>4. s1.geo = [l \in Label |-> Marked(R2, l)]
    BY <1>1, <1>2, <1>6, <2>3
  <2>5. s1.corpus = Marks(R2)
    <3>1. answered => Counted(old)
      BY <1>3, <1>6
    <3>2. QED
      BY <1>1, <1>2, <2>3, <3>1
  <2>6. QED
    BY <2>2, <2>3, <2>4, <2>5, BalancedMarks
<1>7. CASE moved /\ Counted(old)
  <2>1. PICK s1, s2, s3 : s1 = Applied(minus, s) /\ s2 = Applied(plus, s1) /\ s3 = Applied(put, s2)
    OBVIOUS
  <2>2. After(Loudly(moved, a, old, new, seen), s) = s3
    <3>1. Loudly(moved, a, old, new, seen) = <<minus, plus, put>>
      BY <1>4, <1>7 DEF Loudly
    <3>2. QED
      BY <2>1, <3>1, AfterShort
  <2>3. PICK j, k \in Label : j = old.marker /\ k = new.marker
    BY <1>3, <1>7 DEF Counted
  <2>4. /\ Counts(s1) /\ s1.geo = Changed("geo", s.geo, One(j, -1))
        /\ s1.corpus = s.corpus /\ s1.records = R
    <3>1. Counts(s1)
      BY <1>5, <2>1, <2>3, AppliedCounts
    <3>2. /\ s1.geo = Changed("geo", s.geo, One(j, -1))
          /\ s1.corpus = s.corpus /\ s1.records = R
      BY <1>5, <2>1, <2>3, AppliedFields
    <3>3. QED
      BY <3>1, <3>2
  <2>5. /\ Counts(s2) /\ s2.geo = Changed("geo", s1.geo, One(k, 1))
        /\ s2.corpus = s.corpus /\ s2.records = R
    <3>1. Counts(s2)
      BY <1>5, <2>1, <2>3, <2>4, AppliedCounts
    <3>2. /\ s2.geo = Changed("geo", s1.geo, One(k, 1))
          /\ s2.corpus = s.corpus /\ s2.records = R
      BY <1>5, <2>1, <2>3, <2>4, AppliedFields
    <3>3. QED
      BY <3>1, <3>2
  <2>6. s3.records = R2 /\ s3.geo = s2.geo /\ s3.corpus = s.corpus
    <3>1. s3.records = With(R, a, new) /\ s3.geo = s2.geo /\ s3.corpus = s2.corpus
      BY <1>5, <2>1, <2>5, AppliedFields
    <3>2. QED
      BY <1>3, <2>5, <3>1
  <2>7. \A l \in Label : s1.geo[l] = s.geo[l] - (IF l = j THEN 1 ELSE 0)
    <3>1. s.geo[j] > 0
      BY <1>1, <1>2, <2>3
    <3>2. QED
      BY <2>4, <3>1, ChangedCounts
  <2>8. s1.geo = [l \in Label |-> s1.geo[l]] /\ s2.geo = [l \in Label |-> s2.geo[l]]
    BY <2>4, <2>5 DEF Changed
  <2>9. \A l \in Label : s2.geo[l] = s1.geo[l] + (IF l = k THEN 1 ELSE 0)
    <3>1. \A l \in Label : s1.geo[l] \in Nat
      BY <1>1, <1>2, <2>3, <2>7
    <3>2. s1.geo \in [Label -> Nat]
      BY <2>8, <3>1
    <3>3. QED
      BY <2>5, <3>2, ChangedCounts
  <2>10. ASSUME NEW l \in Label PROVE s2.geo[l] = Marked(R2, l)
    <3>1. Marked(R2, l) = Marked(R, l) + (IF l = k THEN 1 ELSE 0) - (IF l = j THEN 1 ELSE 0)
      BY <1>2, <1>7, <2>3
    <3>2. QED
      BY <1>1, <2>7, <2>9, <3>1
  <2>11. s3.geo = [l \in Label |-> Marked(R2, l)]
    BY <2>6, <2>8, <2>10
  <2>12. s3.corpus = Marks(R2)
    BY <1>1, <1>2, <1>7, <2>6
  <2>13. QED
    BY <2>2, <2>6, <2>11, <2>12, BalancedMarks
<1>8. CASE moved /\ ~Counted(old)
  <2>1. PICK s1, s2, s3 : s1 = Applied(plus, s) /\ s2 = Applied(one, s1) /\ s3 = Applied(put, s2)
    OBVIOUS
  <2>2. After(Loudly(moved, a, old, new, seen), s) = s3
    <3>1. Loudly(moved, a, old, new, seen) = <<plus, one, put>>
      BY <1>4, <1>8 DEF Loudly
    <3>2. QED
      BY <2>1, <3>1, AfterShort
  <2>3. PICK k \in Label : k = new.marker
    BY <1>3, <1>8
  <2>4. /\ Counts(s1) /\ s1.geo = Changed("geo", s.geo, One(k, 1))
        /\ s1.corpus = s.corpus /\ s1.records = R
    <3>1. Counts(s1)
      BY <1>5, <2>1, <2>3, AppliedCounts
    <3>2. /\ s1.geo = Changed("geo", s.geo, One(k, 1))
          /\ s1.corpus = s.corpus /\ s1.records = R
      BY <1>5, <2>1, <2>3, AppliedFields
    <3>3. QED
      BY <3>1, <3>2
  <2>5. /\ Counts(s2) /\ s2.geo = s1.geo
        /\ s2.corpus = Changed("corpus", s.corpus, 1) /\ s2.records = R
    <3>1. Counts(s2)
      BY <1>5, <2>1, <2>4, AppliedCounts
    <3>2. /\ s2.geo = s1.geo
          /\ s2.corpus = Changed("corpus", s.corpus, 1) /\ s2.records = R
      BY <1>5, <2>1, <2>4, AppliedFields
    <3>3. QED
      BY <3>1, <3>2
  <2>6. s3.records = R2 /\ s3.geo = s1.geo /\ s3.corpus = Changed("corpus", s.corpus, 1)
    <3>1. s3.records = With(R, a, new) /\ s3.geo = s2.geo /\ s3.corpus = s2.corpus
      BY <1>5, <2>1, <2>5, AppliedFields
    <3>2. QED
      BY <1>3, <2>5, <3>1
  <2>7. s1.geo = [l \in Label |-> s1.geo[l]]
    BY <2>4 DEF Changed
  <2>8. \A l \in Label : s1.geo[l] = s.geo[l] + (IF l = k THEN 1 ELSE 0)
    BY <2>4, ChangedCounts
  <2>9. ASSUME NEW l \in Label PROVE s1.geo[l] = Marked(R2, l)
    <3>1. old.marker # l
      BY <1>8 DEF Counted
    <3>2. Marked(R2, l) = Marked(R, l) + (IF l = k THEN 1 ELSE 0) - 0
      BY <1>2, <1>8, <2>3, <3>1
    <3>3. QED
      BY <1>1, <2>8, <3>2
  <2>10. s3.geo = [l \in Label |-> Marked(R2, l)]
    BY <2>6, <2>7, <2>9
  <2>11. s3.corpus = Marks(R2)
    <3>1. answered
      BY <1>8
    <3>2. Changed("corpus", s.corpus, 1) = s.corpus + 1
      BY <2>3, ChangedCounts
    <3>3. QED
      BY <1>1, <1>2, <1>8, <2>6, <3>1, <3>2
  <2>12. QED
    BY <2>2, <2>6, <2>10, <2>11, BalancedMarks
<1>9. QED
  BY <1>6, <1>7, <1>8

(* A request is at a contact, and this is what it makes of the record.     *)
Contacting(q, c, old, new) ==
  /\ q.todo # <<>> /\ Head(q.todo).op = "contact" /\ c = Head(q.todo).contact
  /\ old = records[c.a] /\ new = Merged(old, c)

(* A request at a contact, its record before and after.                    *)
LEMMA ContactFacts ==
  ASSUME CorpusInv, NEW p \in Active, NEW q, q = requests[p],
         NEW c, NEW old, NEW new, Contacting(q, c, old, new)
  PROVE  /\ \A t \in Entries(q.todo) : Fits("recording", t) /\ ~Loud(t)
         /\ c \in Contact /\ c.a \in Address /\ Answered(c) \in BOOLEAN
         /\ old \in Record \cup {NoRecord}
         /\ Merging(records, c.a, old, new, Answered(c), With(records, c.a, new))
         /\ q.walk.on = FALSE /\ q.read = <<>>
         /\ Has(q.todo, {"resume", "scan"}) = FALSE
         /\ \A t \in Entries(q.todo) : ~(t.op = "set" /\ t.key = "index")
         /\ q.batch.open <=> Has(Tail(q.todo), {"flush"})
         /\ Has(q.todo, {"flush"}) <=> Has(Tail(q.todo), {"flush"})
<1>1. /\ HandlerOK(q) /\ q.todo # <<>> /\ TodoOK(q.todo) /\ ReadOK(q) /\ BatchOK(q) /\ WalkOK(q)
      /\ records \in [Address -> Record \cup {NoRecord}]
  BY Before
<1>2. Head(q.todo).op = "contact"
  BY DEF Contacting
<1>3. PICK kind \in Kind : \A t \in Entries(q.todo) : Fits(kind, t)
  BY <1>1 DEF TodoOK
<1>4. /\ Head(q.todo) \in Entries(q.todo) /\ q.todo \in Seq(Entries(q.todo))
      /\ Entries(q.todo) = {Head(q.todo)} \cup Entries(Tail(q.todo))
      /\ ~Loud(Head(q.todo)) => \A u \in Entries(q.todo) : ~Loud(u)
  BY <1>1, TodoFacts
<1>5. kind = "recording" /\ c \in Contact
  <2>1. Fits(kind, Head(q.todo))
    BY <1>3, <1>4
  <2>2. kind = "recording"
    BY <1>2, <2>1, OpKinds
  <2>3. Head(q.todo).contact \in Contact
    BY <1>2, <1>3, <2>1, TaskTypes
  <2>4. QED
    BY <2>2, <2>3 DEF Contacting
<1>6. \A t \in Entries(q.todo) : Fits("recording", t) /\ ~Loud(t)
  BY <1>2, <1>3, <1>4, <1>5 DEF Loud
<1>7. c.a \in Address /\ Answered(c) \in BOOLEAN
  BY <1>5 DEF Answered, Contact
<1>8. old \in Record \cup {NoRecord}
  BY <1>1, <1>7 DEF Contacting
<1>9. Counting(old, new, Answered(c))
  <2>1. c \in Contact
    BY <1>5
  <2>2. QED
    BY <1>8, <2>1, MergedFacts, Zenon DEF Contacting
<1>10. Merging(records, c.a, old, new, Answered(c), With(records, c.a, new))
  <2>1. DOMAIN records = Address
    BY <1>1
  <2>2. QED
    BY <1>7, <1>9, <2>1, Zenon DEF Contacting, Merging
<1>11. /\ Has(q.todo, {"resume", "scan"}) = FALSE
       /\ \A t \in Entries(q.todo) : ~(t.op = "set" /\ t.key = "index")
  BY <1>3, <1>4, <1>5, KindFacts
<1>12. q.walk.on = FALSE
  BY <1>1, <1>11 DEF WalkOK
<1>13. q.read = <<>>
  BY <1>2, <1>1 DEF ReadOK, Nothing
<1>14. Has(q.todo, {"flush"}) <=> Has(Tail(q.todo), {"flush"})
  BY <1>2, <1>4 DEF Has
<1>15. q.batch.open <=> Has(q.todo, {"flush"})
  <2>1. Has(q.todo, {"contact"})
    BY <1>2, <1>4 DEF Has
  <2>2. QED
    BY <1>1, <2>1 DEF BatchOK
<1>16. QED
  BY <1>5, <1>6, <1>7, <1>8, <1>9, <1>10, <1>11, <1>12, <1>13, <1>14, <1>15

(* A contact of host a is replaced by tasks, or a batch, that list it.     *)
Recorded(q, tasks, a, m) ==
  /\ Head(q.todo).op = "contact" /\ Head(q.todo).contact.a = a
  /\ Entries(q.todo) = {Head(q.todo)} \cup Entries(Tail(q.todo))
  /\ Entries(m.todo) = Entries(tasks) \cup Entries(Tail(q.todo))
  /\ \A t \in Entries(tasks) : \/ t.op = "put" /\ t.a = a /\ t.record # NoRecord
                               \/ t.op = "update" /\ t.key # "attempts"
  /\ Coming(q) \cup {a} \subseteq Coming(m)
  /\ \A t \in Entries(q.todo) : ~(t.op = "set" /\ t.key = "index")
  /\ q.walk.on = FALSE /\ m.walk.on = FALSE

(* After a contact its host is listed, or will be.                         *)
LEMMA ContactLists ==
  ASSUME NEW a, NEW q, NEW tasks, NEW m, Recorded(q, tasks, a, m), ListedInv(q), RulesInv(q)
  PROVE  ListedInv(m) /\ RulesInv(m)
<1>1. /\ Head(q.todo).op = "contact" /\ Head(q.todo).contact.a = a
      /\ Entries(q.todo) = {Head(q.todo)} \cup Entries(Tail(q.todo))
      /\ Entries(m.todo) = Entries(tasks) \cup Entries(Tail(q.todo))
      /\ \A t \in Entries(tasks) : \/ t.op = "put" /\ t.a = a /\ t.record # NoRecord
                                   \/ t.op = "update" /\ t.key # "attempts"
      /\ Coming(q) \cup {a} \subseteq Coming(m)
      /\ \A t \in Entries(q.todo) : ~(t.op = "set" /\ t.key = "index")
      /\ q.walk.on = FALSE /\ m.walk.on = FALSE
  BY DEF Recorded
<1>2. Arriving(m.todo) \subseteq Arriving(q.todo) \cup {a}
  <2>1. \A u \in Entries(m.todo) : u.op = "put" /\ u.record # NoRecord => u.a = a \/ u \in Entries(q.todo)
    BY <1>1
  <2>2. QED
    BY <2>1 DEF Arriving
<1>3. Held \cup Arriving(m.todo) \subseteq Entries(kv.index) \cup Coming(m)
  BY <1>1, <1>2 DEF ListedInv
<1>4. \A t \in Entries(m.todo) : ~(t.op = "set" /\ t.key = "index")
  BY <1>1
<1>5. ListedInv(m)
  BY <1>1, <1>3, <1>4 DEF ListedInv
<1>6. \A x \in rules : x # a
  BY <1>1 DEF RulesInv, Brings
<1>7. ASSUME NEW x \in rules
      PROVE  /\ x \in Held => \E t \in Entries(m.todo) : Removes(t, x)
             /\ x \in kv.attempts => \E t \in Entries(m.todo) : Drops(t, x)
             /\ \A t \in Entries(m.todo) : ~Brings(t, x)
  <2>1. ~Removes(Head(q.todo), x) /\ ~Drops(Head(q.todo), x)
    BY <1>1 DEF Removes, Drops
  <2>2. \A t \in Entries(tasks) : ~Brings(t, x)
    BY <1>1, <1>6, <1>7 DEF Brings
  <2>3. QED
    BY <1>1, <1>7, <2>1, <2>2 DEF RulesInv
<1>8. QED
  BY <1>5, <1>7 DEF RulesInv

(* A contact recorded by itself.                                           *)
LEMMA ContactAloneHolds ==
  ASSUME CorpusInv, NEW p \in Request, RecordExposedHost(p), ~requests[p].batch.open
  PROVE  CorpusInv'
<1>1. PICK q : q = requests[p]
  OBVIOUS
<1>2. p \in Active /\ Head(q.todo).op = "contact" /\ ~q.batch.open
  <2>1. At(p, "contact")
    BY DEF RecordExposedHost
  <2>2. QED
    BY <1>1, <2>1 DEF At, Head1
<1>3. /\ HandlerOK(q) /\ q.todo # <<>> /\ TodoOK(q.todo) /\ kv \in Store /\ events \in Nat
      /\ records \in [Address -> Record \cup {NoRecord}]
      /\ clean \in BOOLEAN
      /\ clean => Balanced(WithBatch(q, After(q.todo, Now)))
      /\ lossless /\ Cardinality(Address) <= MaxIndex => ListedInv(q) /\ RulesInv(q)
  BY <1>1, <1>2, Before
<1>4. PICK c, old, new : Contacting(q, c, old, new)
  BY <1>2, <1>3 DEF Contacting
<1>5. /\ \A t \in Entries(q.todo) : Fits("recording", t) /\ ~Loud(t)
      /\ c.a \in Address /\ Answered(c) \in BOOLEAN 
      /\ Merging(records, c.a, old, new, Answered(c), With(records, c.a, new))
      /\ q.walk.on = FALSE
      /\ \A t \in Entries(q.todo) : ~(t.op = "set" /\ t.key = "index")
      /\ q.batch.open <=> Has(Tail(q.todo), {"flush"})
      /\ Has(q.todo, {"flush"}) <=> Has(Tail(q.todo), {"flush"})
  BY <1>1, <1>2, <1>4, ContactFacts
<1>6. PICK moved \in BOOLEAN : moved <=> (Answered(c) /\ old.marker # new.marker)
  BY <1>5
<1>7. /\ q.todo \in Seq(Entries(q.todo)) /\ Tail(q.todo) \in Seq(Entries(Tail(q.todo)))
      /\ Entries(q.todo) = {Head(q.todo)} \cup Entries(Tail(q.todo))
      /\ \A u \in Entries(Tail(q.todo)) : MayPrecede(Head(q.todo), u)
  BY <1>3, TodoFacts
<1>8. PICK loud, last, tasks : /\ loud = Loudly(moved, c.a, old, new, Answered(c))
                               /\ last = Update("index", <<c.a>>)
                               /\ tasks = loud \o <<last>>
  OBVIOUS
<1>9. Continue(p, tasks) /\ UNCHANGED <<records, kv, overdue, rules, events, clean, lossless>>
  <2>1. PICK first : Leads(first, moved, old, new)
    BY DEF Leads
  <2>2. first \o <<Put(c.a, new, Answered(c)), last>> = tasks
    <3>1. Closes(first, moved, c.a, old, new, Answered(c), last)
      BY <1>6, <2>1, ContactTasks
    <3>2. QED
      BY <1>8, <3>1 DEF Closes
  <2>3. Continue(p, first \o <<Put(c.a, new, Answered(c)), last>>)
    BY <1>1, <1>2, <1>4, <1>6, <1>8, <2>1, Zenon DEF Contacting, Leads, Answered, RecordExposedHost, Head1
  <2>4. QED
    BY <2>2, <2>3 DEF RecordExposedHost
<1>10. /\ loud # <<>> /\ loud \in Seq(Entries(loud)) /\ InOrder(loud) /\ Front(loud)
       /\ \A t \in Entries(loud) : Stores(t, c.a)
  <2>1. /\ moved => new.marker \in Label
        /\ new # NoRecord /\ new \in [label : Label, marker : Label \cup {"none"}]
    BY <1>6, <1>5 DEF Merging, Counting
  <2>2. QED
    BY <1>5, <1>8, <2>1, LoudTasks
<1>11. /\ last.op = "update" /\ last.key = "index" /\ last.change = <<c.a>>
       /\ <<c.a>> \in Index /\ Entries(<<c.a>>) = {c.a}
  BY <1>5, <1>8, OneHost DEF Update
<1>12. /\ Fits("recording", last) /\ ~Loud(last) /\ Plain(last)
       /\ \A u : ~Loud(u) => MayPrecede(last, u)
  <2>1. ~Loud(last) /\ Plain(last)
    BY <1>11 DEF Loud, Plain
  <2>2. Fits("recording", last)
    BY <1>11 DEF Fits, Recording, Change
  <2>3. \A u : ~Loud(u) => MayPrecede(last, u)
    BY <1>11 DEF MayPrecede
  <2>4. QED
    BY <2>1, <2>2, <2>3
<1>13. /\ tasks \in Seq(Entries(tasks)) /\ Entries(tasks) = Entries(loud) \cup {last}
       /\ InOrder(tasks) /\ Front(tasks)
  <2>1. /\ <<last>> \in Seq(Entries(<<last>>)) /\ Entries(<<last>>) = {last} /\ InOrder(<<last>>)
    BY OneTask
  <2>2. tasks \in Seq(Entries(tasks)) /\ Entries(tasks) = Entries(loud) \cup {last}
    <3>1. /\ loud \o <<last>> \in Seq(Entries(loud \o <<last>>))
          /\ Entries(loud \o <<last>>) = Entries(loud) \cup Entries(<<last>>)
      BY <1>10, <2>1, JoinedSeq
    <3>2. QED
      BY <1>8, <2>1, <3>1
  <2>3. \A x \in Entries(loud), y \in Entries(<<last>>) : MayPrecede(x, y)
    BY <1>10 DEF Stores
  <2>4. InOrder(tasks)
    BY <1>8, <1>10, <2>1, <2>3, OrderJoined
  <2>5. \A y \in Entries(<<last>>) : ~Loud(y)
    BY <1>12, <2>1
  <2>6. Front(tasks)
    BY <1>8, <1>10, <2>1, <2>5, FrontJoined
  <2>7. QED
    BY <2>2, <2>4, <2>6
<1>14. /\ \A t \in Entries(tasks) : Fits("recording", t) /\ Plain(t)
       /\ \A t \in Entries(tasks), u \in Entries(Tail(q.todo)) : MayPrecede(t, u)
       /\ \A t \in Entries(tasks) : \/ t.op = "put" /\ t.a = c.a /\ t.record # NoRecord
                                    \/ t.op = "update" /\ t.key # "attempts"
  <2>1. \A t : Recording(t) => Fits("recording", t)
    BY DEF Fits
  <2>2. \A t \in Entries(loud) : /\ Recording(t) /\ Plain(t) /\ \A u : MayPrecede(t, u)
                                 /\ \/ t.op = "put" /\ t.a = c.a /\ t.record # NoRecord
                                    \/ t.op = "update" /\ t.key # "attempts"
    BY <1>10 DEF Stores
  <2>3. \A u \in Entries(Tail(q.todo)) : ~Loud(u)
    BY <1>5, <1>7
  <2>4. QED
    BY <1>11, <1>12, <1>13, <2>1, <2>2, <2>3
<1>15. PICK m : /\ Leaves(q, tasks \o Tail(q.todo), m)
                /\ requests' = [requests EXCEPT ![p] = IF m.todo = <<>> THEN Idle ELSE m]
  BY <1>1, <1>2, <1>9, Goes
<1>16. /\ m.todo = tasks \o Tail(q.todo) /\ m.read = <<>> /\ m.alone = q.alone /\ m.walk = q.walk
       /\ m.batch = q.batch
  BY <1>15 DEF Leaves
<1>17. /\ HandlerOK(m)
       /\ Entries(m.todo) = Entries(tasks) \cup Entries(Tail(q.todo))
       /\ m.todo \in Seq(Entries(m.todo)) /\ \A t \in Entries(m.todo) : Fits("recording", t)
       /\ Has(m.todo, {"flush"}) = Has(q.todo, {"flush"})
  <2>1. Head(q.todo).op \notin {"publish", "resume", "scan", "flush", "screen"} /\ "recording" \in Kind
    BY <1>2 DEF Kind
  <2>2. ~Loud(Head(q.todo)) /\ \A t \in Entries(q.todo) : Fits("recording", t)
    BY <1>5, <1>7
  <2>3. QED
    BY <1>3, <1>13, <1>14, <1>15, <2>1, <2>2, Continued
<1>18. Has(m.todo, {"flush"}) = FALSE /\ Has(q.todo, {"flush"}) = FALSE
  BY <1>2, <1>5, <1>17 DEF Has
<1>19. ASSUME clean PROVE Balanced(WithBatch(m, After(m.todo, Now)))
  <2>1. After(q.todo, Now) = Now
    BY <1>5, AfterQuiet
  <2>2. Balanced(Now)
    BY <1>3, <1>18, <1>19, <2>1 DEF WithBatch
  <2>3. \A u \in Entries(Tail(q.todo)) : ~Loud(u)
    BY <1>5, <1>7
  <2>4. After(m.todo, Now) = After(tasks, Now)
    <3>1. After(tasks \o Tail(q.todo), Now) = After(tasks, Now)
      BY <1>7, <1>13, <2>3, AfterQuietTail
    <3>2. QED
      BY <1>16, <3>1
  <2>5. After(tasks, Now) = After(loud, Now)
    <3>1. <<last>> \in Seq(Entries(<<last>>)) /\ \A u \in Entries(<<last>>) : ~Loud(u)
      BY <1>12, OneTask
    <3>2. After(loud \o <<last>>, Now) = After(loud, Now)
      BY <1>10, <3>1, AfterQuietTail
    <3>3. QED
      BY <1>8, <3>2
  <2>6. /\ Counts(Now) /\ Now.records = records /\ Now.geo \in [Label -> Nat] /\ Now.corpus \in Nat
    BY <1>3 DEF Counts, Now, Store
  <2>7. Balanced(After(loud, Now))
    BY <1>6, <1>5, <1>8, <2>2, <2>6, ContactCounts
  <2>8. QED
    BY <1>18, <2>4, <2>5, <2>7 DEF WithBatch
<1>20. RecountOf(m)
  <2>1. "recording" \in Kind
    BY DEF Kind
  <2>2. QED
    BY <1>17, <2>1, KindFacts
<1>21. Coming(q) \cup {c.a} \subseteq Coming(m)
  <2>1. Coming(q) = (UNION {Entries(t.change) : t \in {u \in Entries(q.todo) : u.op = "update" /\ u.key = "index"}})
    BY <1>18 DEF Coming
  <2>2. Coming(m) = (UNION {Entries(t.change) : t \in {u \in Entries(m.todo) : u.op = "update" /\ u.key = "index"}})
    BY <1>18 DEF Coming
  <2>3. \A u \in Entries(q.todo) : u.op = "update" => u \in Entries(m.todo)
    BY <1>2, <1>7, <1>17
  <2>4. last \in Entries(m.todo)
    BY <1>13, <1>17
  <2>5. Coming(q) \subseteq Coming(m)
    BY <2>1, <2>2, <2>3
  <2>6. c.a \in Coming(m)
    BY <1>11, <2>2, <2>4
  <2>7. QED
    BY <2>5, <2>6
<1>22. lossless /\ Cardinality(Address) <= MaxIndex => ListedInv(m) /\ RulesInv(m)
  <2>1. Head(q.todo).contact.a = c.a /\ m.walk.on = FALSE
    <3>1. Head(q.todo).contact = c
      BY <1>4 DEF Contacting
    <3>2. q.walk.on = FALSE
      BY <1>5
    <3>3. m.walk.on = FALSE
      BY <1>16, <3>2
    <3>4. QED
      BY <3>1, <3>3
  <2>2. Recorded(q, tasks, c.a, m)
    BY <1>2, <1>5, <1>7, <1>14, <1>17, <1>21, <2>1 DEF Recorded
  <2>3. QED
    BY <1>3, <2>2, ContactLists
<1>23. QED
  BY <1>1, <1>2, <1>3, <1>9, <1>15, <1>16, <1>17, <1>19, <1>20, <1>22, StoresStay DEF Nothing

(* A step that also replaces the batch or the walk of the request.         *)
Becomes(q, todo, batch, walk, m) ==
  /\ DOMAIN m = DOMAIN q /\ m.todo = todo /\ m.read = <<>>
  /\ m.batch = batch /\ m.walk = walk /\ m.alone = q.alone

(* What a contact adds to the batch that is open.                          *)
Batched(b, a, old, new, answered, moved, B) ==
  B = [open |-> TRUE,
       geo |-> IF moved THEN Rekeyed(b.geo, old, new) ELSE b.geo,
       rekeyed |-> b.rekeyed \/ moved,
       corpus |-> b.corpus + (IF answered /\ ~Counted(old) THEN 1 ELSE 0),
       adds |-> Add(b.adds, a),
       hits |-> b.hits + 1]

Shifted(b, old, new, answered, moved, B) ==
  /\ \A l \in Label :
       B.geo[l] = IF moved THEN b.geo[l] + (IF l = new.marker THEN 1 ELSE 0)
                                         - (IF l = old.marker THEN 1 ELSE 0)
                  ELSE b.geo[l]
  /\ B.corpus = b.corpus + (IF answered /\ ~Counted(old) THEN 1 ELSE 0)

Grown(b, a, B) ==
  /\ B \in Batch /\ B.open = TRUE /\ B.hits # 0 /\ Entries(B.adds) = Entries(b.adds) \cup {a}
  /\ (~b.rekeyed => b.geo = NoDelta) => (~B.rekeyed => B.geo = NoDelta)

(* The batch after a contact, field by field.                              *)
LEMMA BatchedFacts ==
  ASSUME NEW b \in Batch, NEW a \in Address, NEW old, NEW new, NEW answered,
         NEW moved \in BOOLEAN, NEW B, Batched(b, a, old, new, answered, moved, B)
  PROVE  Grown(b, a, B) /\ Shifted(b, old, new, answered, moved, B)
<1>1. /\ b.geo \in [Label -> Int] /\ b.corpus \in Int /\ b.adds \in Index /\ b.hits \in Nat
      /\ b.rekeyed \in BOOLEAN
  BY DEF Batch
<1>2. PICK geo : geo = IF moved THEN Rekeyed(b.geo, old, new) ELSE b.geo
  OBVIOUS
<1>3. PICK corpus : corpus = b.corpus + (IF answered /\ ~Counted(old) THEN 1 ELSE 0)
  OBVIOUS
<1>4. PICK adds : adds = Add(b.adds, a)
  OBVIOUS
<1>5. PICK rekeyed \in BOOLEAN :
        /\ rekeyed <=> b.rekeyed \/ moved
        /\ B = [open |-> TRUE, geo |-> geo, rekeyed |-> rekeyed, corpus |-> corpus,
                adds |-> adds, hits |-> b.hits + 1]
  <2>1. PICK rekeyed : rekeyed = (b.rekeyed \/ moved)
    OBVIOUS
  <2>2. B = [open |-> TRUE, geo |-> geo, rekeyed |-> rekeyed, corpus |-> corpus,
             adds |-> adds, hits |-> b.hits + 1]
    BY <1>2, <1>3, <1>4, <2>1 DEF Batched
  <2>3. QED
    BY <1>1, <2>1, <2>2
<1>6. /\ geo \in [Label -> Int]
      /\ \A l \in Label :
              geo[l] = IF moved THEN b.geo[l] + (IF l = new.marker THEN 1 ELSE 0)
                                              - (IF l = old.marker THEN 1 ELSE 0)
                       ELSE b.geo[l]
  <2>1. CASE moved
    <3>1. geo = [l \in Label |-> b.geo[l] + (IF l = new.marker THEN 1 ELSE 0)
                                          - (IF l = old.marker THEN 1 ELSE 0)]
      BY <1>2, <2>1 DEF Rekeyed
    <3>2. QED
      BY <1>1, <2>1, <3>1
  <2>2. CASE ~moved
    BY <1>1, <1>2, <2>2
  <2>3. QED
    BY <2>1, <2>2
<1>7. corpus \in Int
  BY <1>1, <1>3
<1>8. adds \in Index /\ Entries(adds) = Entries(b.adds) \cup {a}
  BY <1>1, <1>4, AddedHost
<1>9. B \in Batch /\ B.open = TRUE /\ B.hits # 0
  BY <1>1, <1>5, <1>6, <1>7, <1>8 DEF Batch
<1>10. B.geo = geo /\ B.corpus = corpus /\ B.adds = adds /\ B.rekeyed = rekeyed
  BY <1>5
<1>11. Shifted(b, old, new, answered, moved, B)
  BY <1>3, <1>6, <1>10 DEF Shifted
<1>12. (~b.rekeyed => b.geo = NoDelta) => (~B.rekeyed => B.geo = NoDelta)
  BY <1>1, <1>2, <1>5, <1>10
<1>13. QED
  BY <1>8, <1>9, <1>10, <1>11, <1>12 DEF Grown

(* Counts with what the batch owes them.                                   *)
LEMMA WithBatchFields ==
  ASSUME NEW q, Has(q.todo, {"flush"}), NEW s, Counts(s)
  PROVE  /\ WithBatch(q, s).geo = [l \in Label |-> s.geo[l] + q.batch.geo[l]]
         /\ WithBatch(q, s).corpus = s.corpus + q.batch.corpus
         /\ WithBatch(q, s).records = s.records
BY DEF WithBatch, Counts

(* With the record as it will be, the batch balances as it did before.     *)
LEMMA BatchedBalance ==
  ASSUME NEW R, NEW a, NEW old, NEW new, NEW answered, NEW R2,
         Merging(R, a, old, new, answered, R2),
         NEW moved \in BOOLEAN, moved <=> (answered /\ old.marker # new.marker),
         NEW q, NEW m, Has(q.todo, {"flush"}), Has(m.todo, {"flush"}),
         q.batch \in Batch, Batched(q.batch, a, old, new, answered, moved, m.batch),
         NEW s, Counts(s), s.records = R, s.geo \in [Label -> Nat], s.corpus \in Nat,
         Balanced(WithBatch(q, s)), NEW seen
  PROVE  Balanced(WithBatch(m, Applied(Put(a, new, seen), s)))
<1>1. PICK t : t = Put(a, new, seen)
  OBVIOUS
<1>2. PICK x : x = Applied(t, s)
  OBVIOUS
<1>3. t.op = "put" /\ t.a = a /\ t.record = new
  BY <1>1 DEF Put
<1>4. x.records = With(R, a, new) /\ x.geo = s.geo /\ x.corpus = s.corpus
  BY <1>2, <1>3, AppliedFields
<1>5. Counts(x)
  BY <1>2, AppliedCounts
<1>6. R2 = With(R, a, new) /\ a \in Address
  BY DEF Merging
<1>7. /\ \A l \in Label :
           m.batch.geo[l] = IF moved THEN q.batch.geo[l] + (IF l = new.marker THEN 1 ELSE 0)
                                                         - (IF l = old.marker THEN 1 ELSE 0)
                            ELSE q.batch.geo[l]
      /\ m.batch.corpus = q.batch.corpus + (IF answered /\ ~Counted(old) THEN 1 ELSE 0)
  <2>1. Shifted(q.batch, old, new, answered, moved, m.batch)
    BY <1>6, BatchedFacts
  <2>2. QED
    BY <2>1 DEF Shifted
<1>8. /\ \A l \in Label :
           Marked(R2, l) = IF moved THEN Marked(R, l) + (IF l = new.marker THEN 1 ELSE 0)
                                                      - (IF l = old.marker THEN 1 ELSE 0)
                           ELSE Marked(R, l)
      /\ Marks(R2) = Marks(R) + (IF answered /\ ~Counted(old) THEN 1 ELSE 0)
  BY ContactMarks
<1>9. /\ \A l \in Label : s.geo[l] + q.batch.geo[l] = Marked(R, l)
      /\ s.corpus + q.batch.corpus = Marks(R)
  <2>1. PICK y : y = WithBatch(q, s)
    OBVIOUS
  <2>2. y.geo = [l \in Label |-> Marked(y.records, l)] /\ y.corpus = Marks(y.records)
    BY <2>1, BalancedMarks
  <2>3. /\ y.geo = [l \in Label |-> s.geo[l] + q.batch.geo[l]]
        /\ y.corpus = s.corpus + q.batch.corpus /\ y.records = R
    BY <2>1, WithBatchFields
  <2>4. \A l \in Label : y.geo[l] = Marked(R, l)
    BY <2>2, <2>3
  <2>5. \A l \in Label : y.geo[l] = s.geo[l] + q.batch.geo[l]
    BY <2>3
  <2>6. QED
    BY <2>2, <2>3, <2>4, <2>5
<1>10. PICK z : z = WithBatch(m, x)
  OBVIOUS
<1>11. /\ z.geo = [l \in Label |-> s.geo[l] + m.batch.geo[l]]
       /\ z.corpus = s.corpus + m.batch.corpus /\ z.records = R2
  BY <1>4, <1>5, <1>6, <1>10, WithBatchFields
<1>12. /\ q.batch.corpus \in Int /\ s.corpus \in Int
       /\ \A l \in Label : q.batch.geo[l] \in Int /\ s.geo[l] \in Int
  BY DEF Batch
<1>13. \A l \in Label : s.geo[l] + m.batch.geo[l] = Marked(R2, l)
  BY <1>7, <1>8, <1>9, <1>12
<1>14. s.corpus + m.batch.corpus = Marks(R2)
  BY <1>7, <1>8, <1>9, <1>12
<1>15. Balanced(z)
  BY <1>11, <1>13, <1>14, BalancedMarks
<1>16. QED
  BY <1>1, <1>2, <1>10, <1>15

(* A contact recorded into a batch.                                        *)
LEMMA ContactBatchedHolds ==
  ASSUME CorpusInv, NEW p \in Request, RecordExposedHost(p), requests[p].batch.open
  PROVE  CorpusInv'
<1>1. PICK q : q = requests[p]
  OBVIOUS
<1>2. p \in Active /\ Head(q.todo).op = "contact" /\ q.batch.open
  <2>1. At(p, "contact")
    BY DEF RecordExposedHost
  <2>2. QED
    BY <1>1, <2>1 DEF At, Head1
<1>3. /\ HandlerOK(q) /\ q.todo # <<>> /\ TodoOK(q.todo) /\ kv \in Store /\ events \in Nat
      /\ BatchOK(q) /\ WalkOK(q) /\ q.alone \in BOOLEAN
      /\ records \in [Address -> Record \cup {NoRecord}]
      /\ clean \in BOOLEAN
      /\ clean => Balanced(WithBatch(q, After(q.todo, Now)))
      /\ lossless /\ Cardinality(Address) <= MaxIndex => ListedInv(q) /\ RulesInv(q)
  BY <1>1, <1>2, Before
<1>4. PICK c, old, new : Contacting(q, c, old, new)
  BY <1>2, <1>3 DEF Contacting
<1>5. /\ \A t \in Entries(q.todo) : Fits("recording", t) /\ ~Loud(t)
      /\ c.a \in Address /\ Answered(c) \in BOOLEAN
      /\ Merging(records, c.a, old, new, Answered(c), With(records, c.a, new))
      /\ q.walk.on = FALSE
      /\ \A t \in Entries(q.todo) : ~(t.op = "set" /\ t.key = "index")
      /\ Has(Tail(q.todo), {"flush"}) /\ Has(q.todo, {"flush"}) /\ q.read = <<>>
  BY <1>1, <1>2, <1>4, ContactFacts
<1>6. PICK moved \in BOOLEAN : moved <=> (Answered(c) /\ old.marker # new.marker)
  BY <1>5
<1>7. /\ q.todo \in Seq(Entries(q.todo)) /\ Tail(q.todo) \in Seq(Entries(Tail(q.todo)))
      /\ Entries(q.todo) = {Head(q.todo)} \cup Entries(Tail(q.todo))
  BY <1>3, TodoFacts
<1>8. PICK put, todo : put = Put(c.a, new, Answered(c)) /\ todo = <<put>> \o Tail(q.todo)
  OBVIOUS
<1>9. /\ put.op = "put" /\ put.a = c.a /\ put.record = new /\ put.seen = Answered(c)
      /\ new \in [label : Label, marker : Label \cup {"none"}] /\ new # NoRecord
  BY <1>5, <1>8 DEF Put, Merging, Counting
<1>10. Fits("recording", put) /\ Loud(put) /\ \A u : MayPrecede(put, u)
  <2>1. Recording(put)
    BY <1>5, <1>9 DEF Recording
  <2>2. QED
    BY <1>9, <2>1 DEF Fits, Loud, MayPrecede
<1>11. /\ <<put>> \in Seq(Entries(<<put>>)) /\ Entries(<<put>>) = {put}
       /\ InOrder(<<put>>) /\ Front(<<put>>)
  <2>1. Front(<<put>>)
    BY Written DEF Front
  <2>2. QED
    BY <2>1, OneTask
<1>12. /\ TodoOK(todo) /\ Entries(todo) = {put} \cup Entries(Tail(q.todo))
       /\ \A t \in Entries(todo) : Fits("recording", t)
       /\ todo \in Seq(Entries(todo)) /\ todo # <<>> /\ Head(todo) = put
  <2>1. "recording" \in Kind /\ Head(q.todo).op # "publish" /\ ~Loud(Head(q.todo))
    BY <1>2 DEF Kind, Loud
  <2>2. /\ \A t \in Entries(<<put>>) : Fits("recording", t) /\ t.op # "publish"
        /\ \A t \in Entries(<<put>>), u \in Entries(Tail(q.todo)) : MayPrecede(t, u)
    BY <1>9, <1>10, <1>11
  <2>3. /\ TodoOK(<<put>> \o Tail(q.todo))
        /\ Entries(<<put>> \o Tail(q.todo)) = Entries(<<put>>) \cup Entries(Tail(q.todo))
        /\ \A t \in Entries(<<put>> \o Tail(q.todo)) : Fits("recording", t)
    BY <1>3, <1>5, <1>11, <2>1, <2>2, NewTodo
  <2>4. <<put>> \o Tail(q.todo) # <<>> /\ Head(<<put>> \o Tail(q.todo)) = put
    BY <1>7, <1>11, JoinedHead, Written
  <2>5. QED
    BY <1>8, <1>11, <2>3, <2>4 DEF TodoOK
<1>13. PICK B : Batched(q.batch, c.a, old, new, Answered(c), moved, B)
  BY DEF Batched
<1>14. PICK m : /\ Becomes(q, todo, B, q.walk, m)
                /\ requests' = [requests EXCEPT ![p] = IF m.todo = <<>> THEN Idle ELSE m]
  <2>1. PICK m : m = [q EXCEPT !.todo = todo, !.batch = B]
    OBVIOUS
  <2>2. Becomes(q, todo, B, q.walk, m)
    BY <1>3, <1>5, <2>1 DEF HandlerOK, Becomes
  <2>3. m.todo # <<>>
    BY <1>12, <2>2 DEF Becomes
  <2>4. requests' = [requests EXCEPT ![p] = m]
    <3>1. DOMAIN requests = Request
      BY DEF CorpusInv, TypeOK
    <3>2. requests' = [requests EXCEPT ![p].todo = todo, ![p].batch = B]
      <4>1. requests[p].batch.open
        OBVIOUS
      <4>2. QED
        BY <1>1, <1>4, <1>6, <1>8, <1>13, <4>1, Zenon
        DEF Batched, Contacting, Answered, RecordExposedHost, Head1, Rest
    <3>3. QED
      BY <1>1, <2>1, <3>1, <3>2, Zenon
  <2>5. QED
    BY <2>2, <2>3, <2>4
<1>15. /\ m.todo = todo /\ m.read = <<>> /\ m.alone = q.alone /\ m.walk = q.walk /\ m.batch = B
       /\ DOMAIN m = DOMAIN q
  BY <1>14 DEF Becomes
<1>16. /\ B \in Batch /\ B.open = TRUE /\ B.hits # 0
       /\ Entries(B.adds) = Entries(q.batch.adds) \cup {c.a}
       /\ ~B.rekeyed => B.geo = NoDelta
  <2>1. q.batch \in Batch
    BY <1>3 DEF BatchOK
  <2>2. c.a \in Address /\ moved \in BOOLEAN
    BY <1>5, <1>6
  <2>3. Grown(q.batch, c.a, B)
    BY <1>13, <2>1, <2>2, BatchedFacts
  <2>4. ~q.batch.rekeyed => q.batch.geo = NoDelta
    BY <1>3 DEF BatchOK
  <2>5. QED
    BY <2>3, <2>4 DEF Grown
<1>17. Has(m.todo, {"flush"})
  BY <1>5, <1>12, <1>15 DEF Has
<1>18. HandlerOK(m)
  <2>1. ~Has(m.todo, {"screen"})
    <3>1. \A u \in Entries(Tail(q.todo)) : u.op # "screen"
      <4>1. ASSUME NEW u \in Entries(Tail(q.todo)), u.op = "screen" PROVE FALSE
        <5>1. PICK i \in DOMAIN Tail(q.todo), j \in DOMAIN Tail(q.todo) :
                Tail(q.todo)[i].op = "flush" /\ Tail(q.todo)[j].op = "screen"
          BY <1>5, <4>1 DEF Has, Entries
        <5>2. i \in Nat /\ j \in Nat
          BY <1>7, InSeq
        <5>3. i < j \/ j < i
          BY <5>1, <5>2
        <5>4. InOrder(Tail(q.todo))
          BY <1>3, TodoFacts
        <5>5. QED
          BY <5>1, <5>3, <5>4 DEF InOrder, MayPrecede
      <4>2. QED
        BY <4>1
    <3>2. QED
      BY <1>9, <1>12, <1>15, <3>1 DEF Has
  <2>2. BatchOK(m)
    BY <1>15, <1>16, <1>17, <2>1 DEF BatchOK
  <2>3. ReadOK(m)
    BY <1>15 DEF ReadOK, Nothing
  <2>4. WalkOK(m)
    <3>1. Has(m.todo, {"resume", "scan"}) = FALSE
      <4>1. "recording" \in Kind
        BY DEF Kind
      <4>2. QED
        BY <1>12, <1>15, <4>1, KindFacts
    <3>2. QED
      BY <1>3, <1>5, <1>15, <3>1 DEF WalkOK
  <2>5. QED
    BY <1>3, <1>12, <1>15, <2>2, <2>3, <2>4 DEF HandlerOK
<1>19. ASSUME clean PROVE Balanced(WithBatch(m, After(m.todo, Now)))
  <2>1. After(q.todo, Now) = Now
    BY <1>5, AfterQuiet
  <2>2. Balanced(WithBatch(q, Now))
    BY <1>3, <1>19, <2>1
  <2>3. \A u \in Entries(Tail(q.todo)) : ~Loud(u)
    BY <1>5, <1>7
  <2>4. After(<<put>> \o Tail(q.todo), Now) = After(<<put>>, Now)
    BY <1>7, <1>11, <2>3, AfterQuietTail
  <2>5. After(<<put>>, Now) = Applied(put, Now)
    BY AfterShort
  <2>6. After(m.todo, Now) = Applied(Put(c.a, new, Answered(c)), Now)
    BY <1>8, <1>15, <2>4, <2>5
  <2>7. /\ Counts(Now) /\ Now.records = records /\ Now.geo \in [Label -> Nat] /\ Now.corpus \in Nat
    BY <1>3 DEF Counts, Now, Store
  <2>8. q.batch \in Batch /\ Batched(q.batch, c.a, old, new, Answered(c), moved, m.batch)
    BY <1>3, <1>13, <1>15 DEF BatchOK
  <2>9. Balanced(WithBatch(m, Applied(Put(c.a, new, Answered(c)), Now)))
    BY <1>5, <1>6, <1>17, <2>2, <2>7, <2>8, BatchedBalance
  <2>10. QED
    BY <2>6, <2>9
<1>20. RecountOf(m)
  <2>1. "recording" \in Kind /\ "recording" # "recounting"
    BY DEF Kind
  <2>2. QED
    BY <1>12, <1>15, <2>1, KindFacts
<1>21. Coming(q) \cup {c.a} \subseteq Coming(m)
  <2>1. Coming(q) = (UNION {Entries(t.change) : t \in {u \in Entries(q.todo) : u.op = "update" /\ u.key = "index"}})
                    \cup Entries(q.batch.adds)
    BY <1>5 DEF Coming
  <2>2. Coming(m) = (UNION {Entries(t.change) : t \in {u \in Entries(m.todo) : u.op = "update" /\ u.key = "index"}})
                    \cup Entries(m.batch.adds)
    BY <1>17 DEF Coming
  <2>3. \A u \in Entries(q.todo) : u.op = "update" => u \in Entries(m.todo)
    BY <1>2, <1>7, <1>12, <1>15
  <2>4. Entries(q.batch.adds) \cup {c.a} = Entries(m.batch.adds)
    BY <1>15, <1>16
  <2>5. Coming(q) \subseteq Coming(m)
    BY <2>1, <2>2, <2>3, <2>4
  <2>6. Entries(m.batch.adds) \subseteq Coming(m)
    BY <2>2
  <2>7. QED
    BY <2>4, <2>5, <2>6
<1>22. lossless /\ Cardinality(Address) <= MaxIndex => ListedInv(m) /\ RulesInv(m)
  <2>1. Head(q.todo).contact.a = c.a
    BY <1>4 DEF Contacting
  <2>2. m.walk.on = FALSE
    BY <1>5, <1>15
  <2>3. PICK tasks :
           /\ Entries(m.todo) = Entries(tasks) \cup Entries(Tail(q.todo))
           /\ \A t \in Entries(tasks) : \/ t.op = "put" /\ t.a = c.a /\ t.record # NoRecord
                                        \/ t.op = "update" /\ t.key # "attempts"
    BY <1>9, <1>11, <1>12, <1>15
  <2>4. Recorded(q, tasks, c.a, m)
    BY <1>2, <1>5, <1>7, <1>21, <2>1, <2>2, <2>3 DEF Recorded
  <2>5. QED
    BY <1>3, <2>4, ContactLists
<1>23. UNCHANGED <<records, kv, overdue, rules, events, clean, lossless>>
  BY DEF RecordExposedHost
<1>24. QED
  BY <1>1, <1>2, <1>3, <1>14, <1>15, <1>18, <1>19, <1>20, <1>22, <1>23, StoresStay DEF Nothing

(* A contact is recorded, into the batch that is open or by itself.        *)
LEMMA RecordExposedHostHolds ==
  ASSUME CorpusInv, NEW p \in Request, RecordExposedHost(p) PROVE CorpusInv'
BY ContactAloneHolds, ContactBatchedHolds

-----------------------------------------------------------------------------
(* A batch is written out: what it owes the counts is paid, and no count   *)
(* is clamped, for what comes out is a number of hosts.                    *)
Owing(s, g, n) ==
  /\ Counts(s) /\ s.geo \in [Label -> Nat] /\ s.corpus \in Nat
  /\ g \in [Label -> Int] /\ n \in Int
  /\ \A l \in Label : Marked(s.records, l) \in Nat /\ s.geo[l] + g[l] = Marked(s.records, l)
  /\ Marks(s.records) \in Nat /\ s.corpus + n = Marks(s.records)

(* Numbers of hosts are natural numbers.                                   *)
LEMMA MarksType ==
  ASSUME NEW R
  PROVE  /\ \A l : Marked(R, l) \in Nat
         /\ Marks(R) \in Nat
<1>1. \A l : {b \in Address : R[b].marker = l} \in SUBSET Address
  OBVIOUS
<1>2. {b \in Address : Counted(R[b])} \in SUBSET Address
  OBVIOUS
<1>3. QED
  BY <1>1, <1>2, Finite DEF Marked, Marks

(* Before a batch is written its changes are what the counts lack.         *)
LEMMA OwingAtFirst ==
  ASSUME NEW q, Has(q.todo, {"flush"}), q.batch \in Batch,
         NEW s, Counts(s), s.geo \in [Label -> Nat], s.corpus \in Nat, Balanced(WithBatch(q, s))
  PROVE  Owing(s, q.batch.geo, q.batch.corpus)
<1>1. PICK y : y = WithBatch(q, s)
  OBVIOUS
<1>2. y.geo = [l \in Label |-> Marked(y.records, l)] /\ y.corpus = Marks(y.records)
  BY <1>1, BalancedMarks
<1>3. /\ y.geo = [l \in Label |-> s.geo[l] + q.batch.geo[l]]
      /\ y.corpus = s.corpus + q.batch.corpus /\ y.records = s.records
  BY <1>1, WithBatchFields
<1>4. \A l \in Label : y.geo[l] = Marked(s.records, l)
  BY <1>2, <1>3
<1>5. \A l \in Label : y.geo[l] = s.geo[l] + q.batch.geo[l]
  BY <1>3
<1>6. q.batch.geo \in [Label -> Int] /\ q.batch.corpus \in Int
  BY DEF Batch
<1>7. QED
  BY <1>2, <1>3, <1>4, <1>5, <1>6, MarksType DEF Owing

(* Writing the changes by label leaves the total to pay.                   *)
LEMMA GeoPaid ==
  ASSUME NEW s, NEW g, NEW n, Owing(s, g, n), NEW x, x = Applied(Update("geo", g), s)
  PROVE  Owing(x, NoDelta, n)
<1>1. PICK t : t = Update("geo", g)
  OBVIOUS
<1>2. t.op = "update" /\ t.key = "geo" /\ t.change = g
  BY <1>1 DEF Update
<1>3. Counts(s)
  BY DEF Owing
<1>4. x.geo = Changed("geo", s.geo, g) /\ x.records = s.records /\ x.corpus = s.corpus
  BY <1>1, <1>2, <1>3, AppliedFields
<1>5. Counts(x)
  BY <1>1, <1>3, AppliedCounts
<1>6. x.geo = [l \in Label |-> Clamp(s.geo[l] + g[l])]
  BY <1>4 DEF Changed
<1>7. \A l \in Label : Clamp(s.geo[l] + g[l]) = Marked(s.records, l)
  <2>1. \A k \in Nat : Clamp(k) = k
    BY DEF Clamp
  <2>2. QED
    BY <2>1 DEF Owing
<1>8. \A l \in Label : x.geo[l] = Marked(s.records, l) /\ Marked(s.records, l) \in Nat
  BY <1>6, <1>7 DEF Owing
<1>9. x.geo \in [Label -> Nat]
  BY <1>6, <1>8
<1>10. \A l \in Label : x.geo[l] + NoDelta[l] = Marked(x.records, l)
  BY <1>4, <1>8, NoDeltaType
<1>11. QED
  BY <1>4, <1>5, <1>8, <1>9, <1>10, NoDeltaType DEF Owing

(* Writing the change of the total leaves the labels to pay.               *)
LEMMA CorpusPaid ==
  ASSUME NEW s, NEW g, NEW n, Owing(s, g, n), NEW x, x = Applied(Update("corpus", n), s)
  PROVE  Owing(x, g, 0)
<1>1. PICK t : t = Update("corpus", n)
  OBVIOUS
<1>2. t.op = "update" /\ t.key = "corpus" /\ t.change = n
  BY <1>1 DEF Update
<1>3. Counts(s)
  BY DEF Owing
<1>4. x.corpus = Changed("corpus", s.corpus, n) /\ x.records = s.records /\ x.geo = s.geo
  BY <1>1, <1>2, <1>3, AppliedFields
<1>5. Counts(x)
  BY <1>1, <1>3, AppliedCounts
<1>6. x.corpus = Clamp(s.corpus + n)
  BY <1>4 DEF Changed
<1>7. Clamp(s.corpus + n) = Marks(s.records)
  <2>1. \A k \in Nat : Clamp(k) = k
    BY DEF Clamp
  <2>2. QED
    BY <2>1 DEF Owing
<1>8. QED
  BY <1>4, <1>5, <1>6, <1>7 DEF Owing

(* Counts that lack nothing agree with the records.                        *)
LEMMA AllPaid ==
  ASSUME NEW s, Owing(s, NoDelta, 0)
  PROVE  Balanced(s)
<1>1. s.geo = [l \in Label |-> s.geo[l]]
  BY DEF Owing
<1>2. \A l \in Label : s.geo[l] \in Nat /\ s.geo[l] + NoDelta[l] = Marked(s.records, l)
  BY DEF Owing
<1>3. \A l \in Label : s.geo[l] = Marked(s.records, l)
  BY <1>2, NoDeltaType
<1>4. s.corpus = Marks(s.records)
  BY DEF Owing
<1>5. QED
  BY <1>1, <1>3, <1>4, BalancedMarks

(* The counts are paid first, if there is anything to pay.                 *)
Pays(first, b) ==
  first = (IF b.rekeyed THEN <<Update("geo", b.geo)>> ELSE <<>>)
          \o (IF b.hits > 0 THEN <<Update("corpus", b.corpus)>> ELSE <<>>)

Paying(t) ==
  /\ t.op = "update" /\ t.key \in {"geo", "corpus"} /\ Change(t)
  /\ \A u : MayPrecede(t, u)

(* The writes of a batch leave counts that agree.                          *)
LEMMA FlushCounts ==
  ASSUME NEW b \in Batch, b.hits = 0 => b.corpus = 0, ~b.rekeyed => b.geo = NoDelta,
         NEW first, Pays(first, b)
  PROVE  /\ first \in Seq(Entries(first)) /\ InOrder(first) /\ Front(first)
         /\ \A t \in Entries(first) : Paying(t)
         /\ \A s : Owing(s, b.geo, b.corpus) => Balanced(After(first, s))
<1>1. b.geo \in [Label -> Int] /\ b.corpus \in Int /\ b.hits \in Nat
  BY DEF Batch
<1>2. PICK geo, corpus : geo = Update("geo", b.geo) /\ corpus = Update("corpus", b.corpus)
  OBVIOUS
<1>3. Paying(geo) /\ Paying(corpus)
  <2>1. /\ geo.op = "update" /\ geo.key = "geo" /\ geo.change = b.geo
        /\ corpus.op = "update" /\ corpus.key = "corpus" /\ corpus.change = b.corpus
    BY <1>2 DEF Update
  <2>2. QED
    BY <1>1, <2>1 DEF Paying, Change, MayPrecede, Loud
<1>4. ASSUME NEW s, Owing(s, b.geo, b.corpus)
      PROVE  /\ Owing(Applied(geo, s), NoDelta, b.corpus)
             /\ Owing(Applied(corpus, Applied(geo, s)), NoDelta, 0)
             /\ Owing(Applied(corpus, s), b.geo, 0)
  <2>1. Owing(Applied(geo, s), NoDelta, b.corpus)
    BY <1>2, <1>4, GeoPaid
  <2>2. QED
    BY <1>2, <1>4, <2>1, CorpusPaid
<1>5. CASE b.rekeyed /\ b.hits > 0
  <2>1. first = <<geo, corpus>>
    BY <1>2, <1>5, TwoJoined DEF Pays
  <2>2. /\ <<geo, corpus>> \in Seq(Entries(<<geo, corpus>>)) /\ Entries(<<geo, corpus>>) = {geo, corpus}
        /\ DOMAIN <<geo, corpus>> \subseteq {1, 2, 3}
    BY Written
  <2>3. \A t, u \in Entries(<<geo, corpus>>) : MayPrecede(t, u)
    BY <1>3, <2>2 DEF Paying
  <2>4. InOrder(<<geo, corpus>>) /\ Front(<<geo, corpus>>)
    BY <2>2, <2>3, Ordered
  <2>5. \A s : Owing(s, b.geo, b.corpus) => Balanced(After(<<geo, corpus>>, s))
    BY <1>4, AfterShort, AllPaid
  <2>6. QED
    BY <1>3, <2>1, <2>2, <2>4, <2>5
<1>6. CASE b.rekeyed /\ ~(b.hits > 0)
  <2>1. first = <<geo>>
    <3>1. first = <<geo>> \o <<>>
      BY <1>2, <1>6 DEF Pays
    <3>2. QED
      BY <3>1, NoTasks, Written
  <2>2. /\ <<geo>> \in Seq(Entries(<<geo>>)) /\ Entries(<<geo>>) = {geo}
        /\ DOMAIN <<geo>> \subseteq {1, 2, 3}
    BY Written
  <2>3. \A t, u \in Entries(<<geo>>) : MayPrecede(t, u)
    BY <1>3, <2>2 DEF Paying
  <2>4. InOrder(<<geo>>) /\ Front(<<geo>>)
    BY <2>2, <2>3, Ordered
  <2>5. \A s : Owing(s, b.geo, b.corpus) => Balanced(After(<<geo>>, s))
    <3>1. b.corpus = 0
      BY <1>1, <1>6
    <3>2. QED
      BY <1>4, <3>1, AfterShort, AllPaid
  <2>6. QED
    BY <1>3, <2>1, <2>2, <2>4, <2>5
<1>7. CASE ~b.rekeyed /\ b.hits > 0
  <2>1. first = <<corpus>>
    <3>1. first = <<>> \o <<corpus>>
      BY <1>2, <1>7 DEF Pays
    <3>2. QED
      BY <3>1, NoTasks, Written
  <2>2. /\ <<corpus>> \in Seq(Entries(<<corpus>>)) /\ Entries(<<corpus>>) = {corpus}
        /\ DOMAIN <<corpus>> \subseteq {1, 2, 3}
    BY Written
  <2>3. \A t, u \in Entries(<<corpus>>) : MayPrecede(t, u)
    BY <1>3, <2>2 DEF Paying
  <2>4. InOrder(<<corpus>>) /\ Front(<<corpus>>)
    BY <2>2, <2>3, Ordered
  <2>5. \A s : Owing(s, b.geo, b.corpus) => Balanced(After(<<corpus>>, s))
    BY <1>4, <1>7, AfterShort, AllPaid
  <2>6. QED
    BY <1>3, <2>1, <2>2, <2>4, <2>5
<1>8. CASE ~b.rekeyed /\ ~(b.hits > 0)
  <2>1. first = <<>>
    <3>1. first = <<>> \o <<>>
      BY <1>8 DEF Pays
    <3>2. QED
      BY <3>1, NoTasks, Written
  <2>2. /\ <<>> \in Seq(Entries(<<>>)) /\ Entries(<<>>) = {} /\ InOrder(<<>>) /\ Front(<<>>)
    BY Written, NothingLeft
  <2>3. \A s : Owing(s, b.geo, b.corpus) => Balanced(After(<<>>, s))
    <3>1. b.corpus = 0
      BY <1>1, <1>8
    <3>2. QED
      BY <1>8, <3>1, AfterShort, AllPaid
  <2>4. QED
    BY <2>1, <2>2, <2>3
<1>9. QED
  BY <1>5, <1>6, <1>7, <1>8

(* flushWriteBatch pays what its batch owes and lists its hosts.           *)
LEMMA FlushWriteBatchHolds ==
  ASSUME CorpusInv, NEW p \in Request, FlushWriteBatch(p) PROVE CorpusInv'
<1>1. PICK q : q = requests[p]
  OBVIOUS
<1>2. p \in Active /\ Head(q.todo).op = "flush"
  <2>1. At(p, "flush")
    BY DEF FlushWriteBatch
  <2>2. QED
    BY <1>1, <2>1 DEF At, Head1
<1>3. /\ HandlerOK(q) /\ q.todo # <<>> /\ TodoOK(q.todo) /\ kv \in Store /\ events \in Nat
      /\ BatchOK(q) /\ WalkOK(q) /\ q.alone \in BOOLEAN
      /\ clean \in BOOLEAN
      /\ clean => Balanced(WithBatch(q, After(q.todo, Now)))
      /\ lossless /\ Cardinality(Address) <= MaxIndex => ListedInv(q) /\ RulesInv(q)
  BY <1>1, <1>2, Before
<1>4. PICK kind \in Kind : \A t \in Entries(q.todo) : Fits(kind, t)
  BY <1>3 DEF TodoOK
<1>5. /\ Head(q.todo) \in Entries(q.todo) /\ q.todo \in Seq(Entries(q.todo))
      /\ Tail(q.todo) = <<>> /\ Entries(q.todo) = {Head(q.todo)}
  BY <1>2, <1>3, TodoFacts, LastTask
<1>6. kind = "recording"
  <2>1. Fits(kind, Head(q.todo))
    BY <1>4, <1>5
  <2>2. QED
    BY <1>2, <1>4, <2>1, OpKinds
<1>7. /\ Has(q.todo, {"flush"}) /\ q.batch \in Batch /\ (q.batch.hits = 0 => q.batch.corpus = 0)
      /\ (~q.batch.rekeyed => q.batch.geo = NoDelta)
      /\ q.walk.on = FALSE
  <2>1. Has(q.todo, {"flush"})
    BY <1>2, <1>5 DEF Has
  <2>2. Has(q.todo, {"resume", "scan"}) = FALSE
    BY <1>4, <1>5, <1>6, KindFacts
  <2>3. QED
    BY <1>3, <2>1, <2>2 DEF BatchOK, WalkOK
<1>8. PICK first : Pays(first, q.batch)
  BY DEF Pays
<1>9. PICK listing : listing = IF q.batch.adds # <<>> THEN <<Update("index", q.batch.adds)>> ELSE <<>>
  OBVIOUS
<1>10. PICK tasks : tasks = first \o listing
  OBVIOUS
<1>11. Continue(p, tasks)
  BY <1>1, <1>8, <1>9, <1>10 DEF Pays, FlushWriteBatch
<1>12. /\ first \in Seq(Entries(first)) /\ InOrder(first) /\ Front(first)
       /\ \A t \in Entries(first) : Paying(t)
       /\ \A s : Owing(s, q.batch.geo, q.batch.corpus) => Balanced(After(first, s))
  BY <1>7, <1>8, FlushCounts
<1>13. PICK last : last.op = "update" /\ last.key = "index" /\ last.change = q.batch.adds
                   /\ last = Update("index", q.batch.adds)
  BY DEF Update
<1>14. /\ listing \in Seq(Entries(listing)) /\ InOrder(listing)
       /\ Entries(listing) = IF q.batch.adds # <<>> THEN {last} ELSE {}
  BY <1>9, <1>13, OneTask
<1>15. q.batch.adds \in Index /\ ~Loud(last) /\ Fits("recording", last)
  <2>1. q.batch.adds \in Index
    BY <1>7 DEF Batch
  <2>2. QED
    BY <1>13, <2>1 DEF Loud, Fits, Recording, Change
<1>16. /\ tasks \in Seq(Entries(tasks)) /\ Entries(tasks) = Entries(first) \cup Entries(listing)
       /\ InOrder(tasks) /\ Front(tasks)
  <2>1. tasks \in Seq(Entries(tasks)) /\ Entries(tasks) = Entries(first) \cup Entries(listing)
    BY <1>10, <1>12, <1>14, JoinedSeq
  <2>2. \A x \in Entries(first), y \in Entries(listing) : MayPrecede(x, y)
    BY <1>12 DEF Paying
  <2>3. InOrder(tasks)
    BY <1>10, <1>12, <1>14, <2>2, OrderJoined
  <2>4. \A y \in Entries(listing) : ~Loud(y)
    BY <1>14, <1>15
  <2>5. Front(tasks)
    BY <1>10, <1>12, <1>14, <2>4, FrontJoined
  <2>6. QED
    BY <2>1, <2>3, <2>5
<1>17. \A t \in Entries(tasks) :
          /\ Fits("recording", t) /\ t.op = "update" /\ t.key # "attempts"
  <2>1. \A t : Paying(t) => Fits("recording", t) /\ t.op = "update" /\ t.key # "attempts"
    BY DEF Paying, Fits, Recording
  <2>2. \A t \in Entries(listing) : Fits("recording", t) /\ t.op = "update" /\ t.key # "attempts"
    BY <1>13, <1>14, <1>15
  <2>3. QED
    BY <1>12, <1>16, <2>1, <2>2
<1>18. PICK m : /\ Leaves(q, tasks \o Tail(q.todo), m)
                /\ requests' = [requests EXCEPT ![p] = IF m.todo = <<>> THEN Idle ELSE m]
  BY <1>1, <1>2, <1>11, Goes
<1>19. /\ m.todo = tasks /\ m.read = <<>> /\ m.alone = q.alone /\ m.walk = q.walk
       /\ m.batch = q.batch /\ DOMAIN m = DOMAIN q
  <2>1. tasks \o Tail(q.todo) = tasks
    BY <1>5, <1>16, NoTasks
  <2>2. QED
    BY <1>18, <2>1 DEF Leaves
<1>20. HandlerOK(m)
  <2>1. TodoOK(m.todo)
    <3>1. \A t \in Entries(tasks) : Fits(kind, t) /\ t.op # "publish"
      BY <1>6, <1>17
    <3>2. \A t \in Entries(tasks), u \in Entries(Tail(q.todo)) : MayPrecede(t, u)
      BY <1>5, Written
    <3>3. Head(q.todo).op # "publish" /\ ~Loud(Head(q.todo))
      BY <1>2 DEF Loud
    <3>4. TodoOK(tasks \o Tail(q.todo))
      BY <1>3, <1>4, <1>16, <3>1, <3>2, <3>3, NewTodo
    <3>5. tasks \o Tail(q.todo) = tasks
      BY <1>5, <1>16, NoTasks
    <3>6. QED
      BY <1>19, <3>4, <3>5
  <2>2. /\ ~Has(m.todo, {"flush"}) /\ ~Has(m.todo, {"screen"}) /\ ~Has(m.todo, {"contact"})
        /\ ~Has(m.todo, {"resume", "scan"})
    BY <1>17, <1>19 DEF Has
  <2>3. BatchOK(m)
    BY <1>7, <1>19, <2>2 DEF BatchOK
  <2>4. WalkOK(m)
    <3>1. Has(m.todo, {"resume", "scan"}) = FALSE
      BY <2>2 DEF Has
    <3>2. QED
      BY <1>3, <1>7, <1>19, <3>1 DEF WalkOK
  <2>5. ReadOK(m)
    BY <1>19 DEF ReadOK, Nothing
  <2>6. QED
    BY <1>3, <1>19, <2>1, <2>3, <2>4, <2>5 DEF HandlerOK
<1>21. ~Has(m.todo, {"flush"})
  BY <1>17, <1>19 DEF Has
<1>22. ASSUME clean PROVE Balanced(WithBatch(m, After(m.todo, Now)))
  <2>1. \A t \in Entries(q.todo) : ~Loud(t)
    BY <1>2, <1>5 DEF Loud
  <2>2. After(q.todo, Now) = Now
    BY <2>1, AfterQuiet
  <2>3. Balanced(WithBatch(q, Now))
    BY <1>3, <1>22, <2>2
  <2>4. /\ Counts(Now) /\ Now.geo \in [Label -> Nat] /\ Now.corpus \in Nat
    BY <1>3 DEF Counts, Now, Store
  <2>5. Owing(Now, q.batch.geo, q.batch.corpus)
    BY <1>7, <2>3, <2>4, OwingAtFirst
  <2>6. Balanced(After(first, Now))
    BY <1>12, <2>5
  <2>7. After(tasks, Now) = After(first, Now)
    <3>1. \A y \in Entries(listing) : ~Loud(y)
      BY <1>14, <1>15
    <3>2. QED
      BY <1>10, <1>12, <1>14, <3>1, AfterQuietTail
  <2>8. QED
    BY <1>19, <1>21, <2>6, <2>7 DEF WithBatch
<1>23. RecountOf(m)
  <2>1. \A t \in Entries(m.todo) : Fits(kind, t)
    BY <1>6, <1>17, <1>19
  <2>2. QED
    BY <1>6, <1>16, <1>19, <2>1, KindFacts
<1>24. ASSUME ListedInv(q), RulesInv(q) PROVE ListedInv(m) /\ RulesInv(m)
  <2>1. Arriving(m.todo) = {}
    BY <1>17, <1>19 DEF Arriving
  <2>2. Coming(q) \subseteq Coming(m)
    <3>1. Coming(q) = Entries(q.batch.adds)
      BY <1>2, <1>5, <1>7 DEF Coming
    <3>2. CASE q.batch.adds = <<>>
      BY <3>1, <3>2, Written
    <3>3. CASE q.batch.adds # <<>>
      <4>1. last \in Entries(m.todo)
        BY <1>14, <1>16, <1>19, <3>3
      <4>2. last \in {u \in Entries(m.todo) : u.op = "update" /\ u.key = "index"}
        BY <1>13, <4>1
      <4>3. Entries(last.change) \subseteq
              (UNION {Entries(t.change) : t \in {u \in Entries(m.todo) : u.op = "update" /\ u.key = "index"}})
        BY <4>2
      <4>4. QED
        BY <1>13, <3>1, <4>3 DEF Coming
    <3>4. QED
      BY <3>2, <3>3
  <2>3. \A t \in Entries(m.todo) : ~(t.op = "set" /\ t.key = "index")
    BY <1>17, <1>19
  <2>4. ListedInv(m)
    BY <1>7, <1>19, <1>24, <2>1, <2>2, <2>3 DEF ListedInv
  <2>5. \A a : ~Removes(Head(q.todo), a) /\ ~Drops(Head(q.todo), a)
    BY <1>2 DEF Removes, Drops
  <2>6. \A t \in Entries(m.todo) : \A a : ~Brings(t, a)
    BY <1>17, <1>19 DEF Brings
  <2>7. RulesInv(m)
    BY <1>5, <1>24, <2>5, <2>6 DEF RulesInv
  <2>8. QED
    BY <2>4, <2>7
<1>25. lossless /\ Cardinality(Address) <= MaxIndex => ListedInv(m) /\ RulesInv(m)
  BY <1>3, <1>24
<1>26. UNCHANGED <<records, kv, overdue, rules, events, clean, lossless>>
  BY DEF FlushWriteBatch
<1>27. m.todo # <<>> /\ m.read # Nothing => m.read[1] = kv[Head(m.todo).key]
  BY <1>19 DEF Nothing
<1>28. QED
  BY <1>1, <1>2, <1>3, <1>18, <1>19, <1>20, <1>22, <1>23, <1>25, <1>26, <1>27, StoresStay

-----------------------------------------------------------------------------
(* A batch is screened: what the rules leave of it is noted, recorded      *)
(* host by host and flushed.                                               *)
Screened(given, tasks) ==
  LET results == Picked(given, {i \in DOMAIN given :
                                  given[i].a \notin rules /\ given[i].label \notin rules})
  IN  tasks = (IF results = <<>> THEN <<>>
               ELSE <<Attempted({c.a : c \in Entries(results)})>>)
              \o [i \in DOMAIN results |-> Touch(results[i])] \o <<Do("flush")>>

Screening(t) ==
  \/ /\ t.op = "update" /\ t.key = "attempts" /\ t.change \in [add : SUBSET Address, drop : SUBSET Address]
     /\ t.change.add \cap rules = {}
  \/ t.op = "contact" /\ t.contact \in Contact /\ t.contact.a \notin rules
  \/ t.op = "flush"

(* The tasks of a screened batch are in order and of their kind.           *)
LEMMA ScreenTasks ==
  ASSUME NEW given \in Seq(Contact), NEW tasks, Screened(given, tasks)
  PROVE  /\ tasks \in Seq(Entries(tasks)) /\ InOrder(tasks)
         /\ \A t \in Entries(tasks) : Screening(t)
         /\ \E t \in Entries(tasks) : t.op = "flush"
<1>1. PICK places : places = {i \in DOMAIN given :
                           given[i].a \notin rules /\ given[i].label \notin rules}
  OBVIOUS
<1>2. PICK results : results = Picked(given, places)
  OBVIOUS
<1>3. results \in Seq(Contact) /\ Entries(results) = {given[i] : i \in places}
  <2>1. places \in SUBSET DOMAIN given
    BY <1>1
  <2>2. QED
    BY <1>2, <2>1, PickedFacts
<1>4. \A c \in Entries(results) : c \in Contact /\ c.a \notin rules
  <2>1. \A i \in places : given[i].a \notin rules
    BY <1>1
  <2>2. Entries(results) \subseteq Contact
    BY <1>3, OwnSeq
  <2>3. QED
    BY <1>3, <2>1, <2>2
<1>5. PICK noted, touched, note : /\ note = Attempted({c.a : c \in Entries(results)})
                                  /\ noted = IF results = <<>> THEN <<>> ELSE <<note>>
                                  /\ touched = [i \in DOMAIN results |-> Touch(results[i])]
  OBVIOUS
<1>6. PICK flush : flush = Do("flush")
  OBVIOUS
<1>7. tasks = noted \o touched \o <<flush>>
  BY <1>1, <1>2, <1>5, <1>6 DEF Screened
<1>8. /\ noted \in Seq(Entries(noted)) /\ InOrder(noted) /\ Entries(noted) \subseteq {note}
      /\ <<flush>> \in Seq(Entries(<<flush>>)) /\ InOrder(<<flush>>) /\ Entries(<<flush>>) = {flush}
  BY <1>5, OneTask
<1>9. touched \in Seq(Entries(touched)) /\ Entries(touched) = {Touch(c) : c \in Entries(results)}
  <2>1. Len(results) \in Nat /\ DOMAIN results = 1..Len(results)
    BY <1>3
  <2>2. touched \in Seq({Touch(c) : c \in Entries(results)})
    <3>1. touched \in [1..Len(results) -> {Touch(c) : c \in Entries(results)}]
      BY <1>5, <2>1 DEF Entries
    <3>2. QED
      BY <2>1, <3>1, SeqDef
  <2>3. Entries(touched) = {Touch(c) : c \in Entries(results)}
    BY <1>5 DEF Entries
  <2>4. QED
    BY <2>2, <2>3, OwnSeq
<1>10. Screening(note) /\ ~Loud(note) /\ \A u : ~Loud(u) => MayPrecede(note, u)
  <2>1. PICK hosts : hosts = {c.a : c \in Entries(results)}
    OBVIOUS
  <2>2. hosts \in SUBSET Address /\ hosts \cap rules = {}
    BY <1>4, <2>1 DEF Contact
  <2>3. /\ note.op = "update" /\ note.key = "attempts"
        /\ note.change = [add |-> hosts, drop |-> {}]
    BY <1>5, <2>1 DEF Attempted, Update
  <2>4. /\ note.change \in [add : SUBSET Address, drop : SUBSET Address]
        /\ note.change.add = hosts
    BY <2>2, <2>3
  <2>5. QED
    BY <2>2, <2>3, <2>4 DEF Screening, Loud, MayPrecede
<1>11. \A t \in Entries(touched) : /\ Screening(t) /\ ~Loud(t)
                                   /\ \A u : ~Loud(u) => MayPrecede(t, u)
  <2>1. \A c : Touch(c).op = "contact" /\ Touch(c).contact = c
    BY DEF Touch
  <2>2. \A t \in Entries(touched) : /\ t.op = "contact" /\ t.contact \in Contact
                                    /\ t.contact.a \notin rules
    BY <1>4, <1>9, <2>1
  <2>3. QED
    BY <2>2 DEF Screening, Loud, MayPrecede
<1>12. Screening(flush) /\ ~Loud(flush) /\ flush.op = "flush"
  BY <1>6 DEF Do, Screening, Loud
<1>13. InOrder(touched)
  BY <1>11 DEF InOrder, Entries
<1>14. /\ noted \o touched \in Seq(Entries(noted \o touched))
       /\ Entries(noted \o touched) = Entries(noted) \cup Entries(touched)
       /\ InOrder(noted \o touched)
  <2>1. \A t \in Entries(noted), u \in Entries(touched) : MayPrecede(t, u)
    BY <1>8, <1>10, <1>11
  <2>2. QED
    BY <1>8, <1>9, <1>13, <2>1, JoinedSeq, OrderJoined
<1>15. /\ tasks \in Seq(Entries(tasks))
       /\ Entries(tasks) = Entries(noted \o touched) \cup Entries(<<flush>>)
       /\ InOrder(tasks)
  <2>1. \A t \in Entries(noted \o touched), u \in Entries(<<flush>>) : MayPrecede(t, u)
    BY <1>8, <1>10, <1>11, <1>12, <1>14
  <2>2. QED
    BY <1>7, <1>8, <1>14, <2>1, JoinedSeq, OrderJoined
<1>16. QED
  BY <1>8, <1>10, <1>11, <1>12, <1>14, <1>15

(* A batch of results is screened against the rules.                       *)
LEMMA ScreenHolds ==
  ASSUME CorpusInv, NEW p \in Request, Screen(p) PROVE CorpusInv'
<1>1. PICK q : q = requests[p]
  OBVIOUS
<1>2. p \in Active /\ Head(q.todo).op = "screen"
  <2>1. At(p, "screen")
    BY DEF Screen
  <2>2. QED
    BY <1>1, <2>1 DEF At, Head1
<1>3. /\ HandlerOK(q) /\ q.todo # <<>> /\ TodoOK(q.todo) /\ kv \in Store /\ events \in Nat
      /\ BatchOK(q) /\ WalkOK(q) /\ q.alone \in BOOLEAN
      /\ clean \in BOOLEAN
      /\ clean => Balanced(WithBatch(q, After(q.todo, Now)))
      /\ lossless /\ Cardinality(Address) <= MaxIndex => ListedInv(q) /\ RulesInv(q)
  BY <1>1, <1>2, Before
<1>4. PICK kind \in Kind : \A t \in Entries(q.todo) : Fits(kind, t)
  BY <1>3 DEF TodoOK
<1>5. /\ Head(q.todo) \in Entries(q.todo) /\ q.todo \in Seq(Entries(q.todo))
      /\ Tail(q.todo) = <<>> /\ Entries(q.todo) = {Head(q.todo)}
  BY <1>2, <1>3, TodoFacts, LastTask
<1>6. kind = "recording" /\ Head(q.todo).batch \in Seq(Contact)
  <2>1. Fits(kind, Head(q.todo))
    BY <1>4, <1>5
  <2>2. kind = "recording"
    BY <1>2, <1>4, <2>1, OpKinds
  <2>3. Head(q.todo).batch \in Seq(Contact)
    BY <1>2, <1>4, <2>1, TaskTypes
  <2>4. QED
    BY <2>2, <2>3
<1>7. ~Has(q.todo, {"flush"}) /\ q.batch = OpenBatch /\ q.batch \in Batch /\ q.walk.on = FALSE
  <2>1. Has(q.todo, {"screen"}) /\ ~Has(q.todo, {"flush"})
    BY <1>2, <1>5 DEF Has
  <2>2. Has(q.todo, {"resume", "scan"}) = FALSE
    BY <1>4, <1>5, <1>6, KindFacts
  <2>3. QED
    BY <1>3, <2>1, <2>2 DEF BatchOK, WalkOK
<1>8. PICK tasks : Screened(Head(q.todo).batch, tasks)
  BY Zenon DEF Screened
<1>9. Continue(p, tasks)
  BY <1>1, <1>8, Zenon DEF Screened, Screen, Head1
<1>10. /\ tasks \in Seq(Entries(tasks)) /\ InOrder(tasks)
       /\ \A t \in Entries(tasks) : Screening(t)
       /\ \E t \in Entries(tasks) : t.op = "flush"
  BY <1>6, <1>8, ScreenTasks
<1>11. \A t \in Entries(tasks) : /\ Fits("recording", t) /\ ~Loud(t)
                                 /\ t.op \in {"update", "contact", "flush"}
  BY <1>10 DEF Screening, Fits, Recording, Change, Loud
<1>12. PICK m : /\ Leaves(q, tasks \o Tail(q.todo), m)
                /\ requests' = [requests EXCEPT ![p] = IF m.todo = <<>> THEN Idle ELSE m]
  BY <1>1, <1>2, <1>9, Goes
<1>13. /\ m.todo = tasks /\ m.read = <<>> /\ m.alone = q.alone /\ m.walk = q.walk
       /\ m.batch = q.batch /\ DOMAIN m = DOMAIN q
  <2>1. tasks \o Tail(q.todo) = tasks
    BY <1>5, <1>10, NoTasks
  <2>2. QED
    BY <1>12, <2>1 DEF Leaves
<1>14. Has(m.todo, {"flush"})
  BY <1>10, <1>13 DEF Has
<1>15. OpenBatch.open = TRUE /\ OpenBatch.geo = NoDelta /\ OpenBatch.corpus = 0 /\ OpenBatch.hits = 0
  BY DEF OpenBatch, NoBatch
<1>16. HandlerOK(m)
  <2>1. TodoOK(m.todo)
    <3>1. \A t \in Entries(tasks) : Fits(kind, t) /\ t.op # "publish"
      BY <1>6, <1>11
    <3>2. \A t \in Entries(tasks), u \in Entries(Tail(q.todo)) : MayPrecede(t, u)
      BY <1>5, Written
    <3>3. Head(q.todo).op # "publish" /\ ~Loud(Head(q.todo)) /\ Front(tasks)
      BY <1>2, <1>11 DEF Loud, Front, Entries
    <3>4. TodoOK(tasks \o Tail(q.todo))
      BY <1>3, <1>4, <1>10, <3>1, <3>2, <3>3, NewTodo
    <3>5. tasks \o Tail(q.todo) = tasks
      BY <1>5, <1>10, NoTasks
    <3>6. QED
      BY <1>13, <3>4, <3>5
  <2>2. ~Has(m.todo, {"screen"}) /\ ~Has(m.todo, {"resume", "scan"})
    BY <1>11, <1>13 DEF Has
  <2>3. BatchOK(m)
    BY <1>7, <1>13, <1>14, <1>15, <2>2 DEF BatchOK
  <2>4. WalkOK(m)
    <3>1. Has(m.todo, {"resume", "scan"}) = FALSE
      BY <2>2 DEF Has
    <3>2. QED
      BY <1>3, <1>7, <1>13, <3>1 DEF WalkOK
  <2>5. ReadOK(m)
    BY <1>13 DEF ReadOK, Nothing
  <2>6. QED
    BY <1>3, <1>13, <2>1, <2>3, <2>4, <2>5 DEF HandlerOK
<1>17. ASSUME clean PROVE Balanced(WithBatch(m, After(m.todo, Now)))
  <2>1. After(q.todo, Now) = Now /\ After(m.todo, Now) = Now
    BY <1>2, <1>5, <1>11, <1>13, AfterQuiet DEF Loud
  <2>2. Balanced(Now)
    BY <1>3, <1>7, <1>17, <2>1 DEF WithBatch
  <2>3. Counts(Now) /\ Now.geo \in [Label -> Nat] /\ Now.corpus \in Nat
    BY <1>3 DEF Counts, Now, Store
  <2>4. PICK y : y = WithBatch(m, Now)
    OBVIOUS
  <2>5. /\ y.geo = [l \in Label |-> Now.geo[l] + NoDelta[l]] /\ y.corpus = Now.corpus + 0
        /\ y.records = Now.records
    BY <1>7, <1>13, <1>14, <1>15, <2>3, <2>4, WithBatchFields
  <2>6. \A l \in Label : Now.geo[l] + NoDelta[l] = Now.geo[l]
    BY <2>3, NoDeltaType
  <2>7. y.geo = Now.geo /\ y.corpus = Now.corpus
    <3>1. Now.geo = [l \in Label |-> Now.geo[l]]
      BY <2>3
    <3>2. y.geo = [l \in Label |-> Now.geo[l]]
      BY <2>5, <2>6
    <3>3. QED
      BY <2>3, <2>5, <3>1, <3>2
  <2>8. Balanced(y)
    BY <2>2, <2>5, <2>7, BalancedMarks
  <2>9. QED
    BY <2>1, <2>4, <2>8
<1>18. RecountOf(m)
  <2>1. \A t \in Entries(m.todo) : Fits(kind, t)
    BY <1>6, <1>11, <1>13
  <2>2. QED
    BY <1>6, <1>10, <1>13, <2>1, KindFacts
<1>19. ASSUME ListedInv(q), RulesInv(q) PROVE ListedInv(m) /\ RulesInv(m)
  <2>1. Arriving(m.todo) = {}
    BY <1>11, <1>13 DEF Arriving
  <2>2. Coming(q) = {}
    BY <1>2, <1>5, <1>7 DEF Coming
  <2>3. \A t \in Entries(m.todo) : ~(t.op = "set" /\ t.key = "index")
    BY <1>11, <1>13
  <2>4. ListedInv(m)
    BY <1>7, <1>13, <1>19, <2>1, <2>2, <2>3 DEF ListedInv
  <2>5. \A a : ~Removes(Head(q.todo), a) /\ ~Drops(Head(q.todo), a)
    BY <1>2 DEF Removes, Drops
  <2>6. \A t \in Entries(m.todo), a \in rules : ~Brings(t, a)
    BY <1>10, <1>13 DEF Screening, Brings
  <2>7. RulesInv(m)
    BY <1>5, <1>19, <2>5, <2>6 DEF RulesInv
  <2>8. QED
    BY <2>4, <2>7
<1>20. lossless /\ Cardinality(Address) <= MaxIndex => ListedInv(m) /\ RulesInv(m)
  BY <1>3, <1>19
<1>21. UNCHANGED <<records, kv, overdue, rules, events, clean, lossless>>
  BY DEF Screen
<1>22. m.todo # <<>> /\ m.read # Nothing => m.read[1] = kv[Head(m.todo).key]
  BY <1>13 DEF Nothing
<1>23. QED
  BY <1>1, <1>2, <1>3, <1>12, <1>13, <1>16, <1>17, <1>18, <1>20, <1>21, <1>22, StoresStay

-----------------------------------------------------------------------------
(* The sweep.  Between two hosts of its walk a sweep has nothing left but  *)
(* the walk and the recount of the cron.                                   *)
LEMMA SweepFacts ==
  ASSUME CorpusInv, NEW p \in Active, NEW q, q = requests[p],
         Head(q.todo).op \in {"sweep", "resume", "scan"}
  PROVE  /\ HandlerOK(q) /\ TodoOK(q.todo) /\ q.todo # <<>> /\ WalkOK(q) /\ kv \in Store
         /\ \A t \in Entries(q.todo) : Fits("sweeping", t) /\ ~Loud(t)
         /\ Entries(q.todo) = {Head(q.todo)} \cup Entries(Tail(q.todo))
         /\ Tail(q.todo) \in Seq(Entries(Tail(q.todo)))
         /\ \A u \in Entries(Tail(q.todo)) : u.op = "recount"
         /\ q.read = <<>> /\ q.batch \in Batch /\ (q.batch.hits = 0 => q.batch.corpus = 0)
         /\ (~q.batch.rekeyed => q.batch.geo = NoDelta)
         /\ clean \in BOOLEAN /\ events \in Nat /\ records \in [Address -> Record \cup {NoRecord}]
         /\ clean => Balanced(Now)
         /\ Leaving(q.todo) = {}
         /\ lossless /\ Cardinality(Address) <= MaxIndex =>
              /\ ListedInv(q) /\ Held \subseteq Entries(kv.index)
              /\ (Held \cup kv.attempts) \cap rules = {}
<1>1. /\ HandlerOK(q) /\ TodoOK(q.todo) /\ q.todo # <<>> /\ WalkOK(q) /\ kv \in Store
      /\ ReadOK(q) /\ BatchOK(q)
      /\ clean \in BOOLEAN /\ events \in Nat /\ records \in [Address -> Record \cup {NoRecord}]
      /\ clean => Balanced(WithBatch(q, After(q.todo, Now)))
      /\ lossless /\ Cardinality(Address) <= MaxIndex => ListedInv(q) /\ RulesInv(q)
  BY Before
<1>2. PICK kind \in Kind : \A t \in Entries(q.todo) : Fits(kind, t)
  BY <1>1 DEF TodoOK
<1>3. /\ Head(q.todo) \in Entries(q.todo) /\ q.todo \in Seq(Entries(q.todo))
      /\ Entries(q.todo) = {Head(q.todo)} \cup Entries(Tail(q.todo))
      /\ Tail(q.todo) \in Seq(Entries(Tail(q.todo)))
      /\ \A u \in Entries(Tail(q.todo)) : MayPrecede(Head(q.todo), u)
      /\ ~Loud(Head(q.todo)) => \A u \in Entries(q.todo) : ~Loud(u)
  BY <1>1, TodoFacts
<1>4. kind = "sweeping"
  <2>1. Fits(kind, Head(q.todo))
    BY <1>2, <1>3
  <2>2. QED
    BY <1>2, <2>1, OpKinds
<1>5. \A t \in Entries(q.todo) : Fits("sweeping", t) /\ ~Loud(t)
  <2>1. ~Loud(Head(q.todo))
    BY DEF Loud
  <2>2. QED
    BY <1>2, <1>3, <1>4, <2>1
<1>6. \A u \in Entries(Tail(q.todo)) : u.op = "recount"
  BY <1>3 DEF MayPrecede
<1>7. q.read = <<>>
  BY <1>1 DEF ReadOK, Nothing
<1>8. /\ q.batch \in Batch /\ (q.batch.hits = 0 => q.batch.corpus = 0)
      /\ (~q.batch.rekeyed => q.batch.geo = NoDelta)
  BY <1>1 DEF BatchOK
<1>9. /\ Coming(q) = {} /\ Arriving(q.todo) = {} /\ Has(q.todo, {"flush"}) = FALSE
  BY <1>2, <1>3, <1>4, KindFacts
<1>10. clean => Balanced(Now)
  <2>1. After(q.todo, Now) = Now
    BY <1>5, AfterQuiet
  <2>2. QED
    BY <1>1, <1>9, <2>1 DEF WithBatch
<1>11. \A t \in Entries(q.todo) : t.op \in {"sweep", "resume", "scan", "recount"}
  BY <1>3, <1>6
<1>12. Leaving(q.todo) = {}
  BY <1>11 DEF Leaving
<1>13. ASSUME ListedInv(q), RulesInv(q)
       PROVE  Held \subseteq Entries(kv.index) /\ (Held \cup kv.attempts) \cap rules = {}
  <2>1. Held \subseteq Entries(kv.index)
    BY <1>9, <1>13 DEF ListedInv
  <2>2. \A t \in Entries(q.todo) : \A a : ~Removes(t, a) /\ ~Drops(t, a)
    BY <1>11 DEF Removes, Drops
  <2>3. \A a \in rules : a \notin Held /\ a \notin kv.attempts
    BY <1>13, <2>2 DEF RulesInv
  <2>4. QED
    BY <2>1, <2>3
<1>14. QED
  BY <1>1, <1>3, <1>5, <1>6, <1>7, <1>8, <1>10, <1>12, <1>13

(* A step of a sweep keeps the invariant if the lists still agree.         *)
LEMMA SweepStep ==
  ASSUME CorpusInv, NEW p \in Active, NEW q, q = requests[p],
         Head(q.todo).op \in {"sweep", "resume", "scan"},
         NEW tasks, tasks \in Seq(Entries(tasks)), InOrder(tasks), Front(tasks),
         \A t \in Entries(tasks) : Fits("sweeping", t),
         \A t \in Entries(tasks) : \A u : u.op = "recount" => MayPrecede(t, u),
         NEW walk, NEW m, Becomes(q, tasks \o Tail(q.todo), q.batch, walk, m),
         requests' = [requests EXCEPT ![p] = IF m.todo = <<>> THEN Idle ELSE m],
         UNCHANGED <<records, kv, overdue, rules, events, clean, lossless>>,
         Entries(m.todo) = Entries(tasks) \cup Entries(Tail(q.todo)) => WalkOK(m),
         clean => Balanced(After(m.todo, Now)),
         Entries(m.todo) = Entries(tasks) \cup Entries(Tail(q.todo)) =>
           (lossless /\ Cardinality(Address) <= MaxIndex => ListedInv(m))
  PROVE  CorpusInv'
<1>1. /\ HandlerOK(q) /\ TodoOK(q.todo) /\ q.todo # <<>>
      /\ \A t \in Entries(q.todo) : Fits("sweeping", t) /\ ~Loud(t)
      /\ \A u \in Entries(Tail(q.todo)) : u.op = "recount"
      /\ q.batch \in Batch /\ (q.batch.hits = 0 => q.batch.corpus = 0)
      /\ (~q.batch.rekeyed => q.batch.geo = NoDelta)
      /\ clean \in BOOLEAN /\ events \in Nat
      /\ lossless /\ Cardinality(Address) <= MaxIndex => (Held \cup kv.attempts) \cap rules = {}
  BY SweepFacts
<1>2. /\ m.todo = tasks \o Tail(q.todo) /\ m.read = <<>> /\ m.alone = q.alone
      /\ m.batch = q.batch /\ DOMAIN m = DOMAIN q
  BY DEF Becomes
<1>3. /\ TodoOK(m.todo) /\ Entries(m.todo) = Entries(tasks) \cup Entries(Tail(q.todo))
      /\ \A t \in Entries(m.todo) : Fits("sweeping", t)
  <2>1. "sweeping" \in Kind /\ Head(q.todo).op # "publish" /\ ~Loud(Head(q.todo))
    BY DEF Kind, Loud
  <2>2. \A t \in Entries(tasks) : Fits("sweeping", t) /\ t.op # "publish"
    BY <2>1, OpKinds
  <2>3. \A t \in Entries(tasks), u \in Entries(Tail(q.todo)) : MayPrecede(t, u)
    BY <1>1
  <2>4. \A t \in Entries(q.todo) : Fits("sweeping", t)
    BY <1>1
  <2>5. /\ TodoOK(tasks \o Tail(q.todo))
        /\ Entries(tasks \o Tail(q.todo)) = Entries(tasks) \cup Entries(Tail(q.todo))
        /\ \A t \in Entries(tasks \o Tail(q.todo)) : Fits("sweeping", t)
    BY <1>1, <2>1, <2>2, <2>3, <2>4, NewTodo
  <2>6. QED
    BY <1>2, <2>5
<1>4. /\ Has(m.todo, {"flush"}) = FALSE /\ Has(m.todo, {"screen"}) = FALSE
      /\ Has(m.todo, {"contact"}) = FALSE /\ RecountOf(m)
      /\ \A t \in Entries(m.todo) : \A a : ~Brings(t, a)
  <2>1. "sweeping" \in Kind /\ m.todo \in Seq(Entries(m.todo))
    BY <1>3 DEF Kind, TodoOK
  <2>2. QED
    BY <1>3, <2>1, KindFacts
<1>5. HandlerOK(m)
  <2>1. BatchOK(m)
    BY <1>1, <1>2, <1>4 DEF BatchOK
  <2>2. ReadOK(m)
    BY <1>2 DEF ReadOK, Nothing
  <2>3. WalkOK(m)
    BY <1>3
  <2>4. QED
    BY <1>1, <1>2, <1>3, <2>1, <2>2, <2>3 DEF HandlerOK
<1>6. lossless /\ Cardinality(Address) <= MaxIndex => RulesInv(m)
  BY <1>1, <1>4 DEF RulesInv
<1>7. clean => Balanced(WithBatch(m, After(m.todo, Now)))
  BY <1>4 DEF WithBatch
<1>8. m.todo # <<>> /\ m.read # Nothing => m.read[1] = kv[Head(m.todo).key]
  BY <1>2 DEF Nothing
<1>9. lossless /\ Cardinality(Address) <= MaxIndex => ListedInv(m) /\ RulesInv(m)
  BY <1>3, <1>6
<1>10. QED
  BY <1>1, <1>2, <1>4, <1>5, <1>7, <1>8, <1>9, StoresStay

(* A sweep reads the cursor.                                               *)
LEMMA SweepStartHolds ==
  ASSUME CorpusInv, NEW p \in Request, SweepStart(p) PROVE CorpusInv'
<1>1. PICK q : q = requests[p]
  OBVIOUS
<1>2. p \in Active /\ Head(q.todo).op = "sweep"
  <2>1. At(p, "sweep")
    BY DEF SweepStart
  <2>2. QED
    BY <1>1, <2>1 DEF At, Head1
<1>3. /\ HandlerOK(q) /\ q.todo # <<>> /\ WalkOK(q) /\ kv \in Store
      /\ \A t \in Entries(q.todo) : Fits("sweeping", t) /\ ~Loud(t)
      /\ Entries(q.todo) = {Head(q.todo)} \cup Entries(Tail(q.todo))
      /\ Tail(q.todo) \in Seq(Entries(Tail(q.todo)))
      /\ \A u \in Entries(Tail(q.todo)) : u.op = "recount"
      /\ q.read = <<>>
      /\ clean => Balanced(Now)
      /\ lossless /\ Cardinality(Address) <= MaxIndex =>
              /\ ListedInv(q) /\ Held \subseteq Entries(kv.index)
              /\ (Held \cup kv.attempts) \cap rules = {}
  BY <1>1, <1>2, SweepFacts
<1>4. UNCHANGED <<records, kv, overdue, rules, events, clean, lossless>>
  BY DEF SweepStart
<1>5. kv.index \in Index
  BY <1>3 DEF Store
<1>6. \A u \in Entries(Tail(q.todo)) : ~Loud(u)
  BY <1>3
<1>7. CASE kv.index = <<>>
  <2>1. PICK stop : stop.op = "set" /\ stop.key = "cursor" /\ stop.value = NoAddress
                    /\ stop = Set("cursor", NoAddress)
    BY DEF Set
  <2>2. Continue(p, <<stop>>)
    BY <1>1, <1>7, <2>1 DEF SweepStart
  <2>3. /\ <<stop>> \in Seq(Entries(<<stop>>)) /\ Entries(<<stop>>) = {stop} /\ InOrder(<<stop>>)
    BY OneTask
  <2>4. /\ Fits("sweeping", stop) /\ ~Loud(stop)
        /\ \A u : u.op = "recount" => MayPrecede(stop, u)
    BY <2>1 DEF Fits, Sweeping, Loud, MayPrecede
  <2>5. Front(<<stop>>) /\ \A t \in Entries(<<stop>>) : Fits("sweeping", t)
    BY <2>3, <2>4 DEF Front, Entries
  <2>6. PICK m : /\ Leaves(q, <<stop>> \o Tail(q.todo), m)
                 /\ requests' = [requests EXCEPT ![p] = IF m.todo = <<>> THEN Idle ELSE m]
    BY <1>1, <1>2, <2>2, Goes
  <2>7. /\ Becomes(q, <<stop>> \o Tail(q.todo), q.batch, q.walk, m)
        /\ m.todo = <<stop>> \o Tail(q.todo) /\ m.walk = q.walk
    BY <2>6 DEF Leaves, Becomes
  <2>8. q.walk.on = FALSE
    <3>1. Has(q.todo, {"resume", "scan"}) = FALSE
      BY <1>2, <1>3 DEF Has
    <3>2. QED
      BY <1>3, <3>1 DEF WalkOK
  <2>9. ASSUME Entries(m.todo) = Entries(<<stop>>) \cup Entries(Tail(q.todo))
        PROVE  /\ WalkOK(m)
               /\ lossless /\ Cardinality(Address) <= MaxIndex => ListedInv(m)
    <3>1. \A t \in Entries(m.todo) : t.op = "recount" \/ (t.op = "set" /\ t.key = "cursor")
      BY <1>3, <2>1, <2>3, <2>9
    <3>2. Has(m.todo, {"resume", "scan"}) = FALSE
      BY <3>1 DEF Has
    <3>3. WalkOK(m)
      BY <1>3, <2>7, <2>8, <3>2 DEF WalkOK
    <3>4. Arriving(m.todo) = {}
      BY <3>1 DEF Arriving
    <3>5. lossless /\ Cardinality(Address) <= MaxIndex => ListedInv(m)
      BY <1>3, <2>7, <2>8, <3>1, <3>4 DEF ListedInv
    <3>6. QED
      BY <3>3, <3>5
  <2>10. clean => Balanced(After(m.todo, Now))
    <3>1. After(<<stop>> \o Tail(q.todo), Now) = After(<<stop>>, Now)
      BY <1>3, <1>6, <2>3, AfterQuietTail
    <3>2. After(<<stop>>, Now) = Now
      BY <2>3, <2>4, AfterQuiet
    <3>3. QED
      BY <1>3, <2>7, <3>1, <3>2
  <2>11. \A t \in Entries(<<stop>>) : \A u : u.op = "recount" => MayPrecede(t, u)
    BY <2>3, <2>4
  <2>12. QED
    BY <1>1, <1>2, <1>4, <2>3, <2>5, <2>6, <2>7, <2>9, <2>10, <2>11, SweepStep
<1>8. CASE kv.index # <<>>
  <2>1. PICK go : go.op = "resume" /\ go = Do("resume")
    BY DEF Do
  <2>2. PICK walk : walk = [NoWalk EXCEPT !.on = TRUE, !.base = kv.index]
    OBVIOUS
  <2>3. /\ walk.on = TRUE /\ walk.base = kv.index /\ walk.start = 1 /\ walk.pos = 1
        /\ walk.kept = <<>> /\ walk \in Walk
    <3>1. walk = [on |-> TRUE, base |-> kv.index, start |-> 1, pos |-> 1, kept |-> <<>>,
                  deleted |-> 0]
      BY <2>2 DEF NoWalk
    <3>2. <<>> \in Index
      BY DEF Index
    <3>3. QED
      BY <1>5, <3>1, <3>2 DEF Walk
  <2>4. PICK todo : todo = <<go>> \o Tail(q.todo)
    OBVIOUS
  <2>5. PICK m : m = [q EXCEPT !.todo = todo, !.walk = walk]
    OBVIOUS
  <2>6. Becomes(q, todo, q.batch, walk, m) /\ m.todo = todo /\ m.walk = walk
    BY <1>3, <2>5 DEF HandlerOK, Becomes
  <2>7. /\ <<go>> \in Seq(Entries(<<go>>)) /\ Entries(<<go>>) = {go} /\ InOrder(<<go>>)
    BY OneTask
  <2>8. todo # <<>>
    BY <1>3, <2>4, <2>7, JoinedHead, Written
  <2>9. requests' = [requests EXCEPT ![p] = IF m.todo = <<>> THEN Idle ELSE m]
    <3>1. requests' = [requests EXCEPT ![p].todo = todo, ![p].walk = walk]
      BY <1>1, <1>8, <2>1, <2>2, <2>4 DEF SweepStart, Rest
    <3>2. p \in DOMAIN requests
      BY DEF CorpusInv, TypeOK
    <3>3. requests' = [requests EXCEPT ![p] = m]
      BY <1>1, <2>5, <3>1, <3>2
    <3>4. QED
      BY <2>6, <2>8, <3>3
  <2>10. /\ Fits("sweeping", go) /\ ~Loud(go)
         /\ \A u : u.op = "recount" => MayPrecede(go, u)
    BY <2>1 DEF Fits, Sweeping, Loud, MayPrecede
  <2>11. /\ Front(<<go>>) /\ \A t \in Entries(<<go>>) : Fits("sweeping", t)
         /\ \A t \in Entries(<<go>>) : \A u : u.op = "recount" => MayPrecede(t, u)
    BY <2>7, <2>10 DEF Front, Entries
  <2>12. ASSUME Entries(m.todo) = Entries(<<go>>) \cup Entries(Tail(q.todo))
         PROVE  /\ WalkOK(m)
                /\ lossless /\ Cardinality(Address) <= MaxIndex => ListedInv(m)
    <3>1. \A t \in Entries(m.todo) : t.op = "recount" \/ t.op = "resume"
      BY <1>3, <2>1, <2>7, <2>12
    <3>2. Has(m.todo, {"resume", "scan"}) = TRUE
      BY <2>1, <2>7, <2>12 DEF Has
    <3>3. WalkOK(m)
      <4>1. 1 \in DOMAIN kv.index /\ 1 \in 1..Len(kv.index)
        BY <1>5, <1>8, IndexFacts, InSeq
      <4>2. QED
        BY <2>3, <2>6, <3>2, <4>1, Written DEF WalkOK
    <3>4. Arriving(m.todo) = {}
      BY <3>1 DEF Arriving
    <3>5. ASSUME lossless, Cardinality(Address) <= MaxIndex PROVE ListedInv(m)
      <4>1. Held \subseteq Entries(kv.index) /\ Held \cap rules = {}
        BY <1>3, <3>5
      <4>2. \A j \in walk.start..(walk.pos - 1) : FALSE
        BY <2>3
      <4>3. QED
        BY <2>3, <2>6, <3>1, <3>4, <4>1, <4>2 DEF ListedInv
    <3>6. QED
      BY <3>3, <3>5
  <2>13. clean => Balanced(After(m.todo, Now))
    <3>1. After(<<go>> \o Tail(q.todo), Now) = After(<<go>>, Now)
      BY <1>3, <1>6, <2>7, AfterQuietTail
    <3>2. After(<<go>>, Now) = Now
      BY <2>7, <2>10, AfterQuiet
    <3>3. QED
      BY <1>3, <2>4, <2>6, <3>1, <3>2
  <2>14. Becomes(q, <<go>> \o Tail(q.todo), q.batch, walk, m)
    BY <2>4, <2>6
  <2>15. QED
    BY <1>1, <1>2, <1>4, <2>7, <2>9, <2>11, <2>12, <2>13, <2>14, SweepStep
<1>9. QED
  BY <1>7, <1>8

(* A sweep reads the index and finds the entry it resumes at.              *)
LEMMA SweepResumeHolds ==
  ASSUME CorpusInv, NEW p \in Request, SweepResume(p) PROVE CorpusInv'
<1>1. PICK q : q = requests[p]
  OBVIOUS
<1>2. p \in Active /\ Head(q.todo).op = "resume"
  <2>1. At(p, "resume")
    BY DEF SweepResume
  <2>2. QED
    BY <1>1, <2>1 DEF At, Head1
<1>3. /\ HandlerOK(q) /\ q.todo # <<>> /\ WalkOK(q) /\ kv \in Store
      /\ \A t \in Entries(q.todo) : Fits("sweeping", t) /\ ~Loud(t)
      /\ Entries(q.todo) = {Head(q.todo)} \cup Entries(Tail(q.todo))
      /\ Tail(q.todo) \in Seq(Entries(Tail(q.todo)))
      /\ \A u \in Entries(Tail(q.todo)) : u.op = "recount"
      /\ q.read = <<>>
      /\ clean => Balanced(Now)
      /\ lossless /\ Cardinality(Address) <= MaxIndex =>
              /\ ListedInv(q) /\ Held \subseteq Entries(kv.index)
              /\ (Held \cup kv.attempts) \cap rules = {}
  BY <1>1, <1>2, SweepFacts
<1>4. UNCHANGED <<records, kv, overdue, rules, events, clean, lossless>>
  BY DEF SweepResume
<1>5. /\ q.walk \in Walk /\ q.walk.on = TRUE /\ q.walk.base \in Index /\ q.walk.kept = <<>>
      /\ q.walk.start \in DOMAIN q.walk.base
  <2>1. Has(q.todo, {"resume", "scan"}) = TRUE /\ Has(q.todo, {"resume"}) = TRUE
    BY <1>2, <1>3 DEF Has
  <2>2. q.walk.on = TRUE
    BY <1>3, <2>1 DEF WalkOK
  <2>3. QED
    BY <1>3, <2>1, <2>2 DEF WalkOK, Walk
<1>6. \A u \in Entries(Tail(q.todo)) : ~Loud(u)
  BY <1>3
<1>7. PICK go : go.op = "scan" /\ go.step = 0 /\ go = [op |-> "scan", step |-> 0]
  OBVIOUS
<1>8. PICK at : at = {i \in DOMAIN q.walk.base : q.walk.base[i] = kv.cursor}
  OBVIOUS
<1>9. PICK start : start = IF at = {} THEN 1 ELSE CHOOSE i \in at : TRUE
  OBVIOUS
<1>10. start \in DOMAIN q.walk.base /\ start \in 1..Len(q.walk.base) /\ start \in Nat
  <2>1. DOMAIN q.walk.base = 1..Len(q.walk.base) /\ Len(q.walk.base) \in Nat
    BY <1>5, IndexFacts
  <2>2. 1 \in DOMAIN q.walk.base
    BY <1>5, <2>1
  <2>3. start \in DOMAIN q.walk.base
    BY <1>8, <1>9, <2>2
  <2>4. QED
    BY <2>1, <2>3
<1>11. PICK walk : walk = [q.walk EXCEPT !.start = start, !.pos = start]
  OBVIOUS
<1>12. /\ walk.on = TRUE /\ walk.base = q.walk.base /\ walk.start = start /\ walk.pos = start
       /\ walk.kept = <<>> /\ walk \in Walk
  BY <1>5, <1>10, <1>11 DEF Walk
<1>13. PICK todo : todo = <<go>> \o Tail(q.todo)
  OBVIOUS
<1>14. PICK m : m = [q EXCEPT !.todo = todo, !.walk = walk]
  OBVIOUS
<1>15. Becomes(q, todo, q.batch, walk, m) /\ m.todo = todo /\ m.walk = walk
  BY <1>3, <1>14 DEF HandlerOK, Becomes
<1>16. /\ <<go>> \in Seq(Entries(<<go>>)) /\ Entries(<<go>>) = {go} /\ InOrder(<<go>>)
  BY OneTask
<1>17. todo # <<>> /\ Head(todo) = go
  BY <1>3, <1>13, <1>16, JoinedHead, Written
<1>18. requests' = [requests EXCEPT ![p] = IF m.todo = <<>> THEN Idle ELSE m]
  <2>1. requests' = [requests EXCEPT ![p].todo = todo,
                                     ![p].walk = [@ EXCEPT !.start = start, !.pos = start]]
    BY <1>1, <1>7, <1>8, <1>9, <1>13 DEF SweepResume, Rest
  <2>2. p \in DOMAIN requests
    BY DEF CorpusInv, TypeOK
  <2>3. DOMAIN requests[p] = {"todo", "read", "batch", "walk", "alone"}
    BY <1>1, <1>3 DEF HandlerOK
  <2>4. requests' = [requests EXCEPT ![p] = m]
    BY <1>1, <1>11, <1>14, <2>1, <2>2, <2>3
  <2>5. QED
    BY <1>15, <1>17, <2>4
<1>19. /\ Fits("sweeping", go) /\ ~Loud(go)
       /\ \A u : u.op = "recount" => MayPrecede(go, u)
  BY <1>7 DEF Fits, Sweeping, Loud, MayPrecede
<1>20. /\ Front(<<go>>) /\ \A t \in Entries(<<go>>) : Fits("sweeping", t)
       /\ \A t \in Entries(<<go>>) : \A u : u.op = "recount" => MayPrecede(t, u)
  BY <1>16, <1>19 DEF Front, Entries
<1>21. ASSUME Entries(m.todo) = Entries(<<go>>) \cup Entries(Tail(q.todo))
       PROVE  /\ WalkOK(m)
              /\ lossless /\ Cardinality(Address) <= MaxIndex => ListedInv(m)
  <2>1. \A t \in Entries(m.todo) : t.op = "recount" \/ t = go
    BY <1>3, <1>16, <1>21
  <2>2. Has(m.todo, {"resume", "scan"}) = TRUE /\ Has(m.todo, {"resume"}) = FALSE
    BY <1>7, <1>16, <1>21, <2>1 DEF Has
  <2>3. WalkOK(m)
    <3>1. start \in start..Len(q.walk.base)
      BY <1>10
    <3>2. QED
      BY <1>10, <1>12, <1>15, <2>2, <3>1, Written DEF WalkOK
  <2>4. Arriving(m.todo) = {}
    BY <1>7, <2>1 DEF Arriving
  <2>5. ASSUME lossless, Cardinality(Address) <= MaxIndex PROVE ListedInv(m)
    <3>1. Held \subseteq Entries(kv.index) /\ Held \cap rules = {}
      BY <1>3, <2>5
    <3>2. q.walk.base = kv.index
      BY <1>3, <1>5, <2>5 DEF ListedInv
    <3>3. \A j \in walk.start..(walk.pos - 1) : FALSE
      BY <1>10, <1>12
    <3>4. \A t \in Entries(m.todo) : ~(t.op = "set") /\ ~(t.op = "scan" /\ t.step = 1)
      BY <1>7, <2>1
    <3>5. QED
      BY <1>12, <1>15, <2>4, <3>1, <3>2, <3>3, <3>4 DEF ListedInv
  <2>6. QED
    BY <2>3, <2>5
<1>22. clean => Balanced(After(m.todo, Now))
  <2>1. After(<<go>> \o Tail(q.todo), Now) = After(<<go>>, Now)
    BY <1>3, <1>6, <1>16, AfterQuietTail
  <2>2. After(<<go>>, Now) = Now
    BY <1>16, <1>19, AfterQuiet
  <2>3. QED
    BY <1>3, <1>13, <1>15, <2>1, <2>2
<1>23. Becomes(q, <<go>> \o Tail(q.todo), q.batch, walk, m)
  BY <1>13, <1>15
<1>24. QED
  BY <1>1, <1>2, <1>4, <1>16, <1>18, <1>20, <1>21, <1>22, <1>23, SweepStep

(* What a walk leaves when it has got to entry i: every task only writes,  *)
(* and an index written lists what it kept and what it did not visit.      *)
Ending(t, w, i) ==
  /\ t.op = "set" /\ t.key \in {"index", "cursor"}
  /\ t.key = "cursor" => t.value \in Address \cup {NoAddress}
  /\ t.key = "index" => /\ t.value \in Index
                        /\ \A j \in DOMAIN w.base :
                             j < w.start \/ j >= i \/ w.base[j] \in Entries(w.kept) =>
                               w.base[j] \in Entries(t.value)

(* The tasks that end a walk are those of a sweep.                         *)
LEMMA EndingFacts ==
  ASSUME NEW t, NEW w, NEW i, Ending(t, w, i)
  PROVE  /\ Fits("sweeping", t) /\ ~Loud(t) /\ t.op = "set"
         /\ \A u : u.op \in {"set", "recount"} => MayPrecede(t, u)
BY DEF Ending, Fits, Sweeping, Loud, MayPrecede

(* Where a walk stops, and what is written then.                           *)
LEMMA SweepEndFacts ==
  ASSUME NEW w \in Walk, NEW i \in w.start..(Len(w.base) + 1), w.start \in DOMAIN w.base,
         Entries(w.kept) \subseteq {w.base[j] : j \in w.start..(i - 1)},
         NEW tasks, tasks = SweepEnd(w, i)
  PROVE  /\ tasks \in Seq(Entries(tasks)) /\ tasks # <<>> /\ InOrder(tasks) /\ Front(tasks)
         /\ \A t \in Entries(tasks) : Ending(t, w, i)
<1>1. /\ w.base \in Index /\ w.kept \in Index
      /\ Len(w.base) \in Nat /\ DOMAIN w.base = 1..Len(w.base)
      /\ \A j, k \in DOMAIN w.base : w.base[j] = w.base[k] => j = k
      /\ \A j \in DOMAIN w.base : w.base[j] \in Address
  BY IndexFacts DEF Walk
<1>2. w.start \in Nat /\ i \in Nat /\ w.start >= 1 /\ i >= w.start /\ i <= Len(w.base) + 1
  BY <1>1
<1>3. PICK before, rest : /\ before = SubSeq(w.base, 1, w.start - 1)
                          /\ rest = SubSeq(w.base, i, Len(w.base))
  OBVIOUS
<1>4. before \in Index /\ Entries(before) = {w.base[j] : j \in 1..(w.start - 1)}
  <2>1. w.start - 1 \in Nat /\ 1..(w.start - 1) \subseteq DOMAIN w.base
    BY <1>1, <1>2
  <2>2. QED
    BY <1>1, <1>3, <2>1, PartOfIndex
<1>5. rest \in Index /\ Entries(rest) = {w.base[j] : j \in i..Len(w.base)}
  <2>1. i..Len(w.base) \subseteq DOMAIN w.base
    BY <1>1, <1>2
  <2>2. QED
    BY <1>1, <1>2, <1>3, <2>1, PartOfIndex
<1>6. /\ before \o w.kept \in Index
      /\ Entries(before \o w.kept) = Entries(before) \cup Entries(w.kept)
  <2>1. Entries(before) \cap Entries(w.kept) = {}
    <3>1. \A j \in 1..(w.start - 1), k \in w.start..(i - 1) :
            j \in DOMAIN w.base /\ k \in DOMAIN w.base /\ j # k
      BY <1>1, <1>2
    <3>2. \A j \in 1..(w.start - 1), k \in w.start..(i - 1) : w.base[j] # w.base[k]
      BY <1>1, <3>1
    <3>3. QED
      BY <1>4, <3>2
  <2>2. QED
    BY <1>1, <1>4, <2>1, JoinedIndex
<1>7. PICK next : next = before \o w.kept \o rest
  OBVIOUS
<1>8. next \in Index /\ Entries(next) = Entries(before) \cup Entries(w.kept) \cup Entries(rest)
  <2>1. Entries(before \o w.kept) \cap Entries(rest) = {}
    <3>1. \A j \in 1..(i - 1), k \in i..Len(w.base) :
            j \in DOMAIN w.base /\ k \in DOMAIN w.base /\ j # k
      BY <1>1, <1>2
    <3>2. \A j \in 1..(i - 1), k \in i..Len(w.base) : w.base[j] # w.base[k]
      BY <1>1, <3>1
    <3>3. 1..(w.start - 1) \subseteq 1..(i - 1) /\ w.start..(i - 1) \subseteq 1..(i - 1)
      BY <1>2
    <3>4. Entries(before \o w.kept) \subseteq {w.base[j] : j \in 1..(i - 1)}
      BY <1>4, <1>6, <3>3
    <3>5. QED
      BY <1>5, <3>2, <3>4
  <2>2. QED
    BY <1>5, <1>6, <1>7, <2>1, JoinedIndex
<1>9. PICK at : at = IF i > Len(w.base) THEN NoAddress ELSE w.base[i]
  OBVIOUS
<1>10. at \in Address \cup {NoAddress}
  BY <1>1, <1>2, <1>9
<1>11. PICK write, stop : write = Set("index", next) /\ stop = Set("cursor", at)
  OBVIOUS
<1>12. Ending(stop, w, i)
  BY <1>10, <1>11 DEF Set, Ending
<1>13. Ending(write, w, i)
  <2>1. \A j \in DOMAIN w.base : j < w.start => j \in 1..(w.start - 1)
    BY <1>1, <1>2
  <2>2. \A j \in DOMAIN w.base : j >= i => j \in i..Len(w.base)
    BY <1>1, <1>2
  <2>3. \A j \in DOMAIN w.base :
          j < w.start \/ j >= i \/ w.base[j] \in Entries(w.kept) => w.base[j] \in Entries(next)
    BY <1>4, <1>5, <1>8, <2>1, <2>2
  <2>4. write.op = "set" /\ write.key = "index" /\ write.value = next
    BY <1>11 DEF Set
  <2>5. QED
    BY <1>8, <2>3, <2>4 DEF Ending
<1>14. PICK first : first = IF Len(next) # Len(w.base) THEN <<write>> ELSE <<>>
  OBVIOUS
<1>15. tasks = first \o <<stop>>
  BY <1>3, <1>7, <1>9, <1>11, <1>14 DEF SweepEnd
<1>16. tasks = <<stop>> \/ tasks = <<write, stop>>
  BY <1>14, <1>15, NoTasks, OneTask, TwoJoined
<1>17. tasks \in Seq(Entries(tasks)) /\ tasks # <<>> /\ DOMAIN tasks \subseteq {1, 2, 3}
       /\ Entries(tasks) \subseteq {write, stop}
  <2>1. CASE tasks = <<stop>>
    BY <2>1, Written
  <2>2. CASE tasks = <<write, stop>>
    BY <2>2, Written
  <2>3. QED
    BY <1>16, <2>1, <2>2
<1>18. \A t \in Entries(tasks) : Ending(t, w, i)
  BY <1>12, <1>13, <1>17
<1>19. InOrder(tasks) /\ Front(tasks)
  <2>1. \A t, u \in Entries(tasks) : MayPrecede(t, u)
    BY <1>18, EndingFacts
  <2>2. QED
    BY <1>17, <2>1, Ordered
<1>20. QED
  BY <1>17, <1>18, <1>19

(* A walk that stops leaves nothing out that is held.                      *)
LEMMA WalkStopped ==
  ASSUME NEW q, WalkOK(q), q.walk.on, ListedInv(q), NEW i, i = Reached(q),
         q.walk.pos \in Nat, q.walk.start \in Nat,
         Held \subseteq Entries(kv.index),
         Head(q.todo).op = "scan" =>
           Leaving(q.todo) = {} /\ Head(q.todo) \in Entries(q.todo) /\ Head(q.todo).step \in {0, 1},
         NEW t, Ending(t, q.walk, i), t.key = "index"
  PROVE  Held \subseteq Entries(t.value)
<1>1. PICK w : w = q.walk
  OBVIOUS
<1>2. w.base = kv.index
  BY <1>1 DEF ListedInv
<1>3. /\ \A j \in w.start..(w.pos - 1) : w.base[j] \in Held => w.base[j] \in Entries(w.kept)
      /\ Head(q.todo).op = "scan" =>
           \A u \in Entries(q.todo) : u.op = "scan" /\ u.step = 1 =>
             (w.base[w.pos] \in Held => w.base[w.pos] \in Entries(w.kept))
  BY <1>1 DEF ListedInv
<1>4. \A j \in DOMAIN w.base :
        j < w.start \/ j >= i \/ w.base[j] \in Entries(w.kept) => w.base[j] \in Entries(t.value)
  BY <1>1 DEF Ending
<1>5. DOMAIN w.base = 1..Len(w.base) /\ Len(w.base) \in Nat
  <2>1. w.base \in Index
    BY <1>1 DEF WalkOK, Walk
  <2>2. QED
    BY <2>1, IndexFacts
<1>6. SUFFICES ASSUME NEW a \in Held PROVE a \in Entries(t.value)
  OBVIOUS
<1>7. PICK j \in DOMAIN w.base : a = w.base[j]
  BY <1>2, <1>6 DEF Entries
<1>8. CASE j < w.start \/ j >= i
  BY <1>4, <1>7, <1>8
<1>9. CASE j \in w.start..(w.pos - 1)
  BY <1>3, <1>4, <1>6, <1>7, <1>9
<1>10. CASE ~(j < w.start \/ j >= i) /\ j \notin w.start..(w.pos - 1)
  <2>1. j \in Nat /\ w.pos \in Nat /\ w.start \in Nat /\ j >= w.start /\ j >= w.pos /\ j < i
    BY <1>1, <1>5, <1>7, <1>10 DEF Reached
  <2>2. Head(q.todo).op = "scan" /\ Head(q.todo).step = 1 /\ i = w.pos + 1
    BY <1>1, <2>1 DEF Reached
  <2>3. j = w.pos
    BY <2>1, <2>2
  <2>4. Head(q.todo) \in Entries(q.todo)
    BY <2>2
  <2>5. a \in Entries(w.kept)
    BY <1>3, <1>6, <1>7, <2>2, <2>3, <2>4
  <2>6. QED
    BY <1>4, <1>7, <2>5
<1>11. QED
  BY <1>8, <1>9, <1>10

(* What a walk has seen when it has got to entry i.                        *)
Visited(w, i) == {w.base[j] : j \in w.start..(i - 1)}

(* A walk at an entry of its index.                                        *)
LEMMA ScanFacts ==
  ASSUME CorpusInv, NEW p \in Active, NEW q, q = requests[p], Head(q.todo).op = "scan"
  PROVE  /\ q.walk \in Walk /\ q.walk.on = TRUE /\ q.walk.start \in DOMAIN q.walk.base
         /\ q.walk.start \in Nat /\ q.walk.pos \in q.walk.start..Len(q.walk.base)
         /\ Head(q.todo) \in Entries(q.todo) /\ Head(q.todo).step \in {0, 1}
         /\ Reached(q) = q.walk.pos + Head(q.todo).step
         /\ Reached(q) \in q.walk.start..(Len(q.walk.base) + 1)
         /\ Entries(q.walk.kept) \subseteq Visited(q.walk, Reached(q))
<1>1. /\ q.todo # <<>> /\ WalkOK(q)
      /\ \A t \in Entries(q.todo) : Fits("sweeping", t)
      /\ Entries(q.todo) = {Head(q.todo)} \cup Entries(Tail(q.todo))
  BY SweepFacts
<1>2. Head(q.todo) \in Entries(q.todo) /\ Head(q.todo).step \in {0, 1}
  <2>1. "sweeping" \in Kind
    BY DEF Kind
  <2>2. QED
    BY <1>1, <2>1, TaskTypes
<1>3. q.walk.on = TRUE
  <2>1. Has(q.todo, {"resume", "scan"}) = TRUE
    BY <1>2 DEF Has
  <2>2. QED
    BY <1>1, <2>1 DEF WalkOK
<1>4. /\ q.walk \in Walk /\ q.walk.start \in DOMAIN q.walk.base
      /\ q.walk.pos \in q.walk.start..Len(q.walk.base)
      /\ Entries(q.walk.kept) \subseteq Visited(q.walk, Reached(q))
  BY <1>1, <1>3 DEF WalkOK, Visited
<1>5. Reached(q) = q.walk.pos + Head(q.todo).step
  BY DEF Reached
<1>6. Len(q.walk.base) \in Nat /\ q.walk.start \in Nat
  BY <1>4, IndexFacts DEF Walk
<1>7. Reached(q) \in q.walk.start..(Len(q.walk.base) + 1)
  <2>1. PICK n, pos, start, step : /\ n = Len(q.walk.base) /\ pos = q.walk.pos
                                   /\ start = q.walk.start /\ step = Head(q.todo).step
    OBVIOUS
  <2>2. n \in Nat /\ start \in Nat /\ pos \in start..n /\ step \in {0, 1}
    BY <1>2, <1>4, <1>6, <2>1
  <2>3. pos + step \in start..(n + 1)
    BY <2>2
  <2>4. QED
    BY <1>5, <2>1, <2>3
<1>8. QED
  BY <1>2, <1>3, <1>4, <1>5, <1>6, <1>7

(* The walk stops.                                                         *)
LEMMA SweepStopHolds ==
  ASSUME CorpusInv, NEW p \in Active, NEW q, q = requests[p], Head(q.todo).op = "scan",
         requests' = [requests EXCEPT ![p].todo = SweepEnd(q.walk, Reached(q)) \o Tail(q.todo),
                                      ![p].walk = NoWalk],
         UNCHANGED <<records, kv, overdue, rules, events, clean, lossless>>
  PROVE  CorpusInv'
<1>1. /\ HandlerOK(q) /\ q.todo # <<>> /\ WalkOK(q)
      /\ \A t \in Entries(q.todo) : Fits("sweeping", t) /\ ~Loud(t)
      /\ Entries(q.todo) = {Head(q.todo)} \cup Entries(Tail(q.todo))
      /\ Tail(q.todo) \in Seq(Entries(Tail(q.todo)))
      /\ \A u \in Entries(Tail(q.todo)) : u.op = "recount"
      /\ q.read = <<>> /\ Leaving(q.todo) = {}
      /\ clean => Balanced(Now)
      /\ lossless /\ Cardinality(Address) <= MaxIndex =>
              /\ ListedInv(q) /\ Held \subseteq Entries(kv.index)
              /\ (Held \cup kv.attempts) \cap rules = {}
  BY SweepFacts
<1>2. /\ q.walk \in Walk /\ q.walk.on = TRUE /\ q.walk.start \in DOMAIN q.walk.base
      /\ q.walk.start \in Nat /\ q.walk.pos \in Nat
      /\ Head(q.todo) \in Entries(q.todo) /\ Head(q.todo).step \in {0, 1}
      /\ Reached(q) \in q.walk.start..(Len(q.walk.base) + 1)
      /\ Entries(q.walk.kept) \subseteq Visited(q.walk, Reached(q))
  <2>1. q.walk \in Walk
    BY ScanFacts
  <2>2. q.walk.pos \in Nat
    BY <2>1 DEF Walk
  <2>3. /\ q.walk.on = TRUE /\ q.walk.start \in DOMAIN q.walk.base /\ q.walk.start \in Nat
        /\ Head(q.todo) \in Entries(q.todo) /\ Head(q.todo).step \in {0, 1}
    BY ScanFacts
  <2>4. Reached(q) \in q.walk.start..(Len(q.walk.base) + 1)
    BY ScanFacts
  <2>5. Entries(q.walk.kept) \subseteq Visited(q.walk, Reached(q))
    BY ScanFacts
  <2>6. QED
    BY <2>1, <2>2, <2>3, <2>4, <2>5
<1>3. PICK tasks : tasks = SweepEnd(q.walk, Reached(q))
  OBVIOUS
<1>4. /\ tasks \in Seq(Entries(tasks)) /\ tasks # <<>> /\ InOrder(tasks) /\ Front(tasks)
      /\ \A t \in Entries(tasks) : Ending(t, q.walk, Reached(q))
  BY <1>2, <1>3, SweepEndFacts DEF Visited
<1>5. \A t \in Entries(tasks) : /\ Fits("sweeping", t) /\ ~Loud(t) /\ t.op = "set"
                                /\ \A u : u.op = "recount" => MayPrecede(t, u)
  BY <1>4, EndingFacts
<1>6. PICK m : m = [q EXCEPT !.todo = tasks \o Tail(q.todo), !.walk = NoWalk]
  OBVIOUS
<1>7. /\ Becomes(q, tasks \o Tail(q.todo), q.batch, NoWalk, m)
      /\ m.todo = tasks \o Tail(q.todo) /\ m.walk = NoWalk
  BY <1>1, <1>6 DEF HandlerOK, Becomes
<1>8. m.todo # <<>>
  BY <1>1, <1>4, <1>7, JoinedHead
<1>9. requests' = [requests EXCEPT ![p] = IF m.todo = <<>> THEN Idle ELSE m]
  <2>1. p \in DOMAIN requests
    BY DEF CorpusInv, TypeOK, Active
  <2>2. requests' = [requests EXCEPT ![p] = m]
    BY <1>3, <1>6, <2>1
  <2>3. QED
    BY <1>8, <2>2
<1>10. NoWalk.on = FALSE /\ NoWalk \in Walk
  <2>1. <<>> \in Index
    BY DEF Index
  <2>2. QED
    BY <2>1 DEF NoWalk, Walk
<1>11. ASSUME Entries(m.todo) = Entries(tasks) \cup Entries(Tail(q.todo))
       PROVE  /\ WalkOK(m)
              /\ lossless /\ Cardinality(Address) <= MaxIndex => ListedInv(m)
  <2>1. \A t \in Entries(m.todo) : t.op = "recount" \/ (t.op = "set" /\ t \in Entries(tasks))
    BY <1>1, <1>5, <1>11
  <2>2. WalkOK(m)
    <3>1. Has(m.todo, {"resume", "scan"}) = FALSE
      BY <2>1 DEF Has
    <3>2. QED
      BY <1>7, <1>10, <3>1 DEF WalkOK
  <2>3. Arriving(m.todo) = {}
    BY <2>1 DEF Arriving
  <2>4. ASSUME lossless, Cardinality(Address) <= MaxIndex PROVE ListedInv(m)
    <3>1. Held \subseteq Entries(kv.index) /\ ListedInv(q)
      BY <1>1, <2>4
    <3>2. \A t \in Entries(m.todo) : t.op = "set" /\ t.key = "index" => Held \subseteq Entries(t.value)
      BY <1>1, <1>2, <1>4, <2>1, <3>1, WalkStopped
    <3>3. QED
      BY <1>7, <1>10, <2>3, <3>1, <3>2 DEF ListedInv
  <2>5. QED
    BY <2>2, <2>4
<1>12. clean => Balanced(After(m.todo, Now))
  <2>1. \A t \in Entries(m.todo) : ~Loud(t)
    BY <1>1, <1>4, <1>5, <1>7, JoinedSeq
  <2>2. QED
    BY <1>1, <2>1, AfterQuiet
<1>13. QED
  BY <1>4, <1>5, <1>7, <1>9, <1>11, <1>12, SweepStep

(* The walk goes on to entry i: an overdue record is forgotten, another is *)
(* kept.                                                                   *)
LEMMA Kept ==
  ASSUME NEW w \in Walk, w.start \in DOMAIN w.base, NEW i \in w.start..Len(w.base),
         Entries(w.kept) \subseteq {w.base[j] : j \in w.start..(i - 1)},
         NEW kept, kept = w.kept \/ kept = Append(w.kept, w.base[i])
  PROVE  /\ i \in DOMAIN w.base /\ w.base[i] \in Address /\ kept \in Index
         /\ kept = Append(w.kept, w.base[i]) => Entries(kept) = Entries(w.kept) \cup {w.base[i]}
         /\ Entries(kept) \subseteq {w.base[j] : j \in w.start..i}
<1>1. /\ w.base \in Index /\ w.kept \in Index
      /\ Len(w.base) \in Nat /\ DOMAIN w.base = 1..Len(w.base)
      /\ \A j, k \in DOMAIN w.base : w.base[j] = w.base[k] => j = k
      /\ \A j \in DOMAIN w.base : w.base[j] \in Address
  BY IndexFacts DEF Walk
<1>2. i \in DOMAIN w.base /\ w.base[i] \in Address /\ i \in Nat /\ w.start \in Nat
  BY <1>1
<1>3. w.base[i] \notin Entries(w.kept)
  <2>1. \A j \in w.start..(i - 1) : j \in DOMAIN w.base /\ j # i
    BY <1>1, <1>2
  <2>2. QED
    BY <1>1, <1>2, <2>1
<1>4. /\ Append(w.kept, w.base[i]) \in Index
      /\ Entries(Append(w.kept, w.base[i])) = Entries(w.kept) \cup {w.base[i]}
  BY <1>1, <1>2, <1>3, AddedHost
<1>5. w.start..(i - 1) \subseteq w.start..i /\ i \in w.start..i
  BY <1>2
<1>6. QED
  BY <1>1, <1>2, <1>4, <1>5

(* The work of one entry: the tasks that forget an overdue record, and the *)
(* next look at the walk.                                                  *)
Looking(first, go, a, r, due) ==
  /\ go = [op |-> "scan", step |-> 1] /\ go.op = "scan" /\ go.step = 1
  /\ first = IF due THEN ForgetTasks(a, r) ELSE <<>>

Looked(first, go, a, due, tasks) ==
  /\ first \in Seq(Entries(first)) /\ tasks # <<>>
  /\ tasks \in Seq(Entries(tasks)) /\ Entries(tasks) = Entries(first) \cup {go}
  /\ InOrder(tasks) /\ Front(tasks)
  /\ due => /\ first # <<>> /\ Head(tasks) \in Entries(first)
            /\ \E t \in Entries(first) : t.op = "put" /\ t.a = a /\ t.record = NoRecord
  /\ ~due => first = <<>> /\ Head(tasks) = go
  /\ \A t \in Entries(first) : Forgets(t, a) /\ t.op \notin {"scan", "set", "resume"}
  /\ \A t \in Entries(tasks) : /\ Fits("sweeping", t)
                               /\ \A u : u.op = "recount" => MayPrecede(t, u)

(* The tasks of one entry are in order and of their kind.                  *)
LEMMA LookTasks ==
  ASSUME NEW a \in Address, NEW r, NEW due \in BOOLEAN, due => r \in Record,
         NEW first, NEW go, Looking(first, go, a, r, due)
  PROVE  Looked(first, go, a, due, first \o <<go>>)
<1>1. /\ first \in Seq(Entries(first)) /\ InOrder(first) /\ Front(first)
      /\ \A t \in Entries(first) : Forgets(t, a)
      /\ due => /\ first # <<>>
                /\ \E t \in Entries(first) : t.op = "put" /\ t.a = a /\ t.record = NoRecord
      /\ ~due => first = <<>>
  <2>1. CASE due
    <3>1. first = ForgetTasks(a, r)
      BY <2>1 DEF Looking
    <3>2. QED
      BY <2>1, <3>1, ForgetFacts
  <2>2. CASE ~due
    <3>1. first = <<>>
      BY <2>2 DEF Looking
    <3>2. QED
      BY <2>2, <3>1, Written, NothingLeft
  <2>3. QED
    BY <2>1, <2>2
<1>2. go.op = "scan" /\ go.step = 1
  BY DEF Looking
<1>3. /\ <<go>> \in Seq(Entries(<<go>>)) /\ Entries(<<go>>) = {go} /\ InOrder(<<go>>)
      /\ <<go>> # <<>> /\ Head(<<go>>) = go
  BY OneTask, Written
<1>4. /\ Fits("sweeping", go) /\ ~Loud(go)
      /\ \A u : u.op = "recount" => MayPrecede(go, u)
  BY <1>2 DEF Fits, Sweeping, Loud, MayPrecede
<1>5. /\ first \o <<go>> \in Seq(Entries(first \o <<go>>))
      /\ Entries(first \o <<go>>) = Entries(first) \cup {go}
  BY <1>1, <1>3, JoinedSeq
<1>6. \A t \in Entries(first) : /\ Fits("sweeping", t) /\ \A u : MayPrecede(t, u)
                                /\ t.op \notin {"scan", "set", "resume"}
  BY <1>1 DEF Forgets, Fits, Sweeping
<1>7. InOrder(first \o <<go>>)
  BY <1>1, <1>3, <1>6, OrderJoined
<1>8. Front(first \o <<go>>)
  BY <1>1, <1>3, <1>4, FrontJoined
<1>9. \A t \in Entries(first \o <<go>>) : /\ Fits("sweeping", t)
                                          /\ \A u : u.op = "recount" => MayPrecede(t, u)
  BY <1>4, <1>5, <1>6
<1>10. due => Head(first \o <<go>>) \in Entries(first)
  <2>1. first # <<>> => Head(first \o <<go>>) = Head(first)
    BY <1>1, <1>3, JoinedHead
  <2>2. QED
    BY <1>1, <2>1, RestOf
<1>11. ~due => Head(first \o <<go>>) = go
  BY <1>1, <1>3, NoTasks
<1>12. first \o <<go>> # <<>>
  BY <1>5, InSeq
<1>13. QED
  BY <1>1, <1>5, <1>6, <1>7, <1>8, <1>9, <1>10, <1>11, <1>12 DEF Looked

(* What a look at entry i makes of the walk.                               *)
Walked(w, i, held, due, walk) ==
  walk = [w EXCEPT !.pos = i,
                   !.kept = IF held /\ ~due THEN Append(@, w.base[i]) ELSE @,
                   !.deleted = IF held /\ due THEN @ + 1 ELSE @]

WentOn(w, i, held, due, walk) ==
  /\ walk \in Walk /\ walk.on = TRUE /\ walk.base = w.base /\ walk.start = w.start
  /\ walk.pos = i
  /\ Entries(walk.kept) = Entries(w.kept) \cup (IF held /\ ~due THEN {w.base[i]} ELSE {})
  /\ held /\ due => Entries(walk.kept) \subseteq Visited(walk, i)
  /\ Entries(walk.kept) \subseteq Visited(walk, i + 1)

(* The walk after a look is typed.                                         *)
LEMMA WalkedFacts ==
  ASSUME NEW w \in Walk, w.on = TRUE, w.start \in DOMAIN w.base, NEW i \in w.start..Len(w.base),
         Entries(w.kept) \subseteq Visited(w, i),
         NEW held \in BOOLEAN, NEW due \in BOOLEAN, NEW walk, Walked(w, i, held, due, walk)
  PROVE  WentOn(w, i, held, due, walk)
<1>1. PICK kept : kept = IF held /\ ~due THEN Append(w.kept, w.base[i]) ELSE w.kept
  OBVIOUS
<1>2. i \in Nat /\ w.kept \in Index /\ w.deleted \in Nat /\ w.base \in Index /\ w.start \in Nat
  <2>1. w.kept \in Index /\ w.deleted \in Nat /\ w.base \in Index /\ w.start \in Nat
    BY DEF Walk
  <2>2. Len(w.base) \in Nat
    BY <2>1, IndexFacts
  <2>3. QED
    BY <2>1, <2>2
<1>3. /\ w.base[i] \in Address /\ kept \in Index
      /\ kept = Append(w.kept, w.base[i]) => Entries(kept) = Entries(w.kept) \cup {w.base[i]}
      /\ Entries(kept) \subseteq {w.base[j] : j \in w.start..i}
  <2>1. kept = w.kept \/ kept = Append(w.kept, w.base[i])
    BY <1>1
  <2>2. QED
    BY <2>1, Kept DEF Visited
<1>4. walk = [w EXCEPT !.pos = i, !.kept = kept,
                       !.deleted = IF held /\ due THEN @ + 1 ELSE @]
  BY <1>1 DEF Walked, Walk
<1>5. /\ walk.on = TRUE /\ walk.base = w.base /\ walk.start = w.start /\ walk.pos = i
      /\ walk.kept = kept /\ walk \in Walk
  <2>1. PICK deleted : deleted = IF held /\ due THEN w.deleted + 1 ELSE w.deleted
    OBVIOUS
  <2>2. deleted \in Nat
    BY <1>2, <2>1
  <2>3. walk = [on |-> w.on, base |-> w.base, start |-> w.start, pos |-> i, kept |-> kept,
                deleted |-> deleted]
    BY <1>4, <2>1 DEF Walk
  <2>4. QED
    BY <1>2, <1>3, <2>2, <2>3 DEF Walk
<1>6. Entries(walk.kept) = Entries(w.kept) \cup (IF held /\ ~due THEN {w.base[i]} ELSE {})
  BY <1>1, <1>3, <1>5
<1>7. (i + 1) - 1 = i
  BY <1>2
<1>8. Entries(walk.kept) \subseteq Visited(walk, i + 1)
  BY <1>3, <1>5, <1>7 DEF Visited
<1>9. held /\ due => Entries(walk.kept) \subseteq Visited(walk, i)
  BY <1>5, <1>6 DEF Visited
<1>10. QED
  BY <1>5, <1>6, <1>8, <1>9 DEF WentOn

(* The walk after a look agrees with the tasks it leaves.                  *)
LEMMA WalkStays ==
  ASSUME NEW q, NEW m, NEW w, w = q.walk, w.start \in Nat, w.pos \in Nat,
         Head(q.todo).op = "scan", Head(q.todo) \in Entries(q.todo),
         Head(q.todo).step \in {0, 1}, NEW i, i = w.pos + Head(q.todo).step,
         NEW held \in BOOLEAN, NEW due \in BOOLEAN,
         w.on = TRUE, m.walk.on = TRUE, m.walk.base = w.base, m.walk.start = w.start,
         m.walk.pos = i,
         Entries(m.walk.kept) = Entries(w.kept) \cup (IF held /\ ~due THEN {w.base[i]} ELSE {}),
         held <=> w.base[i] \in Held,
         held /\ due => w.base[i] \in Leaving(m.todo),
         Leaving(q.todo) = {}, Arriving(m.todo) = {},
         \A t \in Entries(m.todo) : t.op # "set",
         Held \subseteq Entries(kv.index), ListedInv(q)
  PROVE  ListedInv(m)
<1>1. /\ w.base = kv.index /\ Held \cap rules = {}
      /\ \A j \in w.start..(w.pos - 1) : w.base[j] \in Held => w.base[j] \in Entries(w.kept)
      /\ Head(q.todo).step = 1 => (w.base[w.pos] \in Held => w.base[w.pos] \in Entries(w.kept))
  BY DEF ListedInv
<1>2. \A j \in w.start..(i - 1) : w.base[j] \in Held => w.base[j] \in Entries(w.kept)
  <2>1. CASE Head(q.todo).step = 0
    <3>1. i - 1 = w.pos - 1
      BY <2>1
    <3>2. QED
      BY <1>1, <3>1
  <2>2. CASE Head(q.todo).step = 1
    <3>1. \A j \in w.start..(i - 1) : j \in w.start..(w.pos - 1) \/ j = w.pos
      BY <2>2
    <3>2. QED
      BY <1>1, <2>2, <3>1
  <2>3. QED
    BY <2>1, <2>2
<1>3. w.base[i] \notin Held \/ w.base[i] \in Entries(m.walk.kept) \cup Leaving(m.todo)
  OBVIOUS
<1>4. \A j \in m.walk.start..(m.walk.pos - 1) :
        m.walk.base[j] \in Held => m.walk.base[j] \in Entries(m.walk.kept)
  BY <1>2
<1>5. /\ m.walk.base[m.walk.pos] = w.base[i] /\ m.walk.base = kv.index
      /\ Held \cup Arriving(m.todo) \subseteq Entries(kv.index) \cup Coming(m)
  BY <1>1
<1>6. m.walk.base[m.walk.pos] \notin Held \/
        m.walk.base[m.walk.pos] \in Entries(m.walk.kept) \cup Leaving(m.todo)
  BY <1>3, <1>5
<1>7. QED
  BY <1>1, <1>4, <1>5, <1>6 DEF ListedInv

Judged(a, held, due, drop) ==
  /\ held \in BOOLEAN /\ due \in BOOLEAN /\ drop \in BOOLEAN
  /\ held <=> records[a] # NoRecord
  /\ due <=> a \in overdue
  /\ drop <=> held /\ due

(* The walk of request p goes on.                                          *)
GoesOn(p, q, first, go, walk) ==
    /\ requests' = [requests EXCEPT ![p].todo = first \o <<go>> \o Tail(q.todo),
                                    ![p].walk = walk]
    /\ UNCHANGED <<records, kv, overdue, rules, events, clean, lossless>>

(* The walk goes on.                                                       *)
LEMMA SweepGoesOnHolds ==
  ASSUME CorpusInv, NEW p \in Active, NEW q, q = requests[p], Head(q.todo).op = "scan",
         NEW i, i = Reached(q), i <= Len(q.walk.base),
         NEW a, a = q.walk.base[i],
         NEW held, NEW due, NEW drop, Judged(a, held, due, drop),
         NEW first, NEW go, Looking(first, go, a, records[a], drop),
         NEW walk, Walked(q.walk, i, held, due, walk),
         GoesOn(p, q, first, go, walk)
  PROVE  CorpusInv'
<1>1. /\ HandlerOK(q) /\ q.todo # <<>> /\ kv \in Store
      /\ \A t \in Entries(q.todo) : Fits("sweeping", t) /\ ~Loud(t)
      /\ Entries(q.todo) = {Head(q.todo)} \cup Entries(Tail(q.todo))
      /\ Tail(q.todo) \in Seq(Entries(Tail(q.todo)))
      /\ \A u \in Entries(Tail(q.todo)) : u.op = "recount"
      /\ q.read = <<>> /\ Leaving(q.todo) = {}
      /\ records \in [Address -> Record \cup {NoRecord}]
      /\ clean => Balanced(Now)
      /\ lossless /\ Cardinality(Address) <= MaxIndex =>
              ListedInv(q) /\ Held \subseteq Entries(kv.index)
  BY SweepFacts
<1>2. /\ q.walk \in Walk /\ q.walk.on = TRUE /\ q.walk.start \in DOMAIN q.walk.base
      /\ q.walk.start \in Nat /\ q.walk.pos \in Nat
      /\ Head(q.todo) \in Entries(q.todo) /\ Head(q.todo).step \in {0, 1}
  <2>1. q.walk \in Walk
    BY ScanFacts
  <2>2. q.walk.pos \in Nat
    BY <2>1 DEF Walk
  <2>3. QED
    BY <2>1, <2>2, ScanFacts
<1>3. i = q.walk.pos + Head(q.todo).step
  BY ScanFacts
<1>4. i \in q.walk.start..(Len(q.walk.base) + 1)
  BY ScanFacts
<1>5. Entries(q.walk.kept) \subseteq Visited(q.walk, i)
  BY ScanFacts
<1>6. i \in q.walk.start..Len(q.walk.base) /\ Len(q.walk.base) \in Nat
  <2>1. Len(q.walk.base) \in Nat
    BY <1>2, IndexFacts DEF Walk
  <2>2. QED
    BY <1>2, <1>4, <2>1
<1>7. a \in Address
  <2>1. q.walk.base \in Index
    BY <1>2 DEF Walk
  <2>2. i \in DOMAIN q.walk.base
    BY <1>2, <1>6, <2>1, IndexFacts
  <2>3. QED
    BY <2>1, <2>2, IndexFacts
<1>8. /\ walk \in Walk /\ walk.on = TRUE /\ walk.base = q.walk.base
      /\ walk.start = q.walk.start /\ walk.pos = i
      /\ Entries(walk.kept) = Entries(q.walk.kept) \cup (IF held /\ ~due THEN {q.walk.base[i]} ELSE {})
      /\ held /\ due => Entries(walk.kept) \subseteq Visited(walk, i)
      /\ Entries(walk.kept) \subseteq Visited(walk, i + 1)
  <2>1. WentOn(q.walk, i, held, due, walk)
    <3>1. held \in BOOLEAN /\ due \in BOOLEAN
      BY DEF Judged
    <3>2. QED
      BY <1>2, <1>5, <1>6, <3>1, WalkedFacts
  <2>2. QED
    BY <2>1 DEF WentOn
<1>9. PICK tasks : tasks = first \o <<go>>
  OBVIOUS
<1>10. /\ held \in BOOLEAN /\ due \in BOOLEAN /\ drop \in BOOLEAN
       /\ held <=> records[a] # NoRecord
       /\ drop <=> held /\ due
  BY DEF Judged
<1>11. drop => records[a] \in Record
  BY <1>1, <1>7, <1>10
<1>12. Looking(first, go, a, records[a], drop)
  OBVIOUS
<1>13. /\ first \in Seq(Entries(first)) /\ tasks # <<>>
       /\ tasks \in Seq(Entries(tasks)) /\ Entries(tasks) = Entries(first) \cup {go}
       /\ InOrder(tasks) /\ Front(tasks)
       /\ drop => /\ first # <<>> /\ Head(tasks) \in Entries(first)
                  /\ \E t \in Entries(first) : t.op = "put" /\ t.a = a /\ t.record = NoRecord
       /\ ~drop => first = <<>> /\ Head(tasks) = go
       /\ \A t \in Entries(first) : Forgets(t, a) /\ t.op \notin {"scan", "set", "resume"}
       /\ \A t \in Entries(tasks) : /\ Fits("sweeping", t)
                                    /\ \A u : u.op = "recount" => MayPrecede(t, u)
  <2>1. Looked(first, go, a, drop, first \o <<go>>)
    BY <1>7, <1>10, <1>11, <1>12, LookTasks
  <2>2. QED
    BY <1>9, <2>1 DEF Looked
<1>14. go.op = "scan" /\ go.step = 1
  BY DEF Looking
<1>15. PICK m : m = [q EXCEPT !.todo = tasks \o Tail(q.todo), !.walk = walk]
  OBVIOUS
<1>16. /\ Becomes(q, tasks \o Tail(q.todo), q.batch, walk, m)
       /\ m.todo = tasks \o Tail(q.todo) /\ m.walk = walk
  BY <1>1, <1>15 DEF HandlerOK, Becomes
<1>17. m.todo # <<>> /\ Head(m.todo) = Head(tasks)
  <2>1. tasks \in Seq(Entries(tasks)) /\ tasks # <<>>
    BY <1>13
  <2>2. Tail(q.todo) \in Seq(Entries(Tail(q.todo)))
    BY <1>1
  <2>3. QED
    BY <1>16, <2>1, <2>2, JoinedHead
<1>18. requests' = [requests EXCEPT ![p] = IF m.todo = <<>> THEN Idle ELSE m]
  <2>1. p \in DOMAIN requests
    BY DEF CorpusInv, TypeOK, Active
  <2>2. requests' = [requests EXCEPT ![p] = m]
    <3>1. requests' = [requests EXCEPT ![p].todo = first \o <<go>> \o Tail(q.todo),
                                       ![p].walk = walk]
      BY DEF GoesOn
    <3>2. QED
      BY <1>9, <1>15, <2>1, <3>1
  <2>3. QED
    BY <1>17, <2>2
<1>19. ASSUME Entries(m.todo) = Entries(tasks) \cup Entries(Tail(q.todo))
       PROVE  /\ WalkOK(m)
              /\ lossless /\ Cardinality(Address) <= MaxIndex => ListedInv(m)
  <2>1. \A t \in Entries(m.todo) : t.op = "recount" \/ t \in Entries(first) \/ t = go
    BY <1>1, <1>13, <1>19
  <2>2. Has(m.todo, {"resume", "scan"}) = TRUE /\ Has(m.todo, {"resume"}) = FALSE
    BY <1>13, <1>14, <1>19, <2>1 DEF Has
  <2>3. Entries(walk.kept) \subseteq Visited(walk, Reached(m))
    <3>1. i \in Nat
      BY <1>2, <1>6
    <3>2. m.walk.pos = i /\ m.walk.pos + 0 = i
      <4>1. WentOn(q.walk, i, held, due, walk)
        <5>1. held \in BOOLEAN /\ due \in BOOLEAN
          BY DEF Judged
        <5>2. QED
          BY <1>2, <1>5, <1>6, <5>1, WalkedFacts
      <4>2. walk.pos = i
        BY <4>1 DEF WentOn
      <4>3. i + 0 = i
        BY <3>1
      <4>4. QED
        BY <1>16, <4>2, <4>3
    <3>3. Head(m.todo).op # "scan" => Reached(m) = i
      <4>1. Reached(m) = m.walk.pos + (IF Head(m.todo).op = "scan" THEN Head(m.todo).step ELSE 0)
        BY Zenon DEF Reached
      <4>2. QED
        BY <3>2, <4>1
    <3>4. Head(m.todo) = go => Reached(m) = i + 1
      BY <1>14, <3>1, <3>2, Zenon DEF Reached
    <3>5. drop => Head(m.todo).op # "scan"
      <4>1. drop => Head(m.todo) \in Entries(first)
        BY <1>13, <1>17
      <4>2. \A t \in Entries(first) : t.op # "scan"
        BY <1>13
      <4>3. QED
        BY <4>1, <4>2
    <3>6. ~drop => Head(m.todo) = go
      BY <1>13, <1>17
    <3>7. drop => Entries(walk.kept) \subseteq Visited(walk, i)
      BY <1>8, <1>10
    <3>8. Entries(walk.kept) \subseteq Visited(walk, i + 1)
      BY <1>8
    <3>9. drop => Reached(m) = i
      BY <3>3, <3>5
    <3>10. ~drop => Reached(m) = i + 1
      BY <3>4, <3>6
    <3>11. QED
      BY <3>7, <3>8, <3>9, <3>10
  <2>4. WalkOK(m)
    <3>1. m.walk = walk /\ Has(m.todo, {"resume", "scan"}) = walk.on
      BY <1>8, <1>16, <2>2
    <3>2. walk.start \in DOMAIN walk.base /\ walk.pos \in walk.start..Len(walk.base)
      BY <1>2, <1>6, <1>8
    <3>3. Entries(walk.kept) \subseteq {walk.base[j] : j \in walk.start..(Reached(m) - 1)}
      BY <2>3 DEF Visited
    <3>4. QED
      BY <1>8, <2>2, <3>1, <3>2, <3>3 DEF WalkOK
  <2>5. Arriving(m.todo) = {}
    <3>1. \A t \in Entries(first) : t.op = "put" => t.record = NoRecord
      BY <1>13 DEF Forgets
    <3>2. \A t \in Entries(m.todo) : ~(t.op = "put" /\ t.record # NoRecord)
      BY <1>14, <2>1, <3>1
    <3>3. QED
      BY <3>2 DEF Arriving
  <2>6. \A t \in Entries(m.todo) : t.op # "set"
    BY <1>13, <1>14, <2>1
  <2>7. held /\ due => a \in Leaving(m.todo)
    BY <1>10, <1>13, <1>19 DEF Leaving
  <2>8. held <=> q.walk.base[i] \in Held
    BY <1>7, <1>10 DEF Held
  <2>9. ASSUME lossless, Cardinality(Address) <= MaxIndex PROVE ListedInv(m)
    <3>1. Held \subseteq Entries(kv.index) /\ ListedInv(q)
      BY <1>1, <2>9
    <3>2. /\ m.walk.on = TRUE /\ m.walk.base = q.walk.base /\ m.walk.start = q.walk.start
          /\ m.walk.pos = i
          /\ Entries(m.walk.kept) =
               Entries(q.walk.kept) \cup (IF held /\ ~due THEN {q.walk.base[i]} ELSE {})
      BY <1>8, <1>16
    <3>3. held /\ due => q.walk.base[i] \in Leaving(m.todo)
      BY <2>7
    <3>4. QED
      BY <1>1, <1>2, <1>3, <2>5, <2>6, <2>8, <3>1, <3>2, <3>3, WalkStays, Zenon
  <2>10. QED
    BY <2>4, <2>9
<1>20. ASSUME clean PROVE Balanced(After(m.todo, Now))
  <2>1. \A u \in Entries(Tail(q.todo)) : ~Loud(u)
    BY <1>1
  <2>2. After(m.todo, Now) = After(tasks, Now)
    <3>1. tasks \in Seq(Entries(tasks))
      BY <1>13
    <3>2. Tail(q.todo) \in Seq(Entries(Tail(q.todo)))
      BY <1>1
    <3>3. QED
      BY <1>16, <2>1, <3>1, <3>2, AfterQuietTail
  <2>3. Balanced(Now)
    BY <1>1, <1>20
  <2>4. ~Loud(go) /\ <<go>> \in Seq(Entries(<<go>>)) /\ Entries(<<go>>) = {go}
    BY <1>14, OneTask DEF Loud
  <2>5. CASE drop
    <3>1. records[a].marker # "legacy"
      BY <1>7, <1>20, Before
    <3>2. first = ForgetTasks(a, records[a])
      BY <2>5, <1>12 DEF Looking
    <3>3. Balanced(After(first \o <<go>>, Now))
      BY <1>1, <1>7, <1>13, <2>3, <2>4, <3>1, <3>2, ForgetBalance, Zenon
    <3>4. QED
      BY <1>9, <2>2, <3>3
  <2>6. CASE ~drop
    <3>1. \A t \in Entries(tasks) : ~Loud(t)
      BY <1>13, <2>4, <2>6, Written
    <3>2. After(tasks, Now) = Now
      BY <3>1, AfterQuiet
    <3>3. QED
      BY <2>2, <2>3, <3>2
  <2>7. QED
    BY <2>5, <2>6
<1>21. UNCHANGED <<records, kv, overdue, rules, events, clean, lossless>>
  BY DEF GoesOn
<1>22. QED
  BY <1>13, <1>16, <1>18, <1>19, <1>20, <1>21, SweepStep

(* A walk looks at its next entry or stops.                                *)
LEMMA SweepScanHolds ==
  ASSUME CorpusInv, NEW p \in Request, SweepScan(p) PROVE CorpusInv'
<1>1. PICK q : q = requests[p]
  OBVIOUS
<1>2. p \in Active /\ Head(q.todo).op = "scan"
  <2>1. At(p, "scan")
    BY Zenon DEF SweepScan
  <2>2. QED
    BY <1>1, <2>1 DEF At, Head1
<1>3. UNCHANGED <<records, kv, overdue, rules, events, clean, lossless>>
  BY Zenon DEF SweepScan
<1>4. PICK i : i = Reached(q)
  OBVIOUS
<1>5. i = q.walk.pos + Head(q.todo).step
  BY <1>2, <1>4 DEF Reached
<1>6. CASE i > Len(q.walk.base) \/ i - q.walk.start >= ScanLimit \/ q.walk.deleted >= DeleteLimit
  <2>1. requests' = [requests EXCEPT ![p].todo = SweepEnd(q.walk, i) \o Tail(q.todo),
                                     ![p].walk = NoWalk]
    BY <1>1, <1>5, <1>6, Zenon DEF SweepScan, Head1, Rest
  <2>2. QED
    BY <1>1, <1>2, <1>3, <1>4, <2>1, SweepStopHolds, Zenon
<1>7. CASE ~(i > Len(q.walk.base) \/ i - q.walk.start >= ScanLimit \/ q.walk.deleted >= DeleteLimit)
  <2>1. PICK a : a = q.walk.base[i]
    OBVIOUS
  <2>2. PICK go : go = [op |-> "scan", step |-> 1]
    OBVIOUS
  <2>3. PICK first : first = IF records[a] # NoRecord /\ a \in overdue
                             THEN ForgetTasks(a, records[a]) ELSE <<>>
    OBVIOUS
  <2>4. PICK kept : kept = IF records[a] # NoRecord /\ a \notin overdue
                           THEN Append(q.walk.kept, a) ELSE q.walk.kept
    OBVIOUS
  <2>5. PICK deleted : deleted = IF records[a] # NoRecord /\ a \in overdue
                                 THEN q.walk.deleted + 1 ELSE q.walk.deleted
    OBVIOUS
  <2>6. PICK walk : walk = [q.walk EXCEPT
                              !.pos = i,
                              !.kept = IF records[a] # NoRecord /\ a \notin overdue
                                       THEN Append(@, a) ELSE @,
                              !.deleted = IF records[a] # NoRecord /\ a \in overdue
                                          THEN @ + 1 ELSE @]
    OBVIOUS
  <2>7. requests' = [requests EXCEPT ![p].todo = first \o <<go>> \o Tail(q.todo),
                                     ![p].walk = walk]
    <3>1. p \in DOMAIN requests /\ DOMAIN q = {"todo", "read", "batch", "walk", "alone"}
      <4>1. HandlerOK(q)
        BY <1>1, <1>2, SweepFacts
      <4>2. QED
        BY <4>1 DEF HandlerOK, CorpusInv, TypeOK
    <3>2. ~(requests[p].walk.pos + Head1(p).step > Len(requests[p].walk.base)
              \/ (requests[p].walk.pos + Head1(p).step) - requests[p].walk.start >= ScanLimit
              \/ requests[p].walk.deleted >= DeleteLimit)
      BY <1>1, <1>5, <1>7 DEF Head1
    <3>3. /\ i = requests[p].walk.pos + Head1(p).step
          /\ a = requests[p].walk.base[requests[p].walk.pos + Head1(p).step]
      BY <1>1, <1>5, <2>1 DEF Head1
    <3>4. requests' =
            [requests EXCEPT
               ![p].todo = (IF records[a] # NoRecord /\ a \in overdue
                            THEN ForgetTasks(a, records[a]) ELSE <<>>)
                           \o <<[op |-> "scan", step |-> 1]>> \o Rest(p),
               ![p].walk = [requests[p].walk EXCEPT
                  !.pos = i,
                  !.kept = IF records[a] # NoRecord /\ a \notin overdue
                           THEN Append(@, a) ELSE @,
                  !.deleted = IF records[a] # NoRecord /\ a \in overdue THEN @ + 1 ELSE @]]
      BY <3>2, <3>3, Zenon DEF SweepScan
    <3>5. requests' =
            [requests EXCEPT
               ![p].todo = first \o <<go>> \o Tail(q.todo),
               ![p].walk = [requests[p].walk EXCEPT
                  !.pos = i,
                  !.kept = IF records[a] # NoRecord /\ a \notin overdue
                           THEN Append(@, a) ELSE @,
                  !.deleted = IF records[a] # NoRecord /\ a \in overdue THEN @ + 1 ELSE @]]
      BY <1>1, <2>2, <2>3, <3>4 DEF Rest
    <3>6. QED
      BY <1>1, <2>6, <3>1, <3>5
  <2>8. PICK held, due, drop : Judged(a, held, due, drop)
    <3>1. PICK held : held = IF records[a] # NoRecord THEN TRUE ELSE FALSE
      OBVIOUS
    <3>2. PICK due : due = IF a \in overdue THEN TRUE ELSE FALSE
      OBVIOUS
    <3>3. PICK drop : drop = IF records[a] # NoRecord /\ a \in overdue THEN TRUE ELSE FALSE
      OBVIOUS
    <3>4. Judged(a, held, due, drop)
      BY <3>1, <3>2, <3>3 DEF Judged
    <3>5. QED
      BY <3>4
  <2>9. Looking(first, go, a, records[a], drop)
    <3>1. go.op = "scan" /\ go.step = 1
      BY <2>2
    <3>2. CASE drop
      BY <2>2, <2>3, <2>8, <3>1, <3>2 DEF Looking, Judged
    <3>3. CASE ~drop
      BY <2>2, <2>3, <2>8, <3>1, <3>3 DEF Looking, Judged
    <3>4. QED
      BY <3>2, <3>3
  <2>10. Walked(q.walk, i, held, due, walk)
    <3>1. kept = IF held /\ ~due THEN Append(q.walk.kept, q.walk.base[i]) ELSE q.walk.kept
      BY <2>1, <2>4, <2>8 DEF Judged
    <3>2. deleted = IF held /\ due THEN q.walk.deleted + 1 ELSE q.walk.deleted
      BY <2>5, <2>8 DEF Judged
    <3>3. DOMAIN q.walk = {"on", "base", "start", "pos", "kept", "deleted"}
      <4>1. q.walk \in Walk
        BY <1>1, <1>2, ScanFacts
      <4>2. QED
        BY <4>1 DEF Walk
    <3>4. walk = [q.walk EXCEPT !.pos = i, !.kept = kept, !.deleted = deleted]
      BY <2>4, <2>5, <2>6, <3>3
    <3>5. QED
      BY <3>1, <3>2, <3>3, <3>4 DEF Walked
  <2>11. i <= Len(q.walk.base)
    <3>1. i \in q.walk.start..(Len(q.walk.base) + 1) /\ q.walk.start \in Nat /\ q.walk \in Walk
      BY <1>1, <1>2, <1>4, ScanFacts
    <3>2. Len(q.walk.base) \in Nat
      BY <3>1, IndexFacts DEF Walk
    <3>3. QED
      BY <1>7, <3>1, <3>2
  <2>12. GoesOn(p, q, first, go, walk)
    BY <1>3, <2>7 DEF GoesOn
  <2>13. QED
    BY <1>1, <1>2, <1>4, <2>1, <2>8, <2>9, <2>10, <2>11, <2>12, SweepGoesOnHolds
<1>8. QED
  BY <1>6, <1>7

(* A walk that throws still ends as one that stops.                        *)
LEMMA ThrowFacts ==
  ASSUME CorpusInv, NEW p \in Request, NEW q, q = requests[p], q.walk.on
  PROVE  /\ p \in Active /\ HandlerOK(q) /\ TodoOK(q.todo) /\ q.todo # <<>> /\ WalkOK(q)
         /\ \A t \in Entries(q.todo) : Fits("sweeping", t)
         /\ q.walk \in Walk /\ q.walk.start \in DOMAIN q.walk.base
         /\ q.walk.start \in Nat /\ q.walk.pos \in Nat
         /\ Head(q.todo) \in Entries(q.todo)
         /\ Head(q.todo).op = "scan" => Leaving(q.todo) = {} /\ Head(q.todo).step \in {0, 1}
         /\ Reached(q) \in q.walk.start..(Len(q.walk.base) + 1)
         /\ Entries(q.walk.kept) \subseteq Visited(q.walk, Reached(q))
<1>1. HandlerOK(q) /\ TodoOK(q.todo) /\ WalkOK(q)
  BY DEF CorpusInv, TypeOK, HandlerOK
<1>2. PICK kind \in Kind : \A t \in Entries(q.todo) : Fits(kind, t)
  BY <1>1 DEF TodoOK
<1>3. PICK look \in Entries(q.todo) : look.op \in {"resume", "scan"}
  BY <1>1 DEF WalkOK, Has
<1>4. q.todo # <<>> /\ p \in Active
  BY <1>3, Written DEF Active
<1>5. kind = "sweeping"
  BY <1>2, <1>3, OpKinds
<1>6. \A t \in Entries(q.todo) : Fits("sweeping", t)
  BY <1>2, <1>5
<1>7. /\ q.walk \in Walk /\ q.walk.start \in DOMAIN q.walk.base
      /\ q.walk.pos \in q.walk.start..Len(q.walk.base)
      /\ Entries(q.walk.kept) \subseteq Visited(q.walk, Reached(q))
  BY <1>1 DEF WalkOK, Visited
<1>8. Head(q.todo) \in Entries(q.todo)
  BY <1>1, <1>4, TodoFacts
<1>9. Head(q.todo).op = "scan" => Leaving(q.todo) = {} /\ Head(q.todo).step \in {0, 1}
  <2>1. Head(q.todo).op = "scan" => Leaving(q.todo) = {}
    BY <1>4, SweepFacts
  <2>2. Head(q.todo).op = "scan" => Head(q.todo).step \in {0, 1}
    BY <1>2, <1>8, TaskTypes
  <2>3. QED
    BY <2>1, <2>2
<1>10. q.walk.start \in Nat /\ q.walk.pos \in Nat /\ Len(q.walk.base) \in Nat
  BY <1>7, IndexFacts DEF Walk
<1>11. Reached(q) \in q.walk.start..(Len(q.walk.base) + 1)
  <2>1. PICK step : step = IF Head(q.todo).op = "scan" THEN Head(q.todo).step ELSE 0
    OBVIOUS
  <2>2. step \in {0, 1}
    BY <1>9, <2>1
  <2>3. PICK n, pos, start : /\ n = Len(q.walk.base) /\ pos = q.walk.pos
                             /\ start = q.walk.start
    OBVIOUS
  <2>4. n \in Nat /\ start \in Nat /\ pos \in start..n
    BY <1>7, <1>10, <2>3
  <2>5. pos + step \in start..(n + 1)
    BY <2>2, <2>4
  <2>6. Reached(q) = pos + step
    BY <2>1, <2>3 DEF Reached
  <2>7. QED
    BY <2>3, <2>5, <2>6
<1>12. QED
  BY <1>1, <1>4, <1>6, <1>7, <1>8, <1>9, <1>10, <1>11

(* A walk throws where it is, and its finally branch still writes the index. *)
LEMMA SweepThrowsHolds ==
  ASSUME CorpusInv, NEW p \in Request, SweepThrows(p) PROVE CorpusInv'
<1>1. PICK q : q = requests[p]
  OBVIOUS
<1>2. q.walk.on
  BY <1>1 DEF SweepThrows
<1>3. /\ p \in Active /\ HandlerOK(q) /\ TodoOK(q.todo) /\ q.todo # <<>> /\ WalkOK(q)
      /\ \A t \in Entries(q.todo) : Fits("sweeping", t)
      /\ q.walk \in Walk /\ q.walk.start \in DOMAIN q.walk.base
      /\ q.walk.start \in Nat /\ q.walk.pos \in Nat
      /\ Head(q.todo) \in Entries(q.todo)
      /\ Head(q.todo).op = "scan" => Leaving(q.todo) = {} /\ Head(q.todo).step \in {0, 1}
  BY <1>1, <1>2, ThrowFacts
<1>4. Reached(q) \in q.walk.start..(Len(q.walk.base) + 1)
  BY <1>1, <1>2, ThrowFacts
<1>5. Entries(q.walk.kept) \subseteq Visited(q.walk, Reached(q))
  BY <1>1, <1>2, ThrowFacts
<1>6. /\ BatchOK(q) /\ q.alone \in BOOLEAN /\ events \in Nat
      /\ lossless /\ Cardinality(Address) <= MaxIndex => ListedInv(q) /\ RulesInv(q)
  BY <1>1, <1>3, Before
<1>7. PICK tasks : tasks = SweepEnd(q.walk, Reached(q))
  OBVIOUS
<1>8. /\ tasks \in Seq(Entries(tasks)) /\ tasks # <<>> /\ InOrder(tasks) /\ Front(tasks)
      /\ \A t \in Entries(tasks) : Ending(t, q.walk, Reached(q))
  BY <1>3, <1>4, <1>5, <1>7, SweepEndFacts DEF Visited
<1>9. \A t \in Entries(tasks) : Fits("sweeping", t) /\ t.op = "set"
  BY <1>8, EndingFacts
<1>10. PICK m : m = [q EXCEPT !.todo = tasks, !.read = Nothing, !.walk = NoWalk]
  OBVIOUS
<1>11. Becomes(q, tasks, q.batch, NoWalk, m)
  BY <1>3, <1>10 DEF HandlerOK, Becomes, Nothing
<1>12. /\ DOMAIN m = DOMAIN q /\ m.todo = tasks /\ m.read = <<>> /\ m.batch = q.batch
       /\ m.walk = NoWalk /\ m.alone = q.alone
  BY <1>11 DEF Becomes
<1>13. requests' = [requests EXCEPT ![p] = IF m.todo = <<>> THEN Idle ELSE m]
  <2>1. Reached(q) = IF Head1(p).op = "scan" THEN requests[p].walk.pos + Head1(p).step
                     ELSE requests[p].walk.pos
    BY <1>1, <1>3 DEF Reached, Head1
  <2>2. requests' = [requests EXCEPT ![p].todo = tasks, ![p].read = Nothing, ![p].walk = NoWalk]
    BY <1>1, <1>7, <2>1 DEF SweepThrows
  <2>3. p \in DOMAIN requests
    BY DEF CorpusInv, TypeOK
  <2>4. requests' = [requests EXCEPT ![p] = m]
    BY <1>1, <1>10, <2>2, <2>3
  <2>5. QED
    BY <1>8, <1>12, <2>4
<1>14. NoWalk.on = FALSE /\ NoWalk \in Walk
  <2>1. <<>> \in Index
    BY DEF Index
  <2>2. QED
    BY <2>1 DEF NoWalk, Walk
<1>15. "sweeping" \in Kind
  BY DEF Kind
<1>16. /\ Has(m.todo, {"flush"}) = FALSE /\ Has(m.todo, {"screen"}) = FALSE
       /\ Has(m.todo, {"contact"}) = FALSE /\ RecountOf(m) /\ Arriving(m.todo) = {}
       /\ \A t \in Entries(m.todo) : \A a : ~Brings(t, a)
  BY <1>8, <1>9, <1>12, <1>15, KindFacts
<1>17. HandlerOK(m)
  <2>1. TodoOK(m.todo)
    <3>1. Has(m.todo, {"publish"}) = FALSE
      BY <1>9, <1>12 DEF Has
    <3>2. QED
      BY <1>8, <1>9, <1>12, <1>15, <3>1 DEF TodoOK, Published
  <2>2. ReadOK(m)
    BY <1>12 DEF ReadOK, Nothing
  <2>3. BatchOK(m)
    BY <1>6, <1>12, <1>16 DEF BatchOK
  <2>4. WalkOK(m)
    <3>1. Has(m.todo, {"resume", "scan"}) = FALSE
      BY <1>9, <1>12 DEF Has
    <3>2. QED
      BY <1>12, <1>14, <3>1 DEF WalkOK
  <2>5. QED
    BY <1>3, <1>6, <1>12, <2>1, <2>2, <2>3, <2>4 DEF HandlerOK
<1>18. ASSUME ListedInv(q), RulesInv(q) PROVE ListedInv(m) /\ RulesInv(m)
  <2>1. Coming(q) = {} /\ q.todo \in Seq(Entries(q.todo))
    BY <1>3, <1>15, KindFacts DEF TodoOK
  <2>2. Held \subseteq Entries(kv.index)
    BY <1>18, <2>1 DEF ListedInv
  <2>3. Held \cap rules = {}
    BY <1>2, <1>18 DEF ListedInv
  <2>4. \A t \in Entries(tasks) : t.key = "index" => Held \subseteq Entries(t.value)
    BY <1>2, <1>3, <1>8, <1>18, <2>2, WalkStopped
  <2>5. ListedInv(m)
    BY <1>12, <1>14, <1>16, <2>2, <2>4 DEF ListedInv
  <2>6. \A t \in Entries(q.todo) : \A a : ~Drops(t, a)
    <3>1. \A t \in Entries(q.todo) : /\ t.op \notin {"purge", "match", "purgeAttempts"}
                                     /\ ~(t.op = "update" /\ t.key = "attempts")
      BY <1>3, <1>15, OpKinds
    <3>2. QED
      BY <3>1 DEF Drops
  <2>7. RulesInv(m)
    BY <1>16, <1>18, <2>3, <2>6 DEF RulesInv
  <2>8. QED
    BY <2>5, <2>7
<1>19. lossless /\ Cardinality(Address) <= MaxIndex => ListedInv(m) /\ RulesInv(m)
  BY <1>6, <1>18
<1>20. UNCHANGED <<records, kv, overdue, rules, lossless>> /\ clean' = FALSE /\ events' \in Nat
  BY <1>6 DEF SweepThrows
<1>21. /\ clean' \in BOOLEAN /\ (clean' => clean)
       /\ (clean' => Balanced(WithBatch(m, After(m.todo, Now))))
  BY <1>20
<1>22. m.todo # <<>> /\ m.read # Nothing => m.read[1] = kv[Head(m.todo).key]
  BY <1>12 DEF Nothing
<1>23. QED
  BY <1>1, <1>3, <1>12, <1>13, <1>16, <1>17, <1>19, <1>20, <1>21, <1>22, StoresStay

-----------------------------------------------------------------------------
(* Requests begin.                                                         *)
LEMMA Unalone ==
  ASSUME NEW q, HandlerOK(q), NEW m, m = [q EXCEPT !.alone = FALSE]
  PROVE  /\ HandlerOK(m) /\ m.todo = q.todo /\ m.read = q.read /\ m.batch = q.batch
         /\ m.walk = q.walk /\ m.alone = FALSE
<1>1. DOMAIN q = {"todo", "read", "batch", "walk", "alone"}
  BY DEF HandlerOK
<1>2. /\ DOMAIN m = DOMAIN q /\ m.todo = q.todo /\ m.read = q.read /\ m.batch = q.batch
      /\ m.walk = q.walk /\ m.alone = FALSE
  BY <1>1
<1>3. TodoOK(q.todo) /\ ReadOK(q) /\ BatchOK(q) /\ WalkOK(q)
  BY DEF HandlerOK
<1>4. TodoOK(m.todo)
  BY <1>2, <1>3
<1>5. ReadOK(m)
  BY <1>2, <1>3 DEF ReadOK
<1>6. BatchOK(m)
  BY <1>2, <1>3 DEF BatchOK
<1>7. Reached(m) = Reached(q)
  BY <1>2 DEF Reached
<1>8. WalkOK(m)
  BY <1>2, <1>3, <1>7 DEF WalkOK
<1>9. QED
  BY <1>1, <1>2, <1>4, <1>5, <1>6, <1>8 DEF HandlerOK

(* What a request has to do when it begins.                                *)
Opening(t) == t.op \in {"contact", "screen", "forgetHosts", "purge", "sweep", "recount"}

Opened(todo, batch) ==
  /\ todo # <<>> /\ TodoOK(todo) /\ \A t \in Entries(todo) : Opening(t)
  /\ \/ batch = NoBatch /\ \A t \in Entries(todo) : t.op # "screen"
     \/ batch = OpenBatch /\ \A t \in Entries(todo) : t.op = "screen"

Begun(todo, batch, m) ==
  /\ DOMAIN m = {"todo", "read", "batch", "walk", "alone"}
  /\ m.todo = todo /\ m.read = <<>> /\ m.batch = batch /\ m.walk = NoWalk
  /\ m.alone \in BOOLEAN /\ (m.alone <=> Active = {})

(* A request that begins is typed and has changed nothing.                 *)
LEMMA BegunFacts ==
  ASSUME NEW todo, NEW batch, Opened(todo, batch), NEW m, Begun(todo, batch, m)
  PROVE  /\ HandlerOK(m) /\ RecountOf(m)'
         /\ \A s : WithBatch(m, After(m.todo, s)) = s
         /\ Held' \subseteq Entries(kv'.index) => ListedInv(m)'
<1>1. /\ m.todo = todo /\ m.read = <<>> /\ m.batch = batch /\ m.walk = NoWalk
      /\ m.alone \in BOOLEAN /\ DOMAIN m = {"todo", "read", "batch", "walk", "alone"}
  BY DEF Begun
<1>2. /\ TodoOK(todo) /\ todo # <<>>
      /\ \A t \in Entries(todo) : t.op \in {"contact", "screen", "forgetHosts", "purge", "sweep", "recount"}
      /\ \/ batch = NoBatch /\ \A t \in Entries(todo) : t.op # "screen"
         \/ batch = OpenBatch /\ \A t \in Entries(todo) : t.op = "screen"
  BY DEF Opened, Opening
<1>3. /\ ~Has(todo, {"flush"}) /\ Has(todo, {"resume", "scan"}) = FALSE
      /\ Has(todo, {"screen"}) => batch = OpenBatch
      /\ Has(todo, {"contact"}) => batch = NoBatch
  BY <1>2 DEF Has
<1>4. /\ NoBatch \in Batch /\ NoBatch.corpus = 0 /\ NoBatch.open = FALSE
      /\ OpenBatch \in Batch /\ OpenBatch.corpus = 0
      /\ NoBatch.geo = NoDelta /\ OpenBatch.geo = NoDelta /\ NoWalk \in Walk /\ NoWalk.on = FALSE
  <2>1. <<>> \in Index
    BY DEF Index
  <2>2. /\ NoBatch \in Batch /\ NoBatch.corpus = 0 /\ NoBatch.open = FALSE
        /\ NoBatch.geo = NoDelta
    BY <2>1, NoDeltaType DEF NoBatch, Batch
  <2>3. OpenBatch \in Batch /\ OpenBatch.corpus = 0 /\ OpenBatch.geo = NoDelta
    BY <2>2 DEF OpenBatch, Batch
  <2>4. NoWalk \in Walk /\ NoWalk.on = FALSE
    BY <2>1 DEF NoWalk, Walk
  <2>5. QED
    BY <2>2, <2>3, <2>4
<1>5. HandlerOK(m)
  <2>1. ReadOK(m)
    BY <1>1 DEF ReadOK, Nothing
  <2>2. BatchOK(m)
    <3>1. batch \in Batch /\ batch.corpus = 0 /\ batch.geo = NoDelta
      BY <1>2, <1>4
    <3>2. QED
      BY <1>1, <1>3, <1>4, <3>1 DEF BatchOK
  <2>3. WalkOK(m)
    BY <1>1, <1>3, <1>4 DEF WalkOK
  <2>4. QED
    BY <1>1, <1>2, <2>1, <2>2, <2>3 DEF HandlerOK
<1>6. RecountOf(m)'
  <2>1. m.todo # <<>> => Head(m.todo).op # "publish"
    BY <1>1, <1>2, TodoFacts
  <2>2. \A t \in Entries(m.todo) : t.op \notin {"compare", "page", "publish"}
    BY <1>1, <1>2
  <2>3. QED
    BY <2>1, <2>2 DEF RecountOf
<1>7. ASSUME NEW s PROVE WithBatch(m, After(m.todo, s)) = s
  <2>1. \A t \in Entries(m.todo) : ~Loud(t)
    BY <1>1, <1>2 DEF Loud
  <2>2. After(m.todo, s) = s
    BY <2>1, AfterQuiet
  <2>3. QED
    BY <1>1, <1>3, <2>2 DEF WithBatch
<1>8. ASSUME Held' \subseteq Entries(kv'.index) PROVE ListedInv(m)'
  <2>1. Arriving(m.todo) = {}
    BY <1>1, <1>2 DEF Arriving
  <2>2. \A t \in Entries(m.todo) : t.op # "set"
    BY <1>1, <1>2
  <2>3. QED
    BY <1>1, <1>4, <1>8, <2>1, <2>2 DEF ListedInv
<1>9. QED
  BY <1>5, <1>6, <1>7, <1>8

(* A request that begins keeps the invariant.                              *)
LEMMA BeginHolds ==
  ASSUME CorpusInv, NEW p \in Request, NEW todo, NEW batch, Begin(p, todo, batch),
         Opened(todo, batch),
         UNCHANGED <<records, kv, overdue>>, events' \in Nat, rules' \subseteq Ruled,
         \A a \in rules', t \in Entries(todo) : ~Brings(t, a),
         rules' = rules \/ \E t \in Entries(todo) : t.op = "purge"
  PROVE  CorpusInv'
<1>1. /\ records \in [Address -> Record \cup {NoRecord}] /\ kv \in Store /\ overdue \subseteq Held
      /\ DOMAIN requests = Request /\ clean \in BOOLEAN /\ lossless \in BOOLEAN
      /\ \A r \in Request : HandlerOK(requests[r])
  BY DEF CorpusInv, TypeOK
<1>2. PICK m : m = [Idle EXCEPT !.todo = todo, !.batch = batch, !.alone = (Active = {})]
  BY Zenon
<1>3. Begun(todo, batch, m)
  BY <1>2 DEF Begun, Idle, Nothing
<1>4. /\ m.todo = todo /\ m.read = <<>> /\ todo # <<>>
      /\ m.alone \in BOOLEAN /\ (m.alone <=> Active = {})
  BY <1>3 DEF Begun, Opened
<1>5. /\ HandlerOK(m) /\ RecountOf(m)'
      /\ \A s : WithBatch(m, After(m.todo, s)) = s
      /\ Held' \subseteq Entries(kv'.index) => ListedInv(m)'
  BY <1>3, BegunFacts
<1>6. /\ requests'[p] = m /\ DOMAIN requests' = Request
      /\ \A r \in Request : r # p => requests'[r] = [requests[r] EXCEPT !.alone = FALSE]
      /\ p \notin Active
  BY <1>2, Zenon DEF Begin
<1>7. /\ clean' \in BOOLEAN /\ lossless' \in BOOLEAN
      /\ clean' => clean /\ Active = {}
      /\ lossless' => lossless /\ Active = {}
  BY <1>1, Zenon DEF Begin
<1>8. \A r \in Request : r # p =>
        /\ HandlerOK(requests'[r]) /\ requests'[r].todo = requests[r].todo
        /\ requests'[r].alone = FALSE
  <2>1. SUFFICES ASSUME NEW r \in Request, r # p
                 PROVE  /\ HandlerOK(requests'[r]) /\ requests'[r].todo = requests[r].todo
                        /\ requests'[r].alone = FALSE
    OBVIOUS
  <2>2. PICK q, u : q = requests[r] /\ u = requests'[r]
    OBVIOUS
  <2>3. HandlerOK(q) /\ u = [q EXCEPT !.alone = FALSE]
    BY <1>1, <1>6, <2>1, <2>2
  <2>4. HandlerOK(u) /\ u.todo = q.todo /\ u.alone = FALSE
    BY <2>3, Unalone
  <2>5. QED
    BY <2>2, <2>4
<1>9. Held' = Held /\ Now' = Now /\ records' = records /\ kv' = kv
  BY DEF Held, Now
<1>10. TypeOK'
  <2>1. \A r \in Request : HandlerOK(requests'[r])
    BY <1>5, <1>6, <1>8
  <2>2. overdue' \subseteq Held'
    BY <1>1, <1>9
  <2>3. QED
    BY <1>1, <1>6, <1>7, <1>9, <2>1, <2>2 DEF TypeOK
<1>11. Active' = Active \cup {p}
  BY <1>4, <1>6, <1>8 DEF Active
<1>12. ASSUME NEW r \in Active', Undisturbed(r)'
       PROVE  r = p /\ requests'[r] = m /\ Active' = {p} /\ Active = {}
  <2>1. r \in Request
    BY DEF Active
  <2>2. lossless' \/ requests'[r].alone
    BY <1>12 DEF Undisturbed
  <2>3. Active = {}
    <3>1. CASE lossless'
      BY <1>7, <3>1
    <3>2. CASE requests'[r].alone
      <4>1. r = p
        BY <1>8, <2>1, <3>2
      <4>2. QED
        BY <1>4, <1>6, <3>2, <4>1
    <3>3. QED
      BY <2>2, <3>1, <3>2
  <2>4. QED
    BY <1>6, <1>11, <1>12, <2>3
<1>13. AloneInv'
  <2>1. clean' => \A r \in Active' : requests'[r].alone
    BY <1>4, <1>6, <1>7, <1>11
  <2>2. \A r \in Active' : Undisturbed(r)' =>
         /\ Active' = {r}
         /\ requests'[r].read # Nothing => requests'[r].read[1] = kv'[Head1(r)'.key]
    BY <1>4, <1>12 DEF Nothing
  <2>3. QED
    BY <2>1, <2>2 DEF AloneInv
<1>14. BalanceInv'
  <2>1. SUFFICES ASSUME clean'
                 PROVE  /\ \A a \in Address : records'[a].marker # "legacy"
                        /\ Active' = {} => Balanced(Now)'
                        /\ \A r \in Active' :
                             Balanced(WithBatch(requests[r], After(requests[r].todo, Now)))'
    BY DEF BalanceInv
  <2>2. /\ \A a \in Address : records[a].marker # "legacy"
        /\ Balanced(Now)
    BY <1>7, <2>1 DEF CorpusInv, BalanceInv
  <2>3. Active' = {p} /\ requests'[p] = m
    BY <1>6, <1>7, <1>11, <2>1
  <2>4. WithBatch(m, After(m.todo, Now')) = Now'
    BY <1>5
  <2>5. Balanced(WithBatch(m, After(m.todo, Now')))
    BY <1>9, <2>2, <2>4
  <2>6. QED
    BY <1>9, <2>2, <2>3, <2>5
<1>15. RecountInv'
  <2>1. SUFFICES ASSUME NEW r \in Active', requests'[r].alone PROVE RecountOf(requests[r])'
    BY DEF RecountInv
  <2>2. requests'[r] = m
    BY <1>12, <2>1 DEF Undisturbed
  <2>3. QED
    BY <1>5, <2>2
<1>16. LosslessInv'
  <2>1. SUFFICES ASSUME lossless', Cardinality(Address) <= MaxIndex
                 PROVE  /\ Active' = {} => /\ Held' \subseteq Entries(kv'.index)
                                           /\ (Held' \cup kv'.attempts) \cap rules' = {}
                        /\ \A r \in Active' : ListedInv(requests[r])' /\ RulesInv(requests[r])'
    BY DEF LosslessInv
  <2>2. /\ Held \subseteq Entries(kv.index) /\ (Held \cup kv.attempts) \cap rules = {}
    BY <1>7, <2>1 DEF CorpusInv, LosslessInv
  <2>3. Active' = {p} /\ requests'[p] = m
    BY <1>6, <1>7, <1>11, <2>1
  <2>4. ListedInv(m)'
    BY <1>5, <1>9, <2>2
  <2>5. RulesInv(m)'
    <3>1. CASE rules' = rules
      BY <1>4, <1>9, <2>2, <3>1 DEF RulesInv
    <3>2. CASE \E t \in Entries(todo) : t.op = "purge"
      <4>1. \A a : (\E t \in Entries(m.todo) : Removes(t, a)) /\ (\E t \in Entries(m.todo) : Drops(t, a))
        BY <1>4, <3>2 DEF Removes, Drops
      <4>2. QED
        BY <1>4, <4>1 DEF RulesInv
    <3>3. QED
      BY <3>1, <3>2
  <2>6. QED
    BY <2>3, <2>4, <2>5
<1>17. QED
  BY <1>10, <1>13, <1>14, <1>15, <1>16 DEF CorpusInv

(* One task to begin with is in order.                                     *)
LEMMA OneOpened ==
  ASSUME NEW kind \in Kind, NEW t, Fits(kind, t), Opening(t), NEW batch,
         (batch = NoBatch /\ t.op # "screen") \/ (batch = OpenBatch /\ t.op = "screen")
  PROVE  Opened(<<t>>, batch) /\ Entries(<<t>>) = {t}
<1>1. /\ <<t>> \in Seq(Entries(<<t>>)) /\ Entries(<<t>>) = {t} /\ InOrder(<<t>>) /\ <<t>> # <<>>
  BY OneTask, Written
<1>2. Front(<<t>>)
  <2>1. ~Loud(t)
    BY DEF Opening, Loud
  <2>2. QED
    BY <1>1, <2>1 DEF Front, Entries
<1>3. Has(<<t>>, {"publish"}) = FALSE
  BY <1>1 DEF Has, Opening
<1>4. TodoOK(<<t>>)
  BY <1>1, <1>2, <1>3 DEF TodoOK, Published
<1>5. QED
  BY <1>1, <1>4 DEF Opened

(* A request of a caller that touches no rule.                             *)
LEMMA CallHolds ==
  ASSUME CorpusInv, NEW p \in Request, NEW kind \in Kind, NEW t, NEW batch,
         Fits(kind, t), Opening(t),
         (batch = NoBatch /\ t.op # "screen") \/ (batch = OpenBatch /\ t.op = "screen"),
         Call(p, <<t>>, batch), rules' \subseteq Ruled,
         \A a \in rules' : ~Brings(t, a),
         rules' = rules \/ t.op = "purge"
  PROVE  CorpusInv'
<1>1. Opened(<<t>>, batch) /\ Entries(<<t>>) = {t}
  BY OneOpened
<1>2. events \in Nat
  BY DEF CorpusInv, TypeOK
<1>3. Begin(p, <<t>>, batch) /\ UNCHANGED <<records, kv, overdue>> /\ events' \in Nat
  BY <1>2 DEF Call
<1>4. \A a \in rules', u \in Entries(<<t>>) : ~Brings(u, a)
  BY <1>1
<1>5. rules' = rules \/ \E u \in Entries(<<t>>) : u.op = "purge"
  BY <1>1
<1>6. QED
  BY <1>1, <1>3, <1>4, <1>5, BeginHolds

(* A caller begins a request.                                              *)
LEMMA StartHolds ==
  ASSUME CorpusInv, NEW p \in Client, Start(p) PROVE CorpusInv'
<1>1. p \in Request /\ rules \subseteq Ruled
  BY DEF Request, CorpusInv, TypeOK
<1>2. CASE StartCheck(p)
  <2>1. PICK a \in Address \ rules :
          Call(p, <<Touch([a |-> a, label |-> Unlabelled, answered |-> TRUE])>>, NoBatch)
    BY <1>2 DEF StartCheck
  <2>2. PICK c : c = [a |-> a, label |-> Unlabelled, answered |-> TRUE]
    OBVIOUS
  <2>3. c \in Contact /\ c.a = a
    BY <2>1, <2>2, KvAssumption DEF Contact
  <2>4. PICK t : t = Touch(c)
    OBVIOUS
  <2>5. t.op = "contact" /\ t.contact = c
    BY <2>4 DEF Touch
  <2>6. "recording" \in Kind /\ Fits("recording", t) /\ Opening(t)
    BY <2>3, <2>5 DEF Kind, Fits, Recording, Opening
  <2>7. rules' = rules /\ rules' \subseteq Ruled
    BY <1>1, <1>2 DEF StartCheck
  <2>8. \A b \in rules' : ~Brings(t, b)
    BY <2>1, <2>3, <2>5, <2>7 DEF Brings
  <2>9. QED
    BY <1>1, <2>1, <2>2, <2>4, <2>5, <2>6, <2>7, <2>8, CallHolds
<1>3. CASE StartIngest(p)
  <2>1. PICK given \in Contacts : Call(p, <<[op |-> "screen", batch |-> given]>>, OpenBatch)
    BY <1>3 DEF StartIngest
  <2>2. PICK t : t = [op |-> "screen", batch |-> given]
    OBVIOUS
  <2>3. t.op = "screen" /\ t.batch \in Seq(Contact)
    BY <2>1, <2>2, KvAssumption
  <2>4. "recording" \in Kind /\ Fits("recording", t) /\ Opening(t)
    BY <2>3 DEF Kind, Fits, Recording, Opening
  <2>5. rules' = rules /\ rules' \subseteq Ruled
    BY <1>1, <1>3 DEF StartIngest
  <2>6. \A b \in rules' : ~Brings(t, b)
    BY <2>3 DEF Brings
  <2>7. QED
    BY <1>1, <2>1, <2>2, <2>3, <2>4, <2>5, <2>6, CallHolds
<1>4. CASE StartRetire(p)
  <2>1. PICK a \in Address : Call(p, <<[op |-> "forgetHosts", ips |-> <<a>>]>>, NoBatch)
    BY <1>4 DEF StartRetire
  <2>2. PICK t : t = [op |-> "forgetHosts", ips |-> <<a>>]
    OBVIOUS
  <2>3. t.op = "forgetHosts" /\ t.ips \in Index
    BY <2>1, <2>2, OneHost
  <2>4. "forgetting" \in Kind /\ Fits("forgetting", t) /\ Opening(t)
    BY <2>3 DEF Kind, Fits, Forgetting, Opening
  <2>5. rules' = rules /\ rules' \subseteq Ruled
    BY <1>1, <1>4 DEF StartRetire
  <2>6. \A b \in rules' : ~Brings(t, b)
    BY <2>3 DEF Brings
  <2>7. QED
    BY <1>1, <2>1, <2>2, <2>3, <2>4, <2>5, <2>6, CallHolds
<1>5. CASE StartPurge(p)
  <2>1. PICK a \in Ruled : Call(p, <<Do("purge")>>, NoBatch) /\ rules' = rules \cup {a}
    BY <1>5 DEF StartPurge
  <2>2. PICK t : t = Do("purge")
    OBVIOUS
  <2>3. t.op = "purge"
    BY <2>2 DEF Do
  <2>4. "forgetting" \in Kind /\ Fits("forgetting", t) /\ Opening(t)
    BY <2>3 DEF Kind, Fits, Forgetting, Opening
  <2>5. rules' \subseteq Ruled
    BY <1>1, <2>1
  <2>6. \A b \in rules' : ~Brings(t, b)
    BY <2>3 DEF Brings
  <2>7. QED
    BY <1>1, <2>1, <2>2, <2>3, <2>4, <2>5, <2>6, CallHolds
<1>6. CASE StartSweep(p)
  <2>1. PICK t : t = Do("sweep")
    OBVIOUS
  <2>2. t.op = "sweep"
    BY <2>1 DEF Do
  <2>3. "sweeping" \in Kind /\ Fits("sweeping", t) /\ Opening(t)
    BY <2>2 DEF Kind, Fits, Sweeping, Opening
  <2>4. Call(p, <<t>>, NoBatch) /\ rules' = rules /\ rules' \subseteq Ruled
    BY <1>1, <1>6, <2>1 DEF StartSweep
  <2>5. \A b \in rules' : ~Brings(t, b)
    BY <2>2 DEF Brings
  <2>6. QED
    BY <1>1, <2>2, <2>3, <2>4, <2>5, CallHolds
<1>7. CASE StartReconcile(p)
  <2>1. PICK t : t = [op |-> "recount", limit |-> AdminPage]
    OBVIOUS
  <2>2. t.op = "recount" /\ t.limit \in Nat \ {0}
    BY <2>1, KvAssumption
  <2>3. "recounting" \in Kind /\ Fits("recounting", t) /\ Opening(t)
    BY <2>2 DEF Kind, Fits, Recounting, Opening
  <2>4. Call(p, <<t>>, NoBatch) /\ rules' = rules /\ rules' \subseteq Ruled
    BY <1>1, <1>7, <2>1 DEF StartReconcile
  <2>5. \A b \in rules' : ~Brings(t, b)
    BY <2>2 DEF Brings
  <2>6. QED
    BY <1>1, <2>2, <2>3, <2>4, <2>5, CallHolds
<1>8. QED
  BY <1>2, <1>3, <1>4, <1>5, <1>6, <1>7 DEF Start

(* The cron begins a sweep.                                                *)
LEMMA ScheduledHolds ==
  ASSUME CorpusInv, Scheduled PROVE CorpusInv'
<1>1. PICK sweep, recount : /\ sweep = Do("sweep")
                            /\ recount = [op |-> "recount", limit |-> PageSize]
  OBVIOUS
<1>2. sweep.op = "sweep" /\ recount.op = "recount" /\ recount.limit \in Nat \ {0}
  BY <1>1, KvAssumption DEF Do
<1>3. PICK todo : todo = <<sweep, recount>>
  OBVIOUS
<1>4. /\ todo \in Seq(Entries(todo)) /\ todo # <<>> /\ Entries(todo) = {sweep, recount}
  BY <1>3, Written
<1>5. "sweeping" \in Kind /\ \A t \in Entries(todo) : Fits("sweeping", t) /\ Opening(t) /\ ~Loud(t)
  BY <1>2, <1>4 DEF Kind, Fits, Sweeping, Opening, Loud
<1>6. InOrder(todo)
  <2>1. /\ <<sweep>> \in Seq(Entries(<<sweep>>)) /\ Entries(<<sweep>>) = {sweep} /\ InOrder(<<sweep>>)
        /\ <<recount>> \in Seq(Entries(<<recount>>)) /\ Entries(<<recount>>) = {recount}
        /\ InOrder(<<recount>>)
    BY OneTask
  <2>2. MayPrecede(sweep, recount)
    BY <1>2 DEF MayPrecede, Loud
  <2>3. InOrder(<<sweep>> \o <<recount>>)
    BY <2>1, <2>2, OrderJoined
  <2>4. QED
    BY <1>3, <2>3, TwoJoined
<1>7. Front(todo)
  BY <1>5 DEF Front, Entries
<1>8. Has(todo, {"publish"}) = FALSE
  BY <1>2, <1>4 DEF Has
<1>9. TodoOK(todo)
  BY <1>4, <1>5, <1>6, <1>7, <1>8 DEF TodoOK, Published
<1>10. Opened(todo, NoBatch)
  BY <1>2, <1>4, <1>5, <1>9 DEF Opened
<1>11. Begin(Cron, todo, NoBatch) /\ UNCHANGED <<records, kv, overdue, rules, events>>
  BY <1>1, <1>3 DEF Scheduled
<1>12. Cron \in Request /\ rules \subseteq Ruled /\ events \in Nat
  BY DEF Request, CorpusInv, TypeOK
<1>13. \A a \in rules', t \in Entries(todo) : ~Brings(t, a)
  BY <1>2, <1>4 DEF Brings
<1>14. QED
  BY <1>10, <1>11, <1>12, <1>13, BeginHolds

-----------------------------------------------------------------------------
(* A request breaks off, time passes, KV expires a record.                 *)
LEMMA BreaksOffHolds ==
  ASSUME CorpusInv, NEW p \in Request, BreaksOff(p) PROVE CorpusInv'
<1>1. /\ records \in [Address -> Record \cup {NoRecord}] /\ kv \in Store /\ overdue \subseteq Held
      /\ rules \subseteq Ruled /\ events \in Nat
      /\ DOMAIN requests = Request /\ \A r \in Request : HandlerOK(requests[r])
  BY DEF CorpusInv, TypeOK
<1>2. /\ p \in Active /\ requests' = [requests EXCEPT ![p] = Idle]
      /\ events' \in Nat /\ clean' = FALSE /\ lossless' = FALSE
      /\ records' = records /\ kv' = kv /\ overdue' = overdue /\ rules' = rules
  BY <1>1 DEF BreaksOff
<1>3. /\ DOMAIN requests' = Request /\ requests'[p] = Idle
      /\ \A r \in Request : r # p => requests'[r] = requests[r]
  BY <1>1, <1>2
<1>4. Held' = Held
  BY <1>2 DEF Held
<1>5. TypeOK'
  <2>1. \A r \in Request : HandlerOK(requests'[r])
    BY <1>1, <1>3, IdleOK
  <2>2. QED
    BY <1>1, <1>2, <1>3, <1>4, <2>1 DEF TypeOK
<1>6. \A r \in Active' : r \in Active /\ r # p /\ requests'[r] = requests[r]
  BY <1>3, IdleOK DEF Active
<1>7. \A r \in Active' : ~requests'[r].alone
  BY <1>2, <1>6 DEF CorpusInv, AloneInv, Undisturbed
<1>8. AloneInv'
  BY <1>2, <1>7 DEF AloneInv, Undisturbed
<1>9. BalanceInv'
  BY <1>2 DEF BalanceInv
<1>10. RecountInv'
  BY <1>7 DEF RecountInv
<1>11. LosslessInv'
  BY <1>2 DEF LosslessInv
<1>12. QED
  BY <1>5, <1>8, <1>9, <1>10, <1>11 DEF CorpusInv

(* Nothing but the clock moves, or nothing at all.                         *)
LEMMA StillHolds ==
  ASSUME CorpusInv, UNCHANGED <<records, kv, rules, requests, events, clean, lossless>>,
         overdue' \subseteq Held
  PROVE  CorpusInv'
<1>1. /\ records' = records /\ kv' = kv /\ rules' = rules /\ requests' = requests
      /\ events' = events /\ clean' = clean /\ lossless' = lossless
  OBVIOUS
<1>2. Held' = Held /\ Active' = Active
  BY <1>1 DEF Held, Active
<1>3. Listed' = Listed /\ Now' = Now
  BY <1>1, <1>2 DEF Listed, Now
<1>4. TypeOK'
  BY <1>1, <1>2 DEF CorpusInv, TypeOK
<1>5. AloneInv'
  BY <1>1, <1>2 DEF CorpusInv, AloneInv, Undisturbed, Head1
<1>6. BalanceInv'
  <2>1. Balanced(Now)' <=> Balanced(Now)
    BY <1>3 DEF Balanced
  <2>2. \A q : Balanced(WithBatch(q, After(q.todo, Now)))' <=> Balanced(WithBatch(q, After(q.todo, Now)))
    BY <1>3 DEF Balanced
  <2>3. QED
    BY <1>1, <1>2, <2>1, <2>2 DEF CorpusInv, BalanceInv
<1>7. RecountInv'
  <2>1. \A q : RecountOf(q) => RecountOf(q)'
    BY <1>1, <1>3 DEF RecountOf, Tally
  <2>2. QED
    BY <1>1, <1>2, <2>1 DEF CorpusInv, RecountInv
<1>8. LosslessInv'
  <2>1. \A q : ListedInv(q) => ListedInv(q)'
    BY <1>1, <1>2 DEF ListedInv
  <2>2. \A q : RulesInv(q) => RulesInv(q)'
    BY <1>1, <1>2 DEF RulesInv
  <2>3. QED
    BY <1>1, <1>2, <2>1, <2>2 DEF CorpusInv, LosslessInv
<1>9. QED
  BY <1>4, <1>5, <1>6, <1>7, <1>8 DEF CorpusInv

(* A host goes silent: its record may be overdue.                          *)
LEMMA SilentHolds ==
  ASSUME CorpusInv, NEW a \in Address, Silent(a) PROVE CorpusInv'
<1>1. overdue \subseteq Held
  BY DEF CorpusInv, TypeOK
<1>2. /\ overdue' \subseteq Held
      /\ UNCHANGED <<records, kv, rules, requests, events, clean, lossless>>
  BY <1>1 DEF Silent
<1>3. QED
  BY <1>2, StillHolds

(* A step that changes nothing keeps the invariant.                        *)
LEMMA StutterHolds ==
  ASSUME CorpusInv, UNCHANGED vars PROVE CorpusInv'
<1>1. overdue \subseteq Held
  BY DEF CorpusInv, TypeOK
<1>2. /\ overdue' \subseteq Held
      /\ UNCHANGED <<records, kv, rules, requests, events, clean, lossless>>
  BY <1>1 DEF vars
<1>3. QED
  BY <1>2, StillHolds

(* KV expires a record that is overdue: only its own host is no longer held. *)
LEMMA ExpireHolds ==
  ASSUME CorpusInv, NEW a \in Address, Expire(a) PROVE CorpusInv'
<1>1. /\ records \in [Address -> Record \cup {NoRecord}] /\ kv \in Store /\ overdue \subseteq Held
      /\ rules \subseteq Ruled /\ events \in Nat /\ lossless \in BOOLEAN
      /\ DOMAIN requests = Request /\ \A r \in Request : HandlerOK(requests[r])
  BY DEF CorpusInv, TypeOK
<1>2. /\ records' = [records EXCEPT ![a] = NoRecord] /\ overdue' = overdue \ {a}
      /\ requests' = [q \in Request |-> [requests[q] EXCEPT !.alone = FALSE]]
      /\ clean' = FALSE
      /\ kv' = kv /\ rules' = rules /\ events' = events /\ lossless' = lossless
  BY DEF Expire
<1>3. Held' = Held \ {a} /\ records' \in [Address -> Record \cup {NoRecord}]
  BY <1>1, <1>2 DEF Held
<1>4. ASSUME NEW r \in Request
      PROVE  /\ HandlerOK(requests'[r]) /\ requests'[r].alone = FALSE
             /\ requests'[r].todo = requests[r].todo /\ requests'[r].read = requests[r].read
             /\ requests'[r].batch = requests[r].batch /\ requests'[r].walk = requests[r].walk
  <2>1. PICK q, u : q = requests[r] /\ u = requests'[r]
    OBVIOUS
  <2>2. HandlerOK(q) /\ u = [q EXCEPT !.alone = FALSE]
    BY <1>1, <1>2, <2>1
  <2>3. /\ HandlerOK(u) /\ u.todo = q.todo /\ u.read = q.read /\ u.batch = q.batch
        /\ u.walk = q.walk /\ u.alone = FALSE
    BY <2>2, Unalone
  <2>4. QED
    BY <2>1, <2>3
<1>5. Active' = Active
  BY <1>4 DEF Active
<1>6. TypeOK'
  <2>1. DOMAIN requests' = Request
    BY <1>2
  <2>2. overdue' \subseteq Held'
    BY <1>1, <1>2, <1>3
  <2>3. clean' \in BOOLEAN
    BY <1>2
  <2>4. QED
    BY <1>1, <1>2, <1>3, <1>4, <2>1, <2>2, <2>3 DEF TypeOK
<1>7. AloneInv'
  <2>1. ASSUME NEW r \in Active', Undisturbed(r)'
        PROVE  /\ Active' = {r}
               /\ requests'[r].read # Nothing => requests'[r].read[1] = kv'[Head1(r)'.key]
    <3>1. r \in Active /\ r \in Request
      BY <1>5, <2>1 DEF Active
    <3>2. lossless
      BY <1>2, <1>4, <2>1, <3>1 DEF Undisturbed
    <3>3. /\ Active = {r}
          /\ requests[r].read # Nothing => requests[r].read[1] = kv[Head1(r).key]
      BY <3>1, <3>2 DEF CorpusInv, AloneInv, Undisturbed
    <3>4. Head1(r)' = Head1(r)
      BY <1>4, <3>1 DEF Head1
    <3>5. QED
      BY <1>2, <1>4, <1>5, <3>1, <3>3, <3>4
  <2>2. QED
    BY <1>2, <2>1 DEF AloneInv
<1>8. BalanceInv'
  BY <1>2 DEF BalanceInv
<1>9. RecountInv'
  <2>1. \A r \in Active' : ~requests'[r].alone
    BY <1>4 DEF Active
  <2>2. QED
    BY <2>1 DEF RecountInv
<1>10. LosslessInv'
  <2>1. SUFFICES ASSUME lossless, Cardinality(Address) <= MaxIndex
                 PROVE  /\ Active' = {} => /\ Held' \subseteq Entries(kv'.index)
                                           /\ (Held' \cup kv'.attempts) \cap rules' = {}
                        /\ \A r \in Active' : ListedInv(requests[r])' /\ RulesInv(requests[r])'
    BY <1>2 DEF LosslessInv
  <2>2. Active = {} => Held \subseteq Entries(kv.index) /\ (Held \cup kv.attempts) \cap rules = {}
    BY <2>1 DEF CorpusInv, LosslessInv
  <2>3. ASSUME NEW r \in Active PROVE ListedInv(requests[r])' /\ RulesInv(requests[r])'
    <3>1. PICK q, m : q = requests[r] /\ m = requests'[r]
      OBVIOUS
    <3>2. ListedInv(q) /\ RulesInv(q)
      BY <2>1, <2>3, <3>1 DEF CorpusInv, LosslessInv
    <3>3. m.todo = q.todo /\ m.batch = q.batch /\ m.walk = q.walk
      BY <1>4, <2>3, <3>1 DEF Active
    <3>4. ListedInv(m) /\ RulesInv(m)
      BY <3>2, <3>3, SameWork
    <3>5. ListedInv(m)'
      BY <1>2, <1>3, <3>4 DEF ListedInv
    <3>6. RulesInv(m)'
      BY <1>2, <1>3, <3>4 DEF RulesInv
    <3>7. QED
      BY <3>1, <3>5, <3>6
  <2>4. QED
    BY <1>2, <1>3, <1>5, <2>2, <2>3
<1>11. QED
  BY <1>6, <1>7, <1>8, <1>9, <1>10 DEF CorpusInv

-----------------------------------------------------------------------------
(* What there was before: hosts that were recorded without markers.        *)
LEMMA FirstIndex ==
  ASSUME NEW L \in SUBSET Address, NEW s \in [1..Cardinality(L) -> L], Entries(s) = L
  PROVE  s \in Index /\ Cardinality(L) \in Nat
<1>1. IsFiniteSet(L) /\ Cardinality(L) \in Nat
  BY Finite
<1>2. PICK n : n = Cardinality(L) /\ n \in Nat
  BY <1>1
<1>3. IsFiniteSet(1..n) /\ Cardinality(1..n) = n
  BY <1>2, FS_Interval
<1>4. s \in Seq(Address)
  BY <1>2, SeqDef
<1>5. \A i, j \in DOMAIN s : s[i] = s[j] => i = j
  <2>1. s \in Surjection(1..n, L)
    BY <1>2 DEF Surjection, Entries
  <2>2. s \in Injection(1..n, L)
    BY <1>1, <1>2, <1>3, <2>1, FS_SurjSameCardinalityImpliesInj
  <2>3. QED
    BY <1>2, <2>2 DEF Injection, IsInjective
<1>6. QED
  BY <1>1, <1>4, <1>5 DEF Index

(* The invariant holds to begin with.                                      *)
LEMMA InitHolds ==
  ASSUME Init PROVE CorpusInv
<1>1. PICK L \in SUBSET Legacy :
        /\ records = [a \in Address |-> IF a \in L
                                       THEN [label |-> Unlabelled, marker |-> "legacy"]
                                       ELSE NoRecord]
        /\ \E s \in [1..Cardinality(L) -> L] : \E ready \in BOOLEAN :
             /\ Entries(s) = L
             /\ kv = [index |-> s, geo |-> One(Unlabelled, Cardinality(L)), corpus |-> 0,
                      cursor |-> NoAddress, staged |-> NoStaged, attempts |-> L,
                      ready |-> ready]
        /\ clean = (L = {})
        /\ events = Cardinality(L)
  BY DEF Init
<1>2. PICK s \in [1..Cardinality(L) -> L], ready \in BOOLEAN :
        /\ Entries(s) = L
        /\ kv = [index |-> s, geo |-> One(Unlabelled, Cardinality(L)), corpus |-> 0,
                 cursor |-> NoAddress, staged |-> NoStaged, attempts |-> L,
                 ready |-> ready]
  BY <1>1
<1>3. /\ overdue = {} /\ rules = {} /\ lossless = TRUE
      /\ requests = [p \in Request |-> Idle]
  BY DEF Init
<1>4. L \subseteq Address
  BY KvAssumption
<1>5. s \in Index /\ Cardinality(L) \in Nat
  BY <1>2, <1>4, FirstIndex
<1>6. /\ \A a \in L : records[a] = [label |-> Unlabelled, marker |-> "legacy"]
      /\ \A a \in Address \ L : records[a] = NoRecord
      /\ DOMAIN records = Address
  BY <1>1, <1>4
<1>7. records \in [Address -> Record \cup {NoRecord}]
  <2>1. [label |-> Unlabelled, marker |-> "legacy"] \in Record
    BY KvAssumption DEF Record
  <2>2. QED
    BY <1>1, <2>1
<1>8. Held = L
  <2>1. NoRecord.marker = "absent"
    BY DEF NoRecord
  <2>2. \A a \in L : records[a].marker = "legacy"
    BY <1>6
  <2>3. QED
    BY <1>4, <1>6, <2>1, <2>2 DEF Held
<1>9. kv \in Store /\ kv.index = s /\ kv.attempts = L
      /\ kv.geo = One(Unlabelled, Cardinality(L)) /\ kv.corpus = 0
  <2>1. One(Unlabelled, Cardinality(L)) \in [Label -> Nat]
    <3>1. /\ One(Unlabelled, Cardinality(L)) \in [Label -> Int]
          /\ \A k \in Label : One(Unlabelled, Cardinality(L))[k] =
                                IF k = Unlabelled THEN Cardinality(L) ELSE 0
      <4>1. PICK n \in Int : n = Cardinality(L)
        BY <1>5
      <4>2. Unlabelled \in Label
        BY KvAssumption
      <4>3. /\ One(Unlabelled, n) \in [Label -> Int]
            /\ \A k \in Label : One(Unlabelled, n)[k] = IF k = Unlabelled THEN n ELSE 0
        BY <4>2, OneType
      <4>4. QED
        BY <4>1, <4>3
    <3>2. \A k \in Label : One(Unlabelled, Cardinality(L))[k] \in Nat
      BY <1>5, <3>1
    <3>3. QED
      BY <3>1, <3>2
  <2>2. NoStaged \in Staged
    BY <1>5, FreshStaged
  <2>3. QED
    BY <1>2, <1>4, <1>5, <2>1, <2>2 DEF Store
<1>10. Active = {}
  BY <1>3, IdleOK DEF Active
<1>11. TypeOK
  <2>1. events \in Nat /\ clean \in BOOLEAN /\ lossless \in BOOLEAN
    BY <1>1, <1>3, <1>5
  <2>2. DOMAIN requests = Request /\ \A p \in Request : HandlerOK(requests[p])
    BY <1>3, IdleOK
  <2>3. QED
    BY <1>3, <1>7, <1>9, <2>1, <2>2 DEF TypeOK
<1>12. AloneInv
  BY <1>10 DEF AloneInv
<1>13. BalanceInv
  <2>1. SUFFICES ASSUME clean
                 PROVE  (\A a \in Address : records[a].marker # "legacy") /\ Balanced(Now)
    BY <1>10 DEF BalanceInv
  <2>2. L = {}
    BY <1>1, <2>1
  <2>3. \A a \in Address : records[a].marker = "absent"
    BY <1>6, <2>2 DEF NoRecord
  <2>4. "absent" \notin Label
    BY KvAssumption
  <2>5. Cardinality({}) = 0 /\ Cardinality(L) = 0
    BY <2>2, FS_EmptySet
  <2>6. \A l \in Label : {a \in Address : records[a].marker = l} = {}
    BY <2>3, <2>4
  <2>7. {a \in Address : Counted(records[a])} = {}
    BY <2>3, <2>4 DEF Counted
  <2>8. kv.geo = [l \in Label |-> 0]
    <3>1. \A l \in Label : kv.geo[l] = 0
      BY <1>9, <2>5, OneType, KvAssumption
    <3>2. QED
      BY <1>9, <3>1 DEF Store
  <2>9. Now.geo = kv.geo /\ Now.corpus = 0 /\ Now.records = records
    BY <1>9 DEF Now
  <2>10. Balanced(Now)
    <3>1. Now.corpus = Cardinality({a \in Address : Counted(Now.records[a])})
      BY <2>5, <2>7, <2>9
    <3>2. \A l \in Label : Cardinality({a \in Address : Now.records[a].marker = l}) = 0
      <4>1. SUFFICES ASSUME NEW l \in Label
                     PROVE  Cardinality({a \in Address : records[a].marker = l}) = 0
        BY <2>9
      <4>2. {a \in Address : records[a].marker = l} = {}
        BY <2>6
      <4>3. QED
        BY <2>5, <4>2
    <3>3. Now.geo = [l \in Label |->
                       Cardinality({a \in Address : Now.records[a].marker = l})]
      BY <2>8, <2>9, <3>2
    <3>4. QED
      BY <3>1, <3>3 DEF Balanced
  <2>11. QED
    BY <2>3, <2>10
<1>14. RecountInv
  BY <1>10 DEF RecountInv
<1>15. LosslessInv
  BY <1>2, <1>3, <1>8, <1>9, <1>10 DEF LosslessInv
<1>16. QED
  BY <1>11, <1>12, <1>13, <1>14, <1>15 DEF CorpusInv

-----------------------------------------------------------------------------
(* Every step keeps the invariant.                                         *)
LEMMA NextHolds ==
  ASSUME CorpusInv, [Next]_vars PROVE CorpusInv'
<1>1. ASSUME NEW p \in Request, Step(p) PROVE CorpusInv'
  <2>1. CASE Screen(p)
    BY <2>1, ScreenHolds
  <2>2. CASE RecordExposedHost(p)
    BY <2>2, RecordExposedHostHolds
  <2>3. CASE FlushWriteBatch(p)
    BY <2>3, FlushWriteBatchHolds
  <2>4. CASE PutRecord(p)
    BY <2>4, PutRecordHolds
  <2>5. CASE ReadKey(p)
    BY <2>5, ReadKeyHolds
  <2>6. CASE WriteKey(p)
    BY <2>6, WriteKeyHolds
  <2>7. CASE SetKey(p)
    BY <2>7, SetKeyHolds
  <2>8. CASE PublishKey(p)
    BY <2>8, PublishKeyHolds
  <2>9. CASE ForgetHosts(p)
    BY <2>9, ForgetHostsHolds
  <2>10. CASE ForgetHost(p)
    BY <2>10, ForgetHostHolds
  <2>11. CASE PurgeExcluded(p)
    BY <2>11, PurgeExcludedHolds
  <2>12. CASE PurgeAttempts(p)
    BY <2>12, PurgeAttemptsHolds
  <2>13. CASE SweepStart(p)
    BY <2>13, SweepStartHolds
  <2>14. CASE SweepResume(p)
    BY <2>14, SweepResumeHolds
  <2>15. CASE SweepScan(p)
    BY <2>15, SweepScanHolds
  <2>16. CASE RecountIndex(p)
    BY <2>16, RecountIndexHolds
  <2>17. CASE RecountResume(p)
    BY <2>17, RecountResumeHolds
  <2>18. CASE RecountPage(p)
    BY <2>18, RecountPageHolds
  <2>19. CASE MatchRecord(p)
    BY <2>19, MatchRecordHolds
  <2>20. CASE AnswerPurge(p)
    BY <2>20, AnswerPurgeHolds
  <2>21. QED
    BY <1>1, <2>1, <2>2, <2>3, <2>4, <2>5, <2>6, <2>7, <2>8, <2>9, <2>10, <2>11, <2>12,
       <2>13, <2>14, <2>15, <2>16, <2>17, <2>18, <2>19, <2>20 DEF Step
<1>2. ASSUME Next PROVE CorpusInv'
  <2>1. CASE \E p \in Client : Start(p)
    BY <2>1, StartHolds
  <2>2. CASE Scheduled
    BY <2>2, ScheduledHolds
  <2>3. CASE \E p \in Request : Step(p) \/ SweepThrows(p) \/ BreaksOff(p)
    BY <1>1, <2>3, SweepThrowsHolds, BreaksOffHolds
  <2>4. CASE \E a \in Address : Silent(a) \/ Expire(a)
    BY <2>4, SilentHolds, ExpireHolds
  <2>5. QED
    BY <1>2, <2>1, <2>2, <2>3, <2>4 DEF Next
<1>3. QED
  BY <1>2, StutterHolds

-----------------------------------------------------------------------------
(* What there is in KV and in the hands of a request is of the right kind, *)
(* every request works its tasks off in the order the handlers need, and   *)
(* the counts and the index lag behind the records by no more than what    *)
(* the request at work still has to do.                                    *)
THEOREM CorpusInvariant == Spec => []CorpusInv
<1>1. Init => CorpusInv
  BY InitHolds
<1>2. CorpusInv /\ [Next]_vars => CorpusInv'
  BY NextHolds
<1>3. QED
  BY <1>1, <1>2, PTL DEF Spec

(* KV holds an index, counts, a cursor, a staged batch and records of the  *)
(* kinds the handlers read them as, and every request carries the tasks    *)
(* and the scratch values its handler works with.                          *)
THEOREM CorpusTypeCorrect == Spec => []TypeOK
<1>1. CorpusInv => TypeOK
  BY DEF CorpusInv
<1>2. QED
  BY <1>1, CorpusInvariant, PTL

(* recordExposedHost, flushWriteBatch and forgetRecord keep the published  *)
(* counts equal to the records' own markers, whatever the calls, but for   *)
(* these causes: requests overlapped or one broke off, KV expired a        *)
(* record, rows without a marker were there, or a recount met a record its *)
(* marker does not agree with (a host only listed, say), one the index had *)
(* dropped, or one that changed since an earlier page.                     *)
THEOREM DriftIsExplained == Spec => []DriftHasACause
<1>1. CorpusInv => DriftHasACause
  BY DEF CorpusInv, BalanceInv, Balanced, Now, DriftHasACause
<1>2. QED
  BY <1>1, CorpusInvariant, PTL

(* forgetHosts, purgeExcluded and sweepExpiredHosts lose no host from the  *)
(* index they rewrite, and a purge leaves neither a record nor a contact   *)
(* noted of a host that a rule names by its address.  What a rule names by *)
(* its system is in RemovalAnswersTrue.                                    *)
THEOREM IndexStaysComplete == Spec => []IndexComplete
<1>1. CorpusInv => IndexComplete
  BY DEF CorpusInv, LosslessInv, IndexComplete
<1>2. QED
  BY <1>1, CorpusInvariant, PTL

=============================================================================
