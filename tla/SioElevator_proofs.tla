------------------------ MODULE SioElevator_proofs ------------------------
(***************************************************************************)
(* The elevator accounts for every request, lets nothing overtake a        *)
(* barrier, and sio keeps its deadlines while nobody tunes it: the         *)
(* invariants of SioElevator for any number of requests and any tunables.  *)
(*                                                                         *)
(* What a dispatch does to the lists is stated once, about the value of    *)
(* lists (DispatchMoves), carried over elv_drain_elevator by an induction  *)
(* over the number of dispatches (DrainedLists), and used by the three     *)
(* actions that dispatch.                                                  *)
(***************************************************************************)
EXTENDS SioElevator, SequenceTheorems, FiniteSetTheorems, WellFoundedInduction, TLAPS

distinct(l) == \A i, j \in 1 .. Len(l) : l[i] = l[j] => i = j

ahead(l, a, b) == \E i, j \in 1 .. Len(l) : i < j /\ l[i] = a /\ l[j] = b

-----------------------------------------------------------------------------
(* Lemmas on one list.                                                     *)

(* The entries of a list are what stands at its positions.                 *)
LEMMA RangeOf ==
  ASSUME NEW l \in Seq(Rq)
  PROVE  /\ Range(l) = {l[i] : i \in 1 .. Len(l)}
         /\ Range(l) \subseteq Rq
         /\ l = <<>> <=> Range(l) = {}
         /\ Len(l) \in Nat /\ DOMAIN l = 1 .. Len(l)
BY DEF Range

(* The order of a list is one.                                             *)
LEMMA Order ==
  ASSUME NEW l \in Seq(Rq), distinct(l), NEW a, NEW b, ahead(l, a, b)
  PROVE  a \in Range(l) /\ b \in Range(l) /\ ~ ahead(l, b, a) /\ a # b
BY RangeOf DEF ahead, distinct

(* list_add_tail of a request that is not on the list.                     *)
LEMMA AddTail ==
  ASSUME NEW l \in Seq(Rq), distinct(l), NEW r \in Rq, r \notin Range(l)
  PROVE  /\ Append(l, r) \in Seq(Rq) /\ distinct(Append(l, r))
         /\ Range(Append(l, r)) = Range(l) \cup {r}
         /\ \A a, b : ahead(Append(l, r), a, b) <=> ahead(l, a, b) \/ (a \in Range(l) /\ b = r)
<1> DEFINE m == Append(l, r)
<1>1. /\ m \in Seq(Rq) /\ Len(m) = Len(l) + 1 /\ m[Len(l) + 1] = r
      /\ \A i \in 1 .. Len(l) : m[i] = l[i]
  OBVIOUS
<1> HIDE DEF m
<1>2. Len(l) \in Nat /\ \A i \in 1 .. Len(l) : l[i] # r /\ l[i] \in Range(l)
  BY RangeOf
<1>3. \A i \in 1 .. Len(m) : i \in 1 .. Len(l) \/ i = Len(l) + 1
  BY <1>1, <1>2
<1>4. distinct(m)
  BY <1>1, <1>2, <1>3 DEF distinct
<1>5. Range(m) = Range(l) \cup {r}
  <2>1. Range(m) = {m[i] : i \in 1 .. Len(m)} /\ Range(l) = {l[i] : i \in 1 .. Len(l)}
    BY <1>1, RangeOf
  <2>2. \A i \in 1 .. Len(l) : i \in 1 .. Len(m)
    BY <1>1, <1>2
  <2>3. Len(l) + 1 \in 1 .. Len(m)
    BY <1>1, <1>2
  <2>4. Range(m) \subseteq Range(l) \cup {r}
    BY <1>1, <1>3, <2>1
  <2>5. Range(l) \subseteq Range(m)
    BY <1>1, <2>1, <2>2
  <2>6. r \in Range(m)
    BY <1>1, <2>1, <2>3
  <2> QED
    BY <2>4, <2>5, <2>6
<1>6. ASSUME NEW a, NEW b, ahead(m, a, b) PROVE ahead(l, a, b) \/ (a \in Range(l) /\ b = r)
  <2>1. PICK i, j \in 1 .. Len(m) : i < j /\ m[i] = a /\ m[j] = b
    BY <1>6 DEF ahead
  <2>2. i \in 1 .. Len(l)
    BY <1>1, <1>2, <2>1
  <2>3. CASE j \in 1 .. Len(l)
    BY <1>1, <2>1, <2>2, <2>3 DEF ahead
  <2>4. CASE j = Len(l) + 1
    BY <1>1, <1>2, <2>1, <2>2, <2>4
  <2> QED
    BY <1>3, <2>3, <2>4
<1>7. ASSUME NEW a, NEW b, ahead(l, a, b) PROVE ahead(m, a, b)
  <2>1. PICK i, j \in 1 .. Len(l) : i < j /\ l[i] = a /\ l[j] = b
    BY <1>7 DEF ahead
  <2>2. i \in 1 .. Len(m) /\ j \in 1 .. Len(m) /\ m[i] = a /\ m[j] = b
    BY <1>1, <1>2, <2>1
  <2> QED
    BY <2>1, <2>2 DEF ahead
<1>8. ASSUME NEW a \in Range(l) PROVE ahead(m, a, r)
  <2>1. PICK i \in 1 .. Len(l) : l[i] = a
    BY RangeOf
  <2>2. i \in 1 .. Len(m) /\ m[i] = a /\ i < Len(l) + 1 /\ Len(l) + 1 \in 1 .. Len(m)
    BY <1>1, <1>2, <2>1
  <2> QED
    BY <1>1, <2>2 DEF ahead
<1> QED
  BY <1>1, <1>4, <1>5, <1>6, <1>7, <1>8 DEF m

(* list_add of a request that is not on the list.                          *)
LEMMA AddFront ==
  ASSUME NEW l \in Seq(Rq), distinct(l), NEW r \in Rq, r \notin Range(l)
  PROVE  /\ <<r>> \o l \in Seq(Rq) /\ distinct(<<r>> \o l)
         /\ Range(<<r>> \o l) = Range(l) \cup {r}
         /\ \A a, b : ahead(l, a, b) \/ (a = r /\ b \in Range(l)) => ahead(<<r>> \o l, a, b)
<1> DEFINE m == <<r>> \o l
<1>1. Len(l) \in Nat /\ \A i \in 1 .. Len(l) : l[i] # r /\ l[i] \in Range(l)
  BY RangeOf
<1>2. /\ m \in Seq(Rq) /\ Len(m) = Len(l) + 1
      /\ \A i \in 1 .. Len(l) + 1 : m[i] = IF i <= 1 THEN <<r>>[i] ELSE l[i - 1]
  <2>1. <<r>> \in Seq(Rq) /\ Len(<<r>>) = 1
    OBVIOUS
  <2> QED
    BY <1>1, <2>1, ConcatProperties
<1>3. m[1] = r
  BY <1>1, <1>2
<1>4. \A i \in 1 .. Len(l) : i + 1 \in 1 .. Len(m) /\ m[i + 1] = l[i]
  <2> TAKE i \in 1 .. Len(l)
  <2>1. i + 1 \in 1 .. Len(l) + 1 /\ ~ (i + 1 <= 1) /\ (i + 1) - 1 = i
    BY <1>1
  <2> QED
    BY <1>2, <2>1
<1>5. \A i \in 1 .. Len(m) : i = 1 \/ \E j \in 1 .. Len(l) : i = j + 1
  <2> TAKE i \in 1 .. Len(m)
  <2>1. i # 1 => i - 1 \in 1 .. Len(l) /\ i = (i - 1) + 1
    BY <1>1, <1>2
  <2> QED
    BY <2>1
<1>6. 1 \in 1 .. Len(m)
  BY <1>1, <1>2
<1> HIDE DEF m
<1>7. distinct(m)
  <2> SUFFICES ASSUME NEW i \in 1 .. Len(m), NEW j \in 1 .. Len(m), m[i] = m[j]
               PROVE  i = j
    BY DEF distinct
  <2>1. CASE i = 1
    BY <1>1, <1>3, <1>4, <1>5, <2>1
  <2>2. CASE j = 1
    BY <1>1, <1>3, <1>4, <1>5, <2>2
  <2>3. ASSUME NEW a \in 1 .. Len(l), NEW b \in 1 .. Len(l), i = a + 1, j = b + 1 PROVE i = j
    BY <1>4, <2>3 DEF distinct
  <2> QED
    BY <1>5, <2>1, <2>2, <2>3
<1>8. Range(m) = Range(l) \cup {r}
  <2>1. Range(m) = {m[i] : i \in 1 .. Len(m)} /\ Range(l) = {l[i] : i \in 1 .. Len(l)}
    BY <1>2, RangeOf
  <2>2. \A i \in 1 .. Len(m) : m[i] \in Range(l) \cup {r}
    BY <1>1, <1>3, <1>4, <1>5
  <2>3. Range(l) \subseteq Range(m)
    BY <1>4, <2>1
  <2>4. r \in Range(m)
    BY <1>3, <1>6, <2>1
  <2> QED
    BY <2>1, <2>2, <2>3, <2>4
<1>9. ASSUME NEW a, NEW b, ahead(l, a, b) PROVE ahead(m, a, b)
  <2>1. PICK i, j \in 1 .. Len(l) : i < j /\ l[i] = a /\ l[j] = b
    BY <1>9 DEF ahead
  <2>2. i + 1 < j + 1
    BY <2>1
  <2> QED
    BY <1>4, <2>1, <2>2 DEF ahead
<1>10. ASSUME NEW b \in Range(l) PROVE ahead(m, r, b)
  <2>1. PICK i \in 1 .. Len(l) : l[i] = b
    BY RangeOf
  <2>2. 1 < i + 1
    BY <2>1
  <2> QED
    BY <1>3, <1>4, <1>6, <2>1, <2>2 DEF ahead
<1> QED
  BY <1>2, <1>7, <1>8, <1>9, <1>10 DEF m

(* The list without its first entry.                                       *)
LEMMA TailOf ==
  ASSUME NEW l \in Seq(Rq), distinct(l), l # <<>>
  PROVE  /\ Head(l) \in Range(l)
         /\ Tail(l) \in Seq(Rq) /\ distinct(Tail(l))
         /\ Range(Tail(l)) = Range(l) \ {Head(l)}
         /\ \A a, b : ahead(Tail(l), a, b) <=> ahead(l, a, b) /\ a # Head(l)
         /\ \A b \in Range(l) \ {Head(l)} : ahead(l, Head(l), b)
<1> DEFINE m == Tail(l)
<1>1. /\ m \in Seq(Rq) /\ Len(m) = Len(l) - 1 /\ Head(l) = l[1]
      /\ \A i \in 1 .. Len(m) : m[i] = l[i + 1]
  OBVIOUS
<1> HIDE DEF m
<1>2. Len(l) \in Nat /\ Len(l) > 0 /\ 1 \in 1 .. Len(l)
  OBVIOUS
<1>3. \A i \in 1 .. Len(m) : i + 1 \in 1 .. Len(l) /\ i + 1 # 1
  BY <1>1, <1>2
<1>4. \A i \in 1 .. Len(l) : i = 1 \/ \E j \in 1 .. Len(m) : i = j + 1
  <2> TAKE i \in 1 .. Len(l)
  <2>1. i # 1 => i - 1 \in 1 .. Len(m) /\ i = (i - 1) + 1
    BY <1>1, <1>2
  <2> QED
    BY <2>1
<1>5. distinct(m)
  <2> SUFFICES ASSUME NEW i \in 1 .. Len(m), NEW j \in 1 .. Len(m), m[i] = m[j]
               PROVE  i = j
    BY DEF distinct
  <2>1. i + 1 = j + 1
    BY <1>1, <1>3 DEF distinct
  <2> QED
    BY <2>1
<1>6. \A i \in 1 .. Len(l) : l[i] = l[1] <=> i = 1
  BY <1>2 DEF distinct
<1>7. Range(m) = Range(l) \ {l[1]} /\ l[1] \in Range(l)
  <2>1. Range(m) = {m[i] : i \in 1 .. Len(m)} /\ Range(l) = {l[i] : i \in 1 .. Len(l)}
    BY <1>1, RangeOf
  <2>2. Range(m) \subseteq Range(l) \ {l[1]}
    BY <1>1, <1>3, <1>6, <2>1
  <2>3. \A i \in 1 .. Len(l) : l[i] # l[1] => l[i] \in Range(m)
    BY <1>1, <1>4, <2>1
  <2> QED
    BY <1>2, <2>1, <2>2, <2>3
<1>8. ASSUME NEW a, NEW b, ahead(m, a, b) PROVE ahead(l, a, b) /\ a # l[1]
  <2>1. PICK i, j \in 1 .. Len(m) : i < j /\ m[i] = a /\ m[j] = b
    BY <1>8 DEF ahead
  <2>2. i + 1 < j + 1
    BY <2>1
  <2> QED
    BY <1>1, <1>3, <1>6, <2>1, <2>2 DEF ahead
<1>9. ASSUME NEW a, NEW b, ahead(l, a, b), a # l[1] PROVE ahead(m, a, b)
  <2>1. PICK i, j \in 1 .. Len(l) : i < j /\ l[i] = a /\ l[j] = b
    BY <1>9 DEF ahead
  <2>2. i # 1 /\ j # 1
    BY <1>9, <2>1
  <2>3. PICK x, y \in 1 .. Len(m) : i = x + 1 /\ j = y + 1
    BY <1>4, <2>2
  <2>4. x < y
    BY <2>1, <2>3
  <2> QED
    BY <1>1, <2>1, <2>3, <2>4 DEF ahead
<1>10. ASSUME NEW b \in Range(l) \ {l[1]} PROVE ahead(l, l[1], b)
  <2>1. PICK i \in 1 .. Len(l) : l[i] = b
    BY RangeOf
  <2>2. 1 < i
    BY <2>1
  <2> QED
    BY <1>2, <2>1, <2>2 DEF ahead
<1> QED
  BY <1>1, <1>5, <1>7, <1>8, <1>9, <1>10 DEF m

(* RemoveAt moves the entries after the position.                          *)
LEMMA RemoveAtPositions ==
  ASSUME NEW s \in Seq(Rq), NEW p \in 1 .. Len(s)
  PROVE  /\ RemoveAt(s, p) \in Seq(Rq)
         /\ Len(RemoveAt(s, p)) = Len(s) - 1
         /\ \A i \in 1 .. Len(s) - 1 :
              RemoveAt(s, p)[i] = IF i < p THEN s[i] ELSE s[i + 1]
<1> DEFINE a == SubSeq(s, 1, p - 1)
           b == SubSeq(s, p + 1, Len(s))
<1>1. a \in Seq(Rq) /\ Len(a) = p - 1 /\ \A i \in 1 .. p - 1 : a[i] = s[i]
  OBVIOUS
<1>2. b \in Seq(Rq) /\ Len(b) = Len(s) - p
      /\ \A i \in 1 .. Len(s) - p : b[i] = s[p + i]
  OBVIOUS
<1>3. RemoveAt(s, p) = a \o b
  BY DEF RemoveAt
<1> HIDE DEF a, b
<1>4. Len(s) \in Nat /\ p \in Int /\ 1 <= p /\ p <= Len(s)
  OBVIOUS
<1>5. a \o b \in Seq(Rq) /\ Len(a \o b) = Len(s) - 1
  <2>1. a \o b \in Seq(Rq) /\ Len(a \o b) = Len(a) + Len(b)
    BY <1>1, <1>2, ConcatProperties
  <2> QED
    BY <1>1, <1>2, <1>4, <2>1
<1>6. \A i \in 1 .. Len(s) - 1 : (a \o b)[i] = IF i <= p - 1 THEN a[i] ELSE b[i - (p - 1)]
  BY <1>1, <1>2, <1>4, ConcatProperties
<1>7. ASSUME NEW i \in 1 .. Len(s) - 1
      PROVE  (a \o b)[i] = IF i < p THEN s[i] ELSE s[i + 1]
  <2>0. i \in Int /\ 1 <= i /\ i <= Len(s) - 1
    BY <1>4
  <2>1. ASSUME i < p PROVE (a \o b)[i] = s[i]
    <3>1. i \in 1 .. p - 1 /\ i <= p - 1
      BY <1>4, <2>0, <2>1
    <3> QED
      BY <1>1, <1>6, <3>1
  <2>2. ASSUME ~ (i < p) PROVE (a \o b)[i] = s[i + 1]
    <3> DEFINE k == i - (p - 1)
    <3>1. k \in 1 .. Len(s) - p /\ p + k = i + 1 /\ ~ (i <= p - 1)
      BY <1>4, <2>0, <2>2
    <3>2. (a \o b)[i] = b[k]
      BY <1>6, <3>1
    <3> HIDE DEF k
    <3>3. b[k] = s[p + k]
      BY <1>2, <3>1
    <3> QED
      BY <3>1, <3>2, <3>3
  <2> QED
    BY <2>1, <2>2
<1> QED
  BY <1>3, <1>5, <1>7

(* list_del takes one entry out and keeps the order of the others.         *)
LEMMA Removed ==
  ASSUME NEW l \in Seq(Rq), distinct(l), NEW r
  PROVE  /\ RemoveFirst(l, r) \in Seq(Rq) /\ distinct(RemoveFirst(l, r))
         /\ Range(RemoveFirst(l, r)) = Range(l) \ {r}
         /\ \A a, b : ahead(RemoveFirst(l, r), a, b) => ahead(l, a, b)
<1>1. CASE r \notin Range(l)
  <2>1. RemoveFirst(l, r) = l
    BY <1>1, RangeOf DEF RemoveFirst
  <2> QED
    BY <1>1, <2>1
<1>2. CASE r \in Range(l)
  <2>1. PICK p \in 1 .. Len(l) : l[p] = r
    BY <1>2, RangeOf
  <2>2. {i \in 1 .. Len(l) : l[i] = r} = {p}
    BY <2>1 DEF distinct
  <2>3. SelectInSeq(l, LAMBDA v : v = r) = p
    BY <2>2 DEF SelectInSeq, Min
  <2> DEFINE m == RemoveFirst(l, r)
  <2>4. m = RemoveAt(l, p)
    BY <2>1, <2>3 DEF RemoveFirst
  <2>5. /\ m \in Seq(Rq) /\ Len(m) = Len(l) - 1
        /\ \A i \in 1 .. Len(l) - 1 : m[i] = IF i < p THEN l[i] ELSE l[i + 1]
    BY <2>4, RemoveAtPositions
  <2> HIDE DEF m
  <2>6. Len(l) \in Nat /\ p \in Int /\ 1 <= p /\ p <= Len(l) /\ DOMAIN l = 1 .. Len(l)
    OBVIOUS
  <2> DEFINE up(i) == IF i < p THEN i ELSE i + 1
             down(i) == IF i < p THEN i ELSE i - 1
  <2>7. \A i \in 1 .. Len(m) : up(i) \in 1 .. Len(l) /\ up(i) # p /\ m[i] = l[up(i)]
    BY <2>5, <2>6
  <2>8. \A i, j \in 1 .. Len(m) : (i < j <=> up(i) < up(j)) /\ (up(i) = up(j) => i = j)
    BY <2>5, <2>6
  <2>9. \A i \in 1 .. Len(l) : i # p => down(i) \in 1 .. Len(m) /\ up(down(i)) = i
    BY <2>5, <2>6
  <2> HIDE DEF up, down
  <2>10. \A i \in 1 .. Len(l) : l[i] = r <=> i = p
    BY <2>1 DEF distinct
  <2>11. distinct(m)
    BY <2>7, <2>8 DEF distinct
  <2>12. Range(m) = Range(l) \ {r}
    <3>1. Range(m) \subseteq Range(l) \ {r}
      BY <2>5, <2>7, <2>10, RangeOf
    <3>2. ASSUME NEW i \in 1 .. Len(l), l[i] # r PROVE l[i] \in Range(m)
      <4>1. down(i) \in 1 .. Len(m) /\ m[down(i)] = l[i]
        BY <2>7, <2>9, <2>10, <3>2
      <4> QED
        BY <2>5, <4>1, RangeOf
    <3> QED
      BY <3>1, <3>2, RangeOf
  <2>13. ASSUME NEW a, NEW b, ahead(m, a, b) PROVE ahead(l, a, b)
    <3>1. PICK i, j \in 1 .. Len(m) : i < j /\ m[i] = a /\ m[j] = b
      BY <2>13 DEF ahead
    <3>2. up(i) < up(j) /\ l[up(i)] = a /\ l[up(j)] = b
      BY <2>7, <2>8, <3>1
    <3> QED
      BY <2>7, <3>1, <3>2 DEF ahead
  <2> QED
    BY <2>5, <2>11, <2>12, <2>13 DEF m
<1> QED
  BY <1>1, <1>2

(* A list without repetitions is as long as its set of entries.            *)
LEMMA Length ==
  ASSUME NEW l \in Seq(Rq), distinct(l)
  PROVE  IsFiniteSet(Range(l)) /\ Cardinality(Range(l)) = Len(l)
<1>1. Len(l) \in Nat /\ l \in [1 .. Len(l) -> Rq]
  OBVIOUS
<1>2. Range(l) = {l[i] : i \in 1 .. Len(l)}
  BY RangeOf
<1>3. l \in Bijection(1 .. Len(l), Range(l))
  BY <1>1, <1>2 DEF Bijection, Injection, IsInjective, Surjection, distinct
<1>4. IsFiniteSet(1 .. Len(l)) /\ Cardinality(1 .. Len(l)) = Len(l)
  <2>1. Cardinality(1 .. Len(l)) = IF 1 > Len(l) THEN 0 ELSE Len(l) - 1 + 1
    BY <1>1, FS_Interval
  <2>2. IsFiniteSet(1 .. Len(l))
    BY <1>1, FS_Interval
  <2> QED
    BY <1>1, <2>1, <2>2
<1>5. ExistsBijection(1 .. Len(l), Range(l))
  BY <1>3 DEF ExistsBijection
<1> QED
  BY <1>4, <1>5, FS_Bijection

-----------------------------------------------------------------------------
(* The invariant.                                                          *)

Lists == [fifo_list : [Sync -> Seq(Rq)], noop_queue : Seq(Rq), queue_head : Seq(Rq),
          batched : Nat, nr_sorted : Int, last_merge : Rq \cup {NONE}, passed : Nat]

Requests == [Rq -> [sync : Sync, priv : BOOLEAN, barrier : BOOLEAN, left : Nat \cup {-1}]]

(* The requests that the scheduler holds.                                  *)
sorted_of(s) ==
  Range(s.fifo_list["SYNC"]) \cup Range(s.fifo_list["ASYNC"]) \cup Range(s.noop_queue)

(* Lists in which a request occurs once, on the list that its flags f and  *)
(* the scheduler e choose, with nr_sorted and last_merge exact.            *)
Placed(s, f, e) ==
  /\ distinct(s.queue_head) /\ distinct(s.noop_queue)
  /\ \A q \in Sync : distinct(s.fifo_list[q])
  /\ \A q \in Sync : \A r \in Range(s.fifo_list[q]) : f[r].sync = q
  /\ Range(s.queue_head) \cap sorted_of(s) = {}
  /\ e # "noop" => s.noop_queue = <<>>
  /\ e # "sio" => \A q \in Sync : s.fifo_list[q] = <<>>

Sound(s, f, e) ==
  /\ s \in Lists
  /\ Placed(s, f, e)
  /\ s.nr_sorted = Cardinality(sorted_of(s))
  /\ s.last_merge # NONE => s.last_merge \in sorted_of(s)

-----------------------------------------------------------------------------
(* What a dispatch does.                                                   *)

(* r went from the scheduler to the end of the dispatch queue.             *)
Moved(s, t, r) ==
  /\ t \in Lists /\ r \in sorted_of(s)
  /\ t.queue_head = Append(s.queue_head, r)
  /\ distinct(t.noop_queue) /\ Range(t.noop_queue) = Range(s.noop_queue) \ {r}
  /\ \A q \in Sync : /\ distinct(t.fifo_list[q])
                     /\ Range(t.fifo_list[q]) = Range(s.fifo_list[q]) \ {r}
                     /\ \A a, b : ahead(t.fifo_list[q], a, b) => ahead(s.fifo_list[q], a, b)
  /\ t.nr_sorted = s.nr_sorted - 1
  /\ t.last_merge = IF s.last_merge = r THEN NONE ELSE s.last_merge

(* There was nothing to dispatch.                                          *)
Stayed(s, t) ==
  /\ t \in Lists /\ sorted_of(s) = {}
  /\ t.queue_head = s.queue_head /\ t.noop_queue = s.noop_queue /\ t.fifo_list = s.fifo_list
  /\ t.nr_sorted = s.nr_sorted /\ t.last_merge = s.last_merge

(* What sio remembers of its batch: after fifo_batch dispatches it asks    *)
(* for expired requests, and then passes over none.                        *)
Batched(s, t) ==
  \/ /\ t.batched \in {0, s.batched} /\ t.passed = s.passed
     /\ s.fifo_list["ASYNC"] = <<>>
  \/ /\ t.batched = IF s.batched > fifo_batch THEN 1 ELSE s.batched + 1
     /\ \/ t.passed = 0
        \/ /\ ~ (s.batched > fifo_batch)
           /\ t.passed <= s.passed + 1
           /\ t.fifo_list["ASYNC"] # <<>>

(* sorted_of is a finite set of requests.                                  *)
LEMMA SortedFinite ==
  ASSUME NEW s \in Lists
  PROVE  /\ sorted_of(s) \subseteq Rq /\ IsFiniteSet(sorted_of(s))
         /\ Cardinality(sorted_of(s)) \in Nat
         /\ Cardinality(sorted_of(s)) <= Cardinality(Rq) /\ Cardinality(Rq) \in Nat
<1>1. s.fifo_list["SYNC"] \in Seq(Rq) /\ s.fifo_list["ASYNC"] \in Seq(Rq) /\ s.noop_queue \in Seq(Rq)
  BY DEF Lists, Sync
<1>2. sorted_of(s) \subseteq Rq
  BY <1>1, RangeOf DEF sorted_of
<1> QED
  BY <1>2, SioAssumption, FS_Subset, FS_CardinalityType

(* A request that is moved leaves the lists sound.                         *)
LEMMA MovedSound ==
  ASSUME NEW s, NEW t, NEW r, NEW f, NEW e, Sound(s, f, e), Moved(s, t, r)
  PROVE  /\ Sound(t, f, e)
         /\ sorted_of(t) = sorted_of(s) \ {r}
         /\ Range(t.queue_head) = Range(s.queue_head) \cup {r}
         /\ Cardinality(sorted_of(t)) = Cardinality(sorted_of(s)) - 1
<1>1. sorted_of(t) = sorted_of(s) \ {r}
  BY DEF Moved, sorted_of, Sync
<1>2. s \in Lists /\ t \in Lists /\ r \in Rq /\ r \notin Range(s.queue_head)
  BY SortedFinite DEF Sound, Placed, Moved
<1>3. s.queue_head \in Seq(Rq)
  BY <1>2 DEF Lists
<1>4. distinct(t.queue_head) /\ Range(t.queue_head) = Range(s.queue_head) \cup {r}
  BY <1>2, <1>3, AddTail DEF Sound, Placed, Moved
<1>5. Cardinality(sorted_of(t)) = Cardinality(sorted_of(s)) - 1
  BY <1>1, <1>2, SortedFinite, FS_RemoveElement DEF Moved
<1>6. /\ t.noop_queue \in Seq(Rq) /\ s.noop_queue \in Seq(Rq)
      /\ \A q \in Sync : t.fifo_list[q] \in Seq(Rq) /\ s.fifo_list[q] \in Seq(Rq)
  BY <1>2 DEF Lists
<1>7. Placed(t, f, e)
  <2>1. e # "noop" => t.noop_queue = <<>>
    BY <1>6, RangeOf DEF Sound, Placed, Moved
  <2>2. e # "sio" => \A q \in Sync : t.fifo_list[q] = <<>>
    BY <1>6, RangeOf DEF Sound, Placed, Moved
  <2>3. Range(t.queue_head) \cap sorted_of(t) = {}
    BY <1>1, <1>4 DEF Sound, Placed
  <2>4. \A q \in Sync : \A x \in Range(t.fifo_list[q]) : f[x].sync = q
    BY DEF Sound, Placed, Moved
  <2> QED
    BY <1>4, <2>1, <2>2, <2>3, <2>4 DEF Placed, Moved
<1>8. t.nr_sorted = Cardinality(sorted_of(t))
  BY <1>5 DEF Sound, Moved
<1>9. t.last_merge # NONE => t.last_merge \in sorted_of(t)
  BY <1>1 DEF Sound, Moved
<1> QED
  BY <1>1, <1>2, <1>4, <1>5, <1>7, <1>8, <1>9 DEF Sound

(* So does a dispatch that finds nothing.                                  *)
LEMMA StayedSound ==
  ASSUME NEW s, NEW t, NEW f, NEW e, Sound(s, f, e), Stayed(s, t)
  PROVE  Sound(t, f, e) /\ sorted_of(t) = {}
BY DEF Sound, Placed, Stayed, sorted_of

(* elv_dispatch_add_tail, of lists s from which r has been taken in u.     *)
LEMMA AddedToDispatch ==
  ASSUME NEW u \in Lists, NEW r \in Rq
  PROVE  LET t == elv_dispatch_add_tail(u, r)
         IN  /\ t \in Lists
             /\ t.fifo_list = u.fifo_list /\ t.noop_queue = u.noop_queue
             /\ t.queue_head = Append(u.queue_head, r)
             /\ t.batched = u.batched /\ t.passed = u.passed
             /\ t.nr_sorted = u.nr_sorted - 1
             /\ t.last_merge = IF u.last_merge = r THEN NONE ELSE u.last_merge
<1> DEFINE t == elv_dispatch_add_tail(u, r)
<1>1. t = [u EXCEPT !.nr_sorted = u.nr_sorted - 1, !.queue_head = Append(u.queue_head, r),
                    !.last_merge = IF u.last_merge = r THEN NONE ELSE u.last_merge]
  BY DEF elv_dispatch_add_tail
<1>2. /\ u.queue_head \in Seq(Rq) /\ u.nr_sorted \in Int /\ u.last_merge \in Rq \cup {NONE}
  BY DEF Lists
<1>3. Append(u.queue_head, r) \in Seq(Rq) /\ u.nr_sorted - 1 \in Int
  BY <1>2
<1>4. t \in Lists
  BY <1>1, <1>2, <1>3 DEF Lists
<1>5. /\ t.fifo_list = u.fifo_list /\ t.noop_queue = u.noop_queue
      /\ t.queue_head = Append(u.queue_head, r)
      /\ t.batched = u.batched /\ t.passed = u.passed
      /\ t.nr_sorted = u.nr_sorted - 1
      /\ t.last_merge = IF u.last_merge = r THEN NONE ELSE u.last_merge
  BY <1>1 DEF Lists
<1> QED
  BY <1>4, <1>5

(* sio_dispatch_requests takes the head of one of its lists, or finds both *)
(* empty.                                                                  *)
LEMMA SioChooses ==
  ASSUME NEW s \in Lists
  PROVE  LET check == s.batched > fifo_batch
             e == IF check THEN sio_choose_expired_request(s) ELSE NONE
             r == IF e # NONE THEN e ELSE sio_choose_request(s)
             w == sio_expired_request(s, "ASYNC")
         IN  /\ r = NONE => \A q \in Sync : s.fifo_list[q] = <<>>
             /\ r # NONE => \E q \in Sync : s.fifo_list[q] # <<>> /\ r = Head(s.fifo_list[q])
             /\ check => w \in {NONE, r}
             /\ w # NONE => s.fifo_list["ASYNC"] # <<>> /\ w = Head(s.fifo_list["ASYNC"])
<1> DEFINE check == s.batched > fifo_batch
           e == IF check THEN sio_choose_expired_request(s) ELSE NONE
           r == IF e # NONE THEN e ELSE sio_choose_request(s)
           w == sio_expired_request(s, "ASYNC")
<1>1. \A q \in Sync : s.fifo_list[q] # <<>> => Head(s.fifo_list[q]) # NONE
  <2>1. \A q \in Sync : s.fifo_list[q] \in Seq(Rq)
    BY DEF Lists
  <2>2. \A q \in Sync : s.fifo_list[q] # <<>> => Head(s.fifo_list[q]) \in Rq
    BY <2>1
  <2> QED
    BY <2>2, SioAssumption
<1>2. \A q \in Sync : sio_expired_request(s, q) # NONE
                      => s.fifo_list[q] # <<>> /\ sio_expired_request(s, q) = Head(s.fifo_list[q])
  BY DEF sio_expired_request
<1>3. sio_choose_request(s) = NONE => \A q \in Sync : s.fifo_list[q] = <<>>
  BY <1>1 DEF sio_choose_request, Sync
<1>4. sio_choose_request(s) # NONE
      => \E q \in Sync : s.fifo_list[q] # <<>> /\ sio_choose_request(s) = Head(s.fifo_list[q])
  BY DEF sio_choose_request, Sync
<1>5. sio_choose_expired_request(s) # NONE
      => \E q \in Sync : s.fifo_list[q] # <<>> /\ sio_choose_expired_request(s) = Head(s.fifo_list[q])
  BY <1>2 DEF sio_choose_expired_request, Sync
<1>6. w # NONE => sio_choose_expired_request(s) = w
  BY DEF sio_choose_expired_request
<1> QED
  BY <1>2, <1>3, <1>4, <1>5, <1>6 DEF Sync

(* sio_dispatch_requests moves a request or finds none.                    *)
LEMMA SioDispatches ==
  ASSUME NEW s, rq \in Requests, fifo_batch \in Nat, Sound(s, rq, "sio")
  PROVE  LET t == sio_dispatch_requests(s)
         IN  /\ Stayed(s, t) \/ \E r \in Rq : Moved(s, t, r)
             /\ Batched(s, t)
<1> DEFINE check == s.batched > fifo_batch
           e == IF check THEN sio_choose_expired_request(s) ELSE NONE
           r == IF e # NONE THEN e ELSE sio_choose_request(s)
           b == IF check THEN 0 ELSE s.batched
           w == sio_expired_request(s, "ASYNC")
           p == CASE w \in {NONE, r} -> 0
                  [] w \notin {NONE, r} /\ s.passed <= fifo_batch + 1 -> s.passed + 1
                  [] OTHER -> s.passed
           t == sio_dispatch_requests(s)
           u == [s EXCEPT !.fifo_list[rq[r].sync] = RemoveFirst(s.fifo_list[rq[r].sync], r),
                          !.batched = b + 1, !.passed = p]
<1>1. t = IF r = NONE THEN [s EXCEPT !.batched = b] ELSE elv_dispatch_add_tail(u, r)
  BY DEF sio_dispatch_requests
<1>2. /\ r = NONE => \A q \in Sync : s.fifo_list[q] = <<>>
      /\ r # NONE => \E q \in Sync : s.fifo_list[q] # <<>> /\ r = Head(s.fifo_list[q])
      /\ check => w \in {NONE, r}
      /\ w # NONE => s.fifo_list["ASYNC"] # <<>> /\ w = Head(s.fifo_list["ASYNC"])
  <2>1. s \in Lists
    BY DEF Sound
  <2> QED
    BY <2>1, SioChooses
<1>3. s \in Lists /\ s.batched \in Nat /\ s.passed \in Nat /\ s.noop_queue = <<>>
      /\ s.fifo_list \in [Sync -> Seq(Rq)] /\ \A q \in Sync : distinct(s.fifo_list[q])
  BY DEF Sound, Placed, Lists
<1>4. b \in Nat /\ b + 1 = (IF check THEN 1 ELSE s.batched + 1)
  BY <1>3
<1>5. p \in Nat /\ (p = 0 \/ (w \notin {NONE, r} /\ p <= s.passed + 1))
  <2>1. CASE w \in {NONE, r}
    BY <2>1
  <2>2. CASE w \notin {NONE, r} /\ s.passed <= fifo_batch + 1
    <3>1. p = s.passed + 1
      BY <2>2
    <3> QED
      BY <1>3, <2>2, <3>1
  <2>3. CASE w \notin {NONE, r} /\ ~ (s.passed <= fifo_batch + 1)
    <3>1. p = s.passed
      BY <2>3
    <3> QED
      BY <1>3, <2>3, <3>1
  <2> QED
    BY <2>1, <2>2, <2>3
<1> HIDE DEF check, e, r, b, w, p, t
<1>6. CASE r = NONE
  <2>1. t = [s EXCEPT !.batched = b]
    BY <1>1, <1>6
  <2>2. t \in Lists
    BY <1>3, <1>4, <2>1 DEF Lists
  <2>3. /\ t.queue_head = s.queue_head /\ t.noop_queue = s.noop_queue
        /\ t.fifo_list = s.fifo_list /\ t.nr_sorted = s.nr_sorted
        /\ t.last_merge = s.last_merge /\ t.passed = s.passed /\ t.batched = b
    BY <1>3, <2>1 DEF Lists
  <2>4. sorted_of(s) = {}
    <3>1. <<>> \in Seq(Rq) /\ Range(<<>>) = {}
      BY DEF Range
    <3> QED
      BY <1>2, <1>3, <1>6, <3>1 DEF sorted_of, Sync
  <2>5. b \in {0, s.batched}
    BY DEF b
  <2>6. Stayed(s, t)
    BY <2>2, <2>3, <2>4 DEF Stayed
  <2>7. Batched(s, t)
    BY <1>2, <1>6, <2>3, <2>5 DEF Batched, Sync
  <2> QED
    BY <2>6, <2>7 DEF t
<1>7. CASE r # NONE
  <2>1. PICK q \in Sync : s.fifo_list[q] # <<>> /\ r = Head(s.fifo_list[q])
    BY <1>2, <1>7
  <2>2. s.fifo_list[q] \in Seq(Rq) /\ distinct(s.fifo_list[q])
    BY <1>3
  <2>3. r \in Range(s.fifo_list[q]) /\ r \in Rq
    BY <2>1, <2>2, TailOf, RangeOf
  <2>4. rq[r].sync = q
    BY <2>3 DEF Sound, Placed
  <2> DEFINE g == RemoveFirst(s.fifo_list[q], r)
  <2>5. /\ g \in Seq(Rq) /\ distinct(g) /\ Range(g) = Range(s.fifo_list[q]) \ {r}
        /\ \A x, y : ahead(g, x, y) => ahead(s.fifo_list[q], x, y)
    BY <2>2, Removed
  <2> HIDE DEF g
  <2>6. u = [s EXCEPT !.fifo_list = [s.fifo_list EXCEPT ![q] = g], !.batched = b + 1, !.passed = p]
    BY <2>4 DEF g
  <2> HIDE DEF u
  <2>7. [s.fifo_list EXCEPT ![q] = g] \in [Sync -> Seq(Rq)]
    BY <1>3, <2>5
  <2>8. u \in Lists
    <3>1. b + 1 \in Nat /\ p \in Nat
      BY <1>4, <1>5
    <3> DEFINE h == [s.fifo_list EXCEPT ![q] = g]
               c == b + 1
    <3>2. u = [s EXCEPT !.fifo_list = h, !.batched = c, !.passed = p]
      BY <2>6
    <3>3. h \in [Sync -> Seq(Rq)] /\ c \in Nat
      BY <2>7, <3>1
    <3> HIDE DEF h, c
    <3> QED
      BY <1>3, <3>1, <3>2, <3>3 DEF Lists
  <2>9. /\ u.fifo_list = [s.fifo_list EXCEPT ![q] = g] /\ u.batched = b + 1 /\ u.passed = p
        /\ u.queue_head = s.queue_head /\ u.noop_queue = s.noop_queue
        /\ u.nr_sorted = s.nr_sorted /\ u.last_merge = s.last_merge
    BY <1>3, <2>6 DEF Lists
  <2>10. t = elv_dispatch_add_tail(u, r)
    BY <1>1, <1>7
  <2>11. /\ t \in Lists
         /\ t.fifo_list = u.fifo_list /\ t.noop_queue = u.noop_queue
         /\ t.queue_head = Append(u.queue_head, r)
         /\ t.batched = u.batched /\ t.passed = u.passed
         /\ t.nr_sorted = u.nr_sorted - 1
         /\ t.last_merge = IF u.last_merge = r THEN NONE ELSE u.last_merge
    BY <2>3, <2>8, <2>10, AddedToDispatch
  <2>12. ASSUME NEW x \in Sync
         PROVE  /\ distinct(t.fifo_list[x])
                /\ Range(t.fifo_list[x]) = Range(s.fifo_list[x]) \ {r}
                /\ \A y, z : ahead(t.fifo_list[x], y, z) => ahead(s.fifo_list[x], y, z)
    <3>1. CASE x = q
      <4>1. t.fifo_list[x] = g
        BY <1>3, <2>9, <2>11, <3>1
      <4> QED
        BY <2>5, <3>1, <4>1
    <3>2. CASE x # q
      <4>1. t.fifo_list[x] = s.fifo_list[x]
        BY <1>3, <2>9, <2>11, <3>2
      <4>2. r \notin Range(s.fifo_list[x])
        BY <2>4, <3>2 DEF Sound, Placed
      <4> QED
        BY <1>3, <4>1, <4>2
    <3> QED
      BY <3>1, <3>2
  <2>13. r \in sorted_of(s)
    BY <2>3 DEF sorted_of, Sync
  <2>14. distinct(t.noop_queue) /\ Range(t.noop_queue) = Range(s.noop_queue) \ {r}
    <3>1. t.noop_queue = <<>> /\ s.noop_queue = <<>>
      BY <1>3, <2>9, <2>11
    <3>2. Range(<<>>) = {} /\ distinct(<<>>)
      BY DEF Range, distinct
    <3> QED
      BY <3>1, <3>2
  <2>15. Moved(s, t, r)
    BY <2>9, <2>11, <2>12, <2>13, <2>14 DEF Moved
  <2>16. Batched(s, t)
    <3>1. t.batched = IF s.batched > fifo_batch THEN 1 ELSE s.batched + 1
      BY <1>4, <2>9, <2>11 DEF check
    <3>2. t.passed = p
      BY <2>9, <2>11
    <3>3. CASE p = 0
      BY <3>1, <3>2, <3>3 DEF Batched
    <3>4. CASE p # 0
      <4>1. w \notin {NONE, r} /\ p <= s.passed + 1
        BY <1>5, <3>4
      <4>2. ~ (s.batched > fifo_batch)
        BY <1>2, <4>1 DEF check
      <4>3. s.fifo_list["ASYNC"] # <<>> /\ w = Head(s.fifo_list["ASYNC"])
        BY <1>2, <4>1
      <4>4. s.fifo_list["ASYNC"] \in Seq(Rq) /\ distinct(s.fifo_list["ASYNC"])
        BY <1>3 DEF Sync
      <4>5. w \in Range(s.fifo_list["ASYNC"])
        BY <4>3, <4>4, TailOf
      <4>6. w \in Range(t.fifo_list["ASYNC"])
        BY <2>12, <4>1, <4>5 DEF Sync
      <4>7. t.fifo_list["ASYNC"] # <<>>
        BY <4>6 DEF Range
      <4> QED
        BY <3>1, <3>2, <4>1, <4>2, <4>7 DEF Batched
    <3> QED
      BY <3>3, <3>4
  <2> QED
    BY <2>3, <2>15, <2>16 DEF t
<1> QED
  BY <1>6, <1>7

(* So does noop_dispatch, which knows no batches.                          *)
LEMMA NoopDispatches ==
  ASSUME NEW s, NEW f, Sound(s, f, "noop")
  PROVE  LET t == noop_dispatch(s)
         IN  /\ Stayed(s, t) \/ \E r \in Rq : Moved(s, t, r)
             /\ t.batched = s.batched /\ t.passed = s.passed /\ t.fifo_list = s.fifo_list
<1> DEFINE t == noop_dispatch(s)
           r == Head(s.noop_queue)
           u == [s EXCEPT !.noop_queue = Tail(s.noop_queue)]
<1>1. /\ s \in Lists /\ s.noop_queue \in Seq(Rq) /\ distinct(s.noop_queue)
      /\ s.fifo_list \in [Sync -> Seq(Rq)] /\ \A q \in Sync : s.fifo_list[q] = <<>>
  BY DEF Sound, Placed, Lists
<1>2. Range(<<>>) = {} /\ distinct(<<>>) /\ \A a, b : ~ ahead(<<>>, a, b)
  BY DEF Range, distinct, ahead
<1>3. CASE s.noop_queue = <<>>
  <2>1. t = s
    BY <1>3 DEF noop_dispatch
  <2>2. sorted_of(s) = {}
    BY <1>1, <1>2, <1>3 DEF sorted_of, Sync
  <2> QED
    BY <1>1, <2>1, <2>2 DEF Stayed
<1>4. CASE s.noop_queue # <<>>
  <2>1. t = elv_dispatch_add_tail(u, r)
    BY <1>4 DEF noop_dispatch
  <2>2. /\ r \in Range(s.noop_queue) /\ r \in Rq
        /\ Tail(s.noop_queue) \in Seq(Rq) /\ distinct(Tail(s.noop_queue))
        /\ Range(Tail(s.noop_queue)) = Range(s.noop_queue) \ {r}
    BY <1>1, <1>4, TailOf, RangeOf
  <2>3. u \in Lists
    BY <1>1, <2>2 DEF Lists
  <2>4. /\ u.fifo_list = s.fifo_list /\ u.batched = s.batched /\ u.passed = s.passed
        /\ u.queue_head = s.queue_head /\ u.noop_queue = Tail(s.noop_queue)
        /\ u.nr_sorted = s.nr_sorted /\ u.last_merge = s.last_merge
    BY <1>1 DEF Lists
  <2> HIDE DEF u, r, t
  <2>5. /\ t \in Lists
        /\ t.fifo_list = u.fifo_list /\ t.noop_queue = u.noop_queue
        /\ t.queue_head = Append(u.queue_head, r)
        /\ t.batched = u.batched /\ t.passed = u.passed
        /\ t.nr_sorted = u.nr_sorted - 1
        /\ t.last_merge = IF u.last_merge = r THEN NONE ELSE u.last_merge
    BY <2>1, <2>2, <2>3, AddedToDispatch
  <2>6. \A q \in Sync : t.fifo_list[q] = <<>>
    BY <1>1, <2>4, <2>5
  <2>7. Moved(s, t, r)
    BY <1>1, <1>2, <2>2, <2>4, <2>5, <2>6 DEF Moved, sorted_of
  <2> QED
    BY <2>2, <2>4, <2>5, <2>7 DEF t
<1> QED
  BY <1>3, <1>4

(* Whichever the scheduler is, a dispatch leaves sound lists, and moves a  *)
(* request to the end of the dispatch queue if there is one.               *)
LEMMA DispatchMoves ==
  ASSUME NEW s, rq \in Requests, fifo_batch \in Nat, elevator \in {"sio", "noop"},
         Sound(s, rq, elevator)
  PROVE  LET t == elevator_dispatch(s)
         IN  /\ Sound(t, rq, elevator)
             /\ Stayed(s, t) \/ \E r \in Rq : Moved(s, t, r)
<1> DEFINE t == elevator_dispatch(s)
<1>1. Stayed(s, t) \/ \E r \in Rq : Moved(s, t, r)
  <2>1. CASE elevator = "sio"
    <3>1. t = sio_dispatch_requests(s)
      BY <2>1 DEF elevator_dispatch
    <3> QED
      BY <2>1, <3>1, SioDispatches
  <2>2. CASE elevator = "noop"
    <3>1. t = noop_dispatch(s)
      BY <2>2 DEF elevator_dispatch
    <3> QED
      BY <2>2, <3>1, NoopDispatches
  <2> QED
    BY <2>1, <2>2
<1> HIDE DEF t
<1>2. Sound(t, rq, elevator)
  BY <1>1, MovedSound, StayedSound
<1> QED
  BY <1>1, <1>2 DEF t

(* Lists in which the earlier deadline f[r].left comes first, none beyond  *)
(* x, if no expire time was shortened, and where each dispatch of the      *)
(* batch, at most n of them and one more, has passed over the expired head *)
(* at most once.                                                           *)
InOrder(l, f, x) ==
  /\ \A q \in Sync : \A r \in Range(l[q]) : f[r].left <= x[q]
  /\ \A q \in Sync : \A a, b : ahead(l[q], a, b) => f[a].left <= f[b].left

Timed(s, f, x, n) ==
  /\ ~ shortened => InOrder(s.fifo_list, f, x)
  /\ s.passed <= n + 1 /\ s.passed <= s.batched
  /\ s.passed > 0 => s.fifo_list["ASYNC"] # <<>>

(* A dispatch keeps deadlines and batches.                                 *)
LEMMA DispatchTimed ==
  ASSUME NEW s, rq \in Requests, fifo_batch \in Nat, elevator \in {"sio", "noop"},
         Sound(s, rq, elevator), Timed(s, rq, fifo_expire, fifo_batch)
  PROVE  Timed(elevator_dispatch(s), rq, fifo_expire, fifo_batch)
<1> DEFINE t == elevator_dispatch(s)
<1>1. s \in Lists /\ s.batched \in Nat /\ s.passed \in Nat
  BY DEF Sound, Lists
<1>2. CASE elevator = "sio"
  <2>1. t = sio_dispatch_requests(s)
    BY <1>2 DEF elevator_dispatch
  <2>2. (Stayed(s, t) \/ \E r \in Rq : Moved(s, t, r)) /\ Batched(s, t)
    BY <1>2, <2>1, SioDispatches
  <2> HIDE DEF t
  <2>3. t.batched \in Nat /\ t.passed \in Nat
    BY <2>2 DEF Stayed, Moved, Lists
  <2>4. /\ \A q \in Sync : Range(t.fifo_list[q]) \subseteq Range(s.fifo_list[q])
        /\ \A q \in Sync : \A a, b : ahead(t.fifo_list[q], a, b) => ahead(s.fifo_list[q], a, b)
    BY <2>2 DEF Stayed, Moved
  <2>5. /\ t.passed <= fifo_batch + 1 /\ t.passed <= t.batched
        /\ t.passed > 0 => t.fifo_list["ASYNC"] # <<>>
    <3>1. /\ s.passed <= fifo_batch + 1 /\ s.passed <= s.batched
          /\ s.passed > 0 => s.fifo_list["ASYNC"] # <<>>
      BY DEF Timed
    <3>2. CASE /\ t.batched \in {0, s.batched} /\ t.passed = s.passed
               /\ s.fifo_list["ASYNC"] = <<>>
      BY <1>1, <3>1, <3>2
    <3>3. CASE /\ t.batched = IF s.batched > fifo_batch THEN 1 ELSE s.batched + 1
               /\ \/ t.passed = 0
                  \/ /\ ~ (s.batched > fifo_batch)
                     /\ t.passed <= s.passed + 1
                     /\ t.fifo_list["ASYNC"] # <<>>
      BY <1>1, <2>3, <3>1, <3>3
    <3> QED
      BY <2>2, <3>2, <3>3 DEF Batched
  <2>6. Timed(t, rq, fifo_expire, fifo_batch)
    BY <2>4, <2>5 DEF Timed, InOrder
  <2> QED
    BY <2>6 DEF t
<1>3. CASE elevator = "noop"
  <2>1. t = noop_dispatch(s)
    BY <1>3 DEF elevator_dispatch
  <2>2. t.batched = s.batched /\ t.passed = s.passed /\ t.fifo_list = s.fifo_list
    BY <1>3, <2>1, NoopDispatches
  <2> HIDE DEF t
  <2>3. Timed(t, rq, fifo_expire, fifo_batch)
    BY <2>2 DEF Timed
  <2> QED
    BY <2>3 DEF t
<1> QED
  BY <1>2, <1>3

-----------------------------------------------------------------------------
(* elv_drain_elevator.                                                     *)

(* Induction over the natural numbers, as a fact about sets.               *)
LEMMA SetInduction ==
  ASSUME NEW S, 0 \in S, \A n \in Nat : n \in S => n + 1 \in S
  PROVE  Nat \subseteq S
<1> SUFFICES ASSUME Nat \ S # {} PROVE FALSE
  OBVIOUS
<1>1. PICK m \in Nat \ S : \A k \in Nat \ S : ~ (<<k, m>> \in OpToRel(<, Nat))
  BY NatLessThanWellFounded, WFMin
<1>2. m # 0
  BY <1>1
<1>3. m \in Nat /\ m - 1 \in Nat /\ (m - 1) + 1 = m
  <2>1. m \in Nat
    BY <1>1
  <2> QED
    BY ONLY <1>2, <2>1
<1>4. m - 1 \notin S
  BY <1>1, <1>3, Zenon
<1>5. <<m - 1, m>> \in OpToRel(<, Nat)
  <2>1. OpToRel(<, Nat) = {ss \in Nat \X Nat : ss[1] < ss[2]}
    BY DEF OpToRel
  <2>2. <<m - 1, m>> \in Nat \X Nat /\ <<m - 1, m>>[1] < <<m - 1, m>>[2]
    BY ONLY <1>3
  <2> QED
    BY ONLY <2>1, <2>2
<1> QED
  BY <1>1, <1>3, <1>4, <1>5

(* after_dispatches is the function that its definition describes.         *)
LEMMA AfterDispatches ==
  LET N == Cardinality(Rq) + 1
  IN  /\ N \in Nat
      /\ after_dispatches[0] = {lists}
      /\ \A n \in 1 .. N :
           after_dispatches[n] = {elevator_dispatch(s) : s \in after_dispatches[n - 1]}
<1> DEFINE N == Cardinality(Rq) + 1
           step(X) == {elevator_dispatch(s) : s \in X}
           from == {lists}
           F(n, f) == f = [m \in 0 .. n |-> IF m = 0 THEN from ELSE step(f[m - 1])]
           S == {n \in Nat : \E f : F(n, f)}
<1>1. N \in Nat
  BY SioAssumption, FS_CardinalityType
<1> HIDE DEF N
<1>2. after_dispatches = CHOOSE f : F(N, f)
  BY DEF after_dispatches, N
<1> HIDE DEF step, from
<1>3. 0 \in S
  <2> DEFINE g == [m \in 0 .. 0 |-> from]
  <2>1. F(0, g)
    OBVIOUS
  <2> QED
    BY <2>1
<1>4. ASSUME NEW n \in Nat, n \in S PROVE n + 1 \in S
  <2>1. PICK f : F(n, f)
    BY <1>4
  <2> DEFINE g == [m \in 0 .. n + 1 |-> IF m <= n THEN f[m] ELSE step(f[n])]
  <2>2. ASSUME NEW m \in 0 .. n + 1 PROVE g[m] = IF m = 0 THEN from ELSE step(g[m - 1])
    <3>1. CASE m = 0
      BY <2>1, <3>1
    <3>2. CASE m # 0 /\ m <= n
      <4>1. m \in 0 .. n /\ m - 1 \in 0 .. n + 1 /\ m - 1 <= n
        BY <3>2
      <4>2. g[m] = f[m] /\ g[m - 1] = f[m - 1]
        BY <3>2, <4>1
      <4>3. f[m] = step(f[m - 1])
        BY <2>1, <3>2, <4>1
      <4> QED
        BY <3>2, <4>2, <4>3
    <3>3. CASE m = n + 1
      <4>1. m # 0 /\ ~ (m <= n) /\ m - 1 = n /\ n \in 0 .. n + 1 /\ n <= n
        BY <3>3
      <4>2. g[m] = step(f[n]) /\ g[n] = f[n]
        BY <3>3, <4>1
      <4> QED
        BY <4>1, <4>2
    <3> QED
      BY <3>1, <3>2, <3>3
  <2>3. F(n + 1, g)
    BY <2>2
  <2> HIDE DEF F, g
  <2>4. n + 1 \in Nat
    OBVIOUS
  <2> QED
    BY <2>3, <2>4
<1> HIDE DEF S
<1>5. N \in S
  BY <1>1, <1>3, <1>4, SetInduction
<1>6. \E f : F(N, f)
  BY <1>5 DEF S
<1>7. F(N, after_dispatches)
  <2> HIDE DEF F
  <2> QED
    BY <1>2, <1>6
<1>8. after_dispatches[0] = from
  BY <1>1, <1>7
<1>9. \A n \in 1 .. N : after_dispatches[n] = step(after_dispatches[n - 1])
  BY <1>1, <1>7
<1> QED
  BY <1>1, <1>8, <1>9 DEF N, step, from

(* The lists after n dispatches are sound; what was on the dispatch queue  *)
(* keeps its place, what the scheduler held comes behind, and each         *)
(* dispatch leaves it one request less.                                    *)
Drains(n, s) ==
  /\ Sound(s, rq, elevator)
  /\ Range(s.queue_head) \cup sorted_of(s) = Range(queue_head) \cup sorted
  /\ \A a, b : ahead(queue_head, a, b) => ahead(s.queue_head, a, b)
  /\ Range(queue_head) \subseteq Range(s.queue_head)
  /\ sorted_of(s) = {} \/ Cardinality(sorted_of(s)) + n <= Cardinality(Rq)
  /\ Timed(lists, rq, fifo_expire, fifo_batch) => Timed(s, rq, fifo_expire, fifo_batch)

(* One dispatch of a drain.                                                *)
LEMMA DrainStep ==
  ASSUME rq \in Requests, fifo_batch \in Nat, elevator \in {"sio", "noop"},
         NEW n \in Nat, NEW s, Drains(n, s)
  PROVE  Drains(n + 1, elevator_dispatch(s))
<1> DEFINE t == elevator_dispatch(s)
<1>1. Sound(s, rq, elevator) /\ s \in Lists /\ s.queue_head \in Seq(Rq) /\ distinct(s.queue_head)
  BY DEF Drains, Sound, Placed, Lists
<1>2. Sound(t, rq, elevator) /\ (Stayed(s, t) \/ \E r \in Rq : Moved(s, t, r))
  BY <1>1, DispatchMoves
<1>3. Timed(lists, rq, fifo_expire, fifo_batch) => Timed(t, rq, fifo_expire, fifo_batch)
  BY <1>1, DispatchTimed DEF Drains
<1> HIDE DEF t
<1>4. CASE Stayed(s, t)
  <2>1. sorted_of(s) = {} /\ sorted_of(t) = {} /\ t.queue_head = s.queue_head
    BY <1>1, <1>4, StayedSound DEF Stayed
  <2> QED
    BY <1>2, <1>3, <2>1 DEF Drains, t
<1>5. ASSUME NEW r \in Rq, Moved(s, t, r) PROVE Drains(n + 1, t)
  <2>1. /\ sorted_of(t) = sorted_of(s) \ {r}
        /\ Range(t.queue_head) = Range(s.queue_head) \cup {r}
        /\ Cardinality(sorted_of(t)) = Cardinality(sorted_of(s)) - 1
    BY <1>1, <1>5, MovedSound
  <2>2. r \in sorted_of(s) /\ t.queue_head = Append(s.queue_head, r) /\ r \notin Range(s.queue_head)
    BY <1>1, <1>5 DEF Moved, Sound, Placed
  <2>3. \A a, b : ahead(s.queue_head, a, b) => ahead(t.queue_head, a, b)
    BY <1>1, <2>2, AddTail
  <2>4. Range(t.queue_head) \cup sorted_of(t) = Range(s.queue_head) \cup sorted_of(s)
    BY <2>1, <2>2
  <2>5. Cardinality(sorted_of(t)) + (n + 1) <= Cardinality(Rq)
    <3>1. Cardinality(sorted_of(s)) + n <= Cardinality(Rq)
      BY <2>2 DEF Drains
    <3>2. Cardinality(sorted_of(s)) \in Nat /\ Cardinality(Rq) \in Nat
      BY <1>1, SortedFinite
    <3> QED
      BY <2>1, <3>1, <3>2
  <2> QED
    BY <1>2, <1>3, <2>1, <2>3, <2>4, <2>5 DEF Drains
<1> QED
  BY <1>2, <1>4, <1>5 DEF t

(* The start of a drain.                                                   *)
LEMMA DrainStart ==
  ASSUME Sound(lists, rq, elevator)
  PROVE  Drains(0, lists)
<1>1. lists.queue_head = queue_head /\ sorted_of(lists) = sorted
  BY DEF lists, sorted_of, sorted
<1>2. lists \in Lists
  BY DEF Sound
<1>3. Cardinality(sorted_of(lists)) + 0 <= Cardinality(Rq)
  BY <1>2, SortedFinite
<1> QED
  BY <1>1, <1>3 DEF Drains

(* elv_drain_elevator leaves nothing with the scheduler: all of it is on   *)
(* the dispatch queue, behind what was there.                              *)
LEMMA DrainedLists ==
  ASSUME rq \in Requests, fifo_batch \in Nat, elevator \in {"sio", "noop"},
         Sound(lists, rq, elevator), NEW s \in drained
  PROVE  /\ Sound(s, rq, elevator)
         /\ sorted_of(s) = {}
         /\ Range(s.queue_head) = Range(queue_head) \cup sorted
         /\ \A a, b : ahead(queue_head, a, b) => ahead(s.queue_head, a, b)
         /\ Timed(lists, rq, fifo_expire, fifo_batch) => Timed(s, rq, fifo_expire, fifo_batch)
<1> DEFINE N == Cardinality(Rq) + 1
           S == {n \in Nat : n \in 0 .. N => \A x \in after_dispatches[n] : Drains(n, x)}
<1>1. /\ N \in Nat
      /\ after_dispatches[0] = {lists}
      /\ \A n \in 1 .. N :
           after_dispatches[n] = {elevator_dispatch(x) : x \in after_dispatches[n - 1]}
  BY AfterDispatches
<1>2. Cardinality(Rq) \in Nat /\ N = Cardinality(Rq) + 1
  BY SioAssumption, FS_CardinalityType
<1> HIDE DEF N
<1>3. 0 \in S
  BY <1>1, DrainStart
<1>4. ASSUME NEW n \in Nat, n \in S PROVE n + 1 \in S
  <2> SUFFICES ASSUME n + 1 \in 0 .. N, NEW y \in after_dispatches[n + 1] PROVE Drains(n + 1, y)
    OBVIOUS
  <2>1. n + 1 \in 1 .. N /\ n \in 0 .. N /\ (n + 1) - 1 = n
    BY <1>1
  <2>2. after_dispatches[n + 1] = {elevator_dispatch(x) : x \in after_dispatches[n]}
    BY <1>1, <2>1
  <2>3. PICK x \in after_dispatches[n] : y = elevator_dispatch(x)
    BY <2>2
  <2>4. Drains(n, x)
    BY <1>4, <2>1, <2>3
  <2> QED
    BY <2>3, <2>4, DrainStep
<1> HIDE DEF S
<1>5. N \in S
  BY <1>1, <1>3, <1>4, SetInduction
<1>6. Drains(N, s)
  BY <1>1, <1>5 DEF S, drained, N
<1>7. sorted_of(s) = {}
  <2>1. s \in Lists
    BY <1>6 DEF Drains, Sound
  <2>2. Cardinality(sorted_of(s)) \in Nat
    BY <2>1, SortedFinite
  <2>3. ~ (Cardinality(sorted_of(s)) + N <= Cardinality(Rq))
    BY <1>2, <2>2
  <2> QED
    BY <1>6, <2>3 DEF Drains
<1> QED
  BY <1>6, <1>7 DEF Drains

-----------------------------------------------------------------------------
(* The inductive invariant.                                                *)

live == task \cup driver \cup Range(queue_head) \cup sorted

Privs(L, f) == {r \in L : f[r].priv}

Types ==
  /\ rq \in Requests
  /\ task \subseteq Rq /\ driver \subseteq Rq
  /\ fifo_expire \in ExpireTimes /\ fifo_batch \in Batches
  /\ before \in [Rq -> SUBSET Rq]
  /\ elevator \in {"sio", "noop"} /\ elvswitch \in BOOLEAN /\ shortened \in BOOLEAN

(* A request that the task or the driver has is on no list.                *)
Apart ==
  /\ task \cap driver = {}
  /\ (task \cup driver) \cap (Range(queue_head) \cup sorted) = {}

(* elvpriv counts the requests that the scheduler has, had or will have.   *)
Counted ==
  /\ elvpriv = Cardinality(Privs(live, rq))
  /\ \A r \in sorted : rq[r].priv

(* Once the old scheduler is left, until the switch ends, there is no such *)
(* request, and none is allocated.                                         *)
Switching ==
  /\ switcher \in {"idle", "alloc", "quiesce", "attached", "failed", "exited", "oops"}
  /\ switcher \in {"quiesce", "attached", "failed", "exited"} => elvswitch
  /\ switcher \in {"attached", "failed", "exited"} => elvpriv = 0

(* What was queued before a barrier is with the driver or ahead of it.     *)
Barriers ==
  /\ \A r \in Rq : r \notin Range(queue_head) => before[r] = {}
  /\ \A r \in Range(queue_head) : \A b \in before[r] : b \in driver \/ ahead(queue_head, b, r)

IInv ==
  /\ Types
  /\ Sound(lists, rq, elevator)
  /\ Apart
  /\ Counted
  /\ Switching
  /\ Barriers

(* The fields of lists.                                                    *)
LEMMA ListsFields ==
  /\ lists.fifo_list = fifo_list /\ lists.noop_queue = noop_queue
  /\ lists.queue_head = queue_head /\ lists.batched = batched
  /\ lists.nr_sorted = nr_sorted /\ lists.last_merge = last_merge /\ lists.passed = passed
  /\ sorted_of(lists) = sorted
BY DEF lists, sorted_of, sorted

(* The invariant says where lists and requests are.                        *)
LEMMA Facts ==
  ASSUME IInv
  PROVE  /\ queue_head \in Seq(Rq) /\ distinct(queue_head)
         /\ noop_queue \in Seq(Rq) /\ distinct(noop_queue)
         /\ fifo_list \in [Sync -> Seq(Rq)] /\ \A q \in Sync : distinct(fifo_list[q])
         /\ \A q \in Sync : \A r \in Range(fifo_list[q]) : rq[r].sync = q /\ r \in sorted
         /\ Range(queue_head) \subseteq Rq /\ sorted \subseteq Rq /\ live \subseteq Rq
         /\ Range(queue_head) \cap sorted = {} /\ free = Rq \ live
         /\ batched \in Nat /\ nr_sorted \in Nat /\ last_merge \in Rq \cup {NONE} /\ passed \in Nat
         /\ IsFiniteSet(Privs(live, rq)) /\ IsFiniteSet(sorted)
         /\ fifo_batch \in Nat /\ elvpriv \in Nat /\ NONE \notin Rq
         /\ fifo_expire["SYNC"] \in Nat /\ fifo_expire["ASYNC"] \in Nat
<1>1. /\ lists \in Lists /\ Placed(lists, rq, elevator)
      /\ nr_sorted = Cardinality(sorted)
  BY ListsFields DEF IInv, Sound
<1>2. /\ queue_head \in Seq(Rq) /\ noop_queue \in Seq(Rq) /\ fifo_list \in [Sync -> Seq(Rq)]
      /\ batched \in Nat /\ last_merge \in Rq \cup {NONE} /\ passed \in Nat
  BY <1>1 DEF lists, Lists
<1>3. /\ distinct(queue_head) /\ distinct(noop_queue) /\ \A q \in Sync : distinct(fifo_list[q])
      /\ \A q \in Sync : \A r \in Range(fifo_list[q]) : rq[r].sync = q
      /\ Range(queue_head) \cap sorted = {}
  BY <1>1, ListsFields DEF Placed
<1>4. \A q \in Sync : \A r \in Range(fifo_list[q]) : r \in sorted
  BY DEF sorted, Sync
<1>5. Range(queue_head) \subseteq Rq /\ sorted \subseteq Rq /\ IsFiniteSet(sorted)
      /\ Cardinality(sorted) \in Nat
  BY <1>1, <1>2, RangeOf, SortedFinite, ListsFields
<1>6. live \subseteq Rq
  BY <1>5 DEF live, IInv, Types
<1>7. free = Rq \ live
  BY DEF free, live
<1>8. IsFiniteSet(Privs(live, rq)) /\ Cardinality(Privs(live, rq)) \in Nat
  <2>1. Privs(live, rq) \in SUBSET Rq
    BY <1>6 DEF Privs
  <2> QED
    BY <2>1, SioAssumption, FS_Subset, FS_CardinalityType
<1>9. /\ fifo_batch \in Nat /\ NONE \notin Rq
      /\ fifo_expire["SYNC"] \in Nat /\ fifo_expire["ASYNC"] \in Nat
  BY SioAssumption DEF IInv, Types, Sync, ExpireTimes
<1>10. elvpriv \in Nat
  BY <1>8 DEF IInv, Counted
<1> QED
  BY <1>1, <1>2, <1>3, <1>4, <1>5, <1>6, <1>7, <1>8, <1>9, <1>10

(* set_lists gives lists its value.                                        *)
LEMMA ListsSet ==
  ASSUME NEW s \in Lists, set_lists(s)
  PROVE  /\ lists' = s
         /\ sorted' = sorted_of(s) /\ queue_head' = s.queue_head /\ passed' = s.passed
BY DEF set_lists, lists, Lists, sorted, sorted_of

(* Steps that move requests between lists allocate and free none.          *)
LEMMA CountKept ==
  ASSUME IInv, live' = live, \A r \in Rq : rq'[r].priv = rq[r].priv, UNCHANGED elvpriv,
         \A r \in sorted' : rq[r].priv
  PROVE  Counted'
<1>1. live \subseteq Rq
  BY Facts
<1>2. Privs(live, rq)' = Privs(live, rq)
  BY <1>1 DEF Privs
<1>3. sorted' \subseteq Rq
  BY <1>1 DEF live
<1> QED
  BY <1>2, <1>3 DEF IInv, Counted

(* Steps that take no request away from a list keep barriers in order.     *)
LEMMA BarriersKept ==
  ASSUME IInv, UNCHANGED <<driver, before>>,
         Range(queue_head) \subseteq Range(queue_head'), Range(queue_head') \subseteq Rq,
         \A a, b : ahead(queue_head, a, b) => ahead(queue_head', a, b)
  PROVE  Barriers'
<1>1. ASSUME NEW r \in Rq, r \notin Range(queue_head') PROVE before'[r] = {}
  BY <1>1 DEF IInv, Barriers
<1>2. ASSUME NEW r \in Range(queue_head'), NEW b \in before'[r]
      PROVE  b \in driver' \/ ahead(queue_head', b, r)
  <2>1. CASE r \in Range(queue_head)
    BY <1>2, <2>1 DEF IInv, Barriers
  <2>2. CASE r \notin Range(queue_head)
    BY <1>2, <2>2 DEF IInv, Barriers
  <2> QED
    BY <2>1, <2>2
<1> QED
  BY <1>1, <1>2 DEF Barriers

-----------------------------------------------------------------------------
(* The steps: allocation and freeing.                                      *)

(* get_request takes a request that is nowhere.                            *)
LEMMA GetRequestStep ==
  ASSUME IInv, NEW r \in Rq, NEW s \in Sync, NEW b \in BOOLEAN, get_request(r, s, b)
  PROVE  IInv'
<1>1. r \notin task /\ r \notin driver /\ r \notin Range(queue_head) /\ r \notin sorted /\ r \notin live
  BY Facts DEF get_request, live
<1>2. /\ UNCHANGED <<lists, queue_head, sorted, driver, before, elevator, elvswitch, switcher, shortened>>
      /\ UNCHANGED <<fifo_expire, fifo_batch, fifo_list>>
  BY DEF get_request, lists, sorted, sioVars, switchVars
<1>3. rq' = [rq EXCEPT ![r] = [sync |-> s, priv |-> ~elvswitch, barrier |-> b, left |-> 0]]
      /\ task' = task \cup {r}
  BY DEF get_request
<1>4. Types'
  <2>1. [sync |-> s, priv |-> ~elvswitch, barrier |-> b, left |-> 0]
        \in [sync : Sync, priv : BOOLEAN, barrier : BOOLEAN, left : Nat \cup {-1}]
    BY DEF IInv, Types
  <2>2. rq' \in Requests
    BY <1>3, <2>1 DEF IInv, Types, Requests
  <2> QED
    BY <1>2, <1>3, <2>2 DEF IInv, Types
<1>5. \A x \in Rq \ {r} : rq'[x] = rq[x]
  BY <1>3 DEF IInv, Types, Requests
<1>6. Sound(lists', rq', elevator')
  <2>1. \A q \in Sync : \A x \in Range(fifo_list[q]) : rq'[x].sync = q
    <3>1. \A q \in Sync : \A x \in Range(fifo_list[q]) : rq[x].sync = q /\ x \in Rq \ {r}
      BY <1>1, Facts
    <3> QED
      BY <1>5, <3>1
  <2> QED
    BY <1>2, <2>1, ListsFields DEF IInv, Sound, Placed
<1>7. Apart'
  BY <1>1, <1>2, <1>3 DEF IInv, Apart
<1>8. rq'[r].priv = ~elvswitch
  BY <1>3 DEF IInv, Types, Requests
<1>9. live' = live \cup {r}
  BY <1>2, <1>3 DEF live
<1>10. live \subseteq Rq /\ IsFiniteSet(Privs(live, rq)) /\ elvpriv \in Nat
       /\ elvpriv = Cardinality(Privs(live, rq))
  BY Facts DEF IInv, Counted
<1>11. Privs(live', rq') = IF elvswitch THEN Privs(live, rq) ELSE Privs(live, rq) \cup {r}
  BY <1>1, <1>5, <1>8, <1>9, <1>10 DEF Privs
<1>12. r \notin Privs(live, rq)
  BY <1>1 DEF Privs
<1>13. elvpriv' = Cardinality(Privs(live', rq')) /\ elvpriv' = elvpriv + (IF elvswitch THEN 0 ELSE 1)
  <2>1. elvpriv' = elvpriv + (IF elvswitch THEN 0 ELSE 1)
    BY DEF get_request
  <2>2. CASE elvswitch
    BY <1>10, <1>11, <2>1, <2>2
  <2>3. CASE ~ elvswitch
    BY <1>10, <1>11, <1>12, <2>1, <2>3, FS_AddElement
  <2> QED
    BY <2>1, <2>2, <2>3
<1>14. Counted'
  <2>1. \A x \in sorted : x \in Rq \ {r} /\ rq[x].priv
    BY <1>1, Facts DEF IInv, Counted
  <2>2. \A x \in sorted : rq'[x].priv
    BY <1>5, <2>1
  <2> QED
    BY <1>2, <1>13, <2>2 DEF Counted
<1>15. Switching'
  BY <1>2, <1>10, <1>13 DEF IInv, Switching
<1>16. Barriers'
  BY <1>2 DEF IInv, Barriers
<1> QED
  BY <1>4, <1>6, <1>7, <1>14, <1>15, <1>16 DEF IInv

(* freed_request takes a request out of the count.                         *)
LEMMA FreedCount ==
  ASSUME IInv, NEW r \in live, NEW f, freed_request(r, f), live' = live \ {r},
         \A x \in Rq \ {r} : f[x].priv = rq[x].priv, sorted' \subseteq sorted \ {r}
  PROVE  Counted' /\ elvpriv' <= elvpriv /\ elvpriv' \in Nat
<1>1. live \subseteq Rq /\ IsFiniteSet(Privs(live, rq)) /\ elvpriv \in Nat
      /\ elvpriv = Cardinality(Privs(live, rq)) /\ sorted \subseteq Rq
  BY Facts DEF IInv, Counted
<1>2. rq' = f /\ elvpriv' = elvpriv - (IF rq[r].priv THEN 1 ELSE 0)
  BY DEF freed_request
<1>3. Privs(live', rq') = Privs(live, rq) \ {r}
  BY <1>1, <1>2 DEF Privs
<1>4. r \in Privs(live, rq) <=> rq[r].priv
  BY DEF Privs
<1>5. Cardinality(Privs(live, rq) \ {r}) = IF rq[r].priv THEN elvpriv - 1 ELSE elvpriv
  BY <1>1, <1>4, FS_RemoveElement
<1>6. Cardinality(Privs(live, rq) \ {r}) \in Nat
  BY <1>1, FS_RemoveElement, FS_CardinalityType
<1>7. elvpriv' = Cardinality(Privs(live', rq'))
  <2>1. CASE rq[r].priv
    BY <1>2, <1>3, <1>5, <2>1
  <2>2. CASE ~ rq[r].priv
    <3>1. elvpriv' = elvpriv - 0
      BY <1>2, <2>2
    <3>2. Cardinality(Privs(live, rq) \ {r}) = elvpriv
      BY <1>5, <2>2
    <3>3. elvpriv' = elvpriv
      BY <1>1, <3>1
    <3> QED
      BY <1>3, <3>2, <3>3
  <2> QED
    BY <2>1, <2>2
<1>8. \A x \in sorted' : rq'[x].priv
  BY <1>1, <1>2 DEF IInv, Counted
<1>9. elvpriv' <= elvpriv
  <2>1. CASE rq[r].priv
    BY <1>1, <1>2, <2>1
  <2>2. CASE ~ rq[r].priv
    BY <1>1, <1>2, <2>2
  <2> QED
    BY <2>1, <2>2
<1> QED
  BY <1>3, <1>6, <1>7, <1>8, <1>9 DEF Counted

(* And no barrier waits for it any more.                                   *)
LEMMA FreedBarriers ==
  ASSUME IInv, NEW r \in Rq, NEW f, freed_request(r, f), UNCHANGED queue_head,
         r \notin Range(queue_head), driver \ {r} \subseteq driver'
  PROVE  Barriers' /\ before' \in [Rq -> SUBSET Rq]
<1>1. before' = [b \in Rq |-> IF b = r THEN {} ELSE before[b] \ {r}]
  BY DEF freed_request
<1>2. before \in [Rq -> SUBSET Rq] /\ Range(queue_head) \subseteq Rq
  BY Facts DEF IInv, Types
<1>3. \A x \in Rq : before'[x] \subseteq before[x] \ {r}
  <2>1. before[r] = {}
    BY DEF IInv, Barriers
  <2> QED
    BY <1>1, <1>2, <2>1
<1>4. before' \in [Rq -> SUBSET Rq]
  BY <1>1, <1>2
<1>5. ASSUME NEW x \in Rq, x \notin Range(queue_head') PROVE before'[x] = {}
  BY <1>3, <1>5 DEF IInv, Barriers
<1>6. ASSUME NEW x \in Range(queue_head'), NEW b \in before'[x]
      PROVE  b \in driver' \/ ahead(queue_head', b, x)
  BY <1>2, <1>3, <1>6 DEF IInv, Barriers
<1> QED
  BY <1>4, <1>5, <1>6 DEF Barriers

(* noRq is a request's flags.                                              *)
LEMMA NoRqType ==
  noRq \in [sync : Sync, priv : BOOLEAN, barrier : BOOLEAN, left : Nat \cup {-1}]
BY DEF noRq, Sync

(* alloc_fails and blk_finish_request free a request that the task, or the *)
(* driver, has.                                                            *)
LEMMA FreeStep ==
  ASSUME IInv, NEW r \in Rq, alloc_fails(r) \/ blk_finish_request(r)
  PROVE  IInv'
<1> DEFINE f == [rq EXCEPT ![r] = noRq]
<1>1. /\ r \in task \cup driver
      /\ task' = task \ {r} /\ driver' = driver \ {r}
      /\ freed_request(r, f)
      /\ UNCHANGED <<lists, queue_head, sorted, elevator, elvswitch, switcher, shortened>>
      /\ UNCHANGED <<fifo_expire, fifo_batch, fifo_list>>
  <2>1. UNCHANGED <<lists, queue_head, sorted, elevator, elvswitch, switcher, shortened>>
        /\ UNCHANGED <<fifo_expire, fifo_batch, fifo_list>>
    BY DEF alloc_fails, blk_finish_request, lists, sorted, sioVars, switchVars
  <2>2. CASE alloc_fails(r)
    <3>1. r \in task /\ task' = task \ {r} /\ UNCHANGED driver /\ freed_request(r, f)
      BY <2>2 DEF alloc_fails
    <3>2. r \notin driver
      BY <3>1 DEF IInv, Apart
    <3> QED
      BY <2>1, <3>1, <3>2
  <2>3. CASE blk_finish_request(r)
    <3>1. r \in driver /\ driver' = driver \ {r} /\ UNCHANGED task /\ freed_request(r, f)
      BY <2>3 DEF blk_finish_request
    <3>2. r \notin task
      BY <3>1 DEF IInv, Apart
    <3> QED
      BY <2>1, <3>1, <3>2
  <2> QED
    BY <2>2, <2>3
<1>2. r \notin Range(queue_head) /\ r \notin sorted /\ r \in live
  BY <1>1 DEF IInv, Apart, live
<1>3. live' = live \ {r}
  BY <1>1, <1>2 DEF live
<1>4. rq' = f /\ f \in Requests /\ \A x \in Rq \ {r} : f[x] = rq[x]
  BY <1>1, NoRqType DEF freed_request, IInv, Types, Requests
<1> HIDE DEF f
<1>5. Counted' /\ elvpriv' <= elvpriv /\ elvpriv' \in Nat
  BY <1>1, <1>2, <1>3, <1>4, FreedCount
<1>6. Barriers' /\ before' \in [Rq -> SUBSET Rq]
  BY <1>1, <1>2, FreedBarriers
<1>7. Types'
  BY <1>1, <1>4, <1>6 DEF IInv, Types
<1>8. Sound(lists', rq', elevator')
  <2>1. \A q \in Sync : \A x \in Range(fifo_list[q]) : rq'[x].sync = q
    <3>1. \A q \in Sync : \A x \in Range(fifo_list[q]) : rq[x].sync = q /\ x \in Rq \ {r}
      BY <1>2, Facts
    <3> QED
      BY <1>4, <3>1
  <2> QED
    BY <1>1, <2>1, ListsFields DEF IInv, Sound, Placed
<1>9. Apart'
  BY <1>1 DEF IInv, Apart
<1>10. Switching'
  BY <1>1, <1>5 DEF IInv, Switching
<1> QED
  BY <1>5, <1>6, <1>7, <1>8, <1>9, <1>10 DEF IInv

-----------------------------------------------------------------------------
(* The steps: insertion and merging.                                       *)

(* __elv_add_request gives the request to the scheduler.                   *)
LEMMA InsertSortStep ==
  ASSUME IInv, NEW r \in Rq, elv_insert_sort(r)
  PROVE  IInv'
<1>1. /\ r \in task /\ task' = task \ {r} /\ rq[r].priv
      /\ nr_sorted' = nr_sorted + 1
      /\ last_merge' = IF last_merge = NONE THEN r ELSE last_merge
      /\ UNCHANGED <<driver, queue_head, batched, fifo_expire, fifo_batch, elvpriv, before, passed>>
      /\ UNCHANGED <<elevator, elvswitch, switcher, shortened>>
  BY DEF elv_insert_sort, switchVars
<1>2. /\ r \notin Range(queue_head) /\ r \notin sorted /\ r \notin driver
      /\ \A q \in Sync : r \notin Range(fifo_list[q])
  BY <1>1, Facts DEF IInv, Apart
<1>3. r \notin Range(noop_queue)
  BY <1>2 DEF sorted
<1>4. /\ queue_head \in Seq(Rq) /\ distinct(queue_head)
      /\ noop_queue \in Seq(Rq) /\ distinct(noop_queue)
      /\ fifo_list \in [Sync -> Seq(Rq)] /\ \A q \in Sync : distinct(fifo_list[q])
      /\ \A q \in Sync : \A x \in Range(fifo_list[q]) : rq[x].sync = q
      /\ batched \in Nat /\ passed \in Nat /\ nr_sorted \in Nat /\ last_merge \in Rq \cup {NONE}
      /\ sorted \subseteq Rq /\ IsFiniteSet(sorted) /\ NONE \notin Rq
      /\ Range(queue_head) \cap sorted = {}
  BY Facts
<1>5. /\ nr_sorted = Cardinality(sorted) /\ (last_merge # NONE => last_merge \in sorted)
      /\ (elevator # "noop" => noop_queue = <<>>)
      /\ (elevator # "sio" => \A q \in Sync : fifo_list[q] = <<>>)
      /\ elevator \in {"sio", "noop"} /\ rq \in Requests
  BY ListsFields DEF IInv, Sound, Placed, Types
<1>6. rq[r].sync \in Sync
  BY <1>5 DEF Requests
<1>7. /\ rq' \in Requests
      /\ \A x \in Rq : rq'[x].sync = rq[x].sync /\ rq'[x].priv = rq[x].priv
      /\ noop_queue' \in Seq(Rq) /\ distinct(noop_queue')
      /\ fifo_list' \in [Sync -> Seq(Rq)] /\ \A q \in Sync : distinct(fifo_list'[q])
      /\ \A q \in Sync : \A x \in Range(fifo_list'[q]) : rq[x].sync = q /\ x \in Rq
      /\ sorted' = sorted \cup {r}
      /\ elevator # "noop" => noop_queue' = <<>>
      /\ elevator # "sio" => \A q \in Sync : fifo_list'[q] = <<>>
  <2>1. CASE elevator = "sio"
    <3> DEFINE q0 == rq[r].sync
               l == Append(fifo_list[q0], r)
    <3>1. /\ fifo_list' = [fifo_list EXCEPT ![q0] = l]
          /\ rq' = [rq EXCEPT ![r].left = fifo_expire[q0]] /\ UNCHANGED noop_queue
      BY <2>1 DEF elv_insert_sort, sio_add_request
    <3>2. l \in Seq(Rq) /\ distinct(l) /\ Range(l) = Range(fifo_list[q0]) \cup {r}
      BY <1>2, <1>4, <1>6, AddTail
    <3>3. fifo_expire[q0] \in Nat
      BY <1>6, Facts DEF Sync
    <3> HIDE DEF l
    <3>4. rq' \in Requests /\ \A x \in Rq : rq'[x].sync = rq[x].sync /\ rq'[x].priv = rq[x].priv
      BY <1>5, <3>1, <3>3 DEF Requests
    <3>5. /\ fifo_list' \in [Sync -> Seq(Rq)] /\ fifo_list'[q0] = l
          /\ \A q \in Sync \ {q0} : fifo_list'[q] = fifo_list[q]
      BY <1>4, <1>6, <3>1, <3>2
    <3>6. \A q \in Sync : distinct(fifo_list'[q])
      BY <1>4, <3>2, <3>5
    <3>7. \A q \in Sync : Range(fifo_list'[q]) = IF q = q0 THEN Range(fifo_list[q]) \cup {r}
                                                          ELSE Range(fifo_list[q])
      BY <3>2, <3>5
    <3>8. \A q \in Sync : \A x \in Range(fifo_list'[q]) : rq[x].sync = q /\ x \in Rq
      <4>1. \A q \in Sync : \A x \in Range(fifo_list[q]) : rq[x].sync = q /\ x \in Rq
        BY Facts
      <4>2. ASSUME NEW q \in Sync, NEW x \in Range(fifo_list'[q])
            PROVE  rq[x].sync = q /\ x \in Rq
        <5>1. x \in Range(fifo_list[q]) \/ (x = r /\ q = q0)
          BY <3>7, <4>2
        <5> QED
          BY <4>1, <5>1
      <4> QED
        BY <4>2
    <3>9. sorted' = sorted \cup {r}
      BY <1>6, <3>1, <3>7 DEF sorted, Sync
    <3> QED
      BY <1>4, <1>5, <2>1, <3>1, <3>4, <3>5, <3>6, <3>8, <3>9
  <2>2. CASE elevator # "sio"
    <3>1. noop_queue' = Append(noop_queue, r) /\ UNCHANGED <<fifo_list, rq>>
      BY <2>2 DEF elv_insert_sort, noop_add_request
    <3>2. /\ noop_queue' \in Seq(Rq) /\ distinct(noop_queue')
          /\ Range(noop_queue') = Range(noop_queue) \cup {r}
      BY <1>3, <1>4, <3>1, AddTail
    <3>3. sorted' = sorted \cup {r}
      BY <3>1, <3>2 DEF sorted
    <3> QED
      BY <1>4, <1>5, <2>2, <3>1, <3>2, <3>3, Facts
  <2> QED
    BY <2>1, <2>2
<1>8. /\ nr_sorted' \in Int /\ nr_sorted' = Cardinality(sorted')
      /\ last_merge' \in Rq \cup {NONE} /\ (last_merge' # NONE => last_merge' \in sorted')
  <2>1. Cardinality(sorted') = Cardinality(sorted) + 1
    BY <1>2, <1>4, <1>7, FS_AddElement
  <2> QED
    BY <1>1, <1>4, <1>5, <1>7, <2>1
<1>9. Sound(lists', rq', elevator')
  <2>1. lists' \in Lists
    BY <1>1, <1>4, <1>7, <1>8 DEF lists, Lists
  <2>2. /\ lists'.fifo_list = fifo_list' /\ lists'.noop_queue = noop_queue'
        /\ lists'.queue_head = queue_head' /\ lists'.nr_sorted = nr_sorted'
        /\ lists'.last_merge = last_merge' /\ sorted_of(lists') = sorted'
    BY DEF lists, sorted_of, sorted
  <2>3. \A q \in Sync : \A x \in Range(fifo_list'[q]) : rq'[x].sync = q
    BY <1>7
  <2>4. Range(queue_head') \cap sorted' = {}
    BY <1>1, <1>2, <1>4, <1>7
  <2>5. Placed(lists', rq', elevator')
    BY <1>1, <1>4, <1>7, <2>2, <2>3, <2>4 DEF Placed
  <2> QED
    BY <1>8, <2>1, <2>2, <2>5 DEF Sound
<1>10. Types'
  BY <1>1, <1>7 DEF IInv, Types
<1>11. Apart'
  BY <1>1, <1>2, <1>7 DEF IInv, Apart
<1>12. live' = live
  BY <1>1, <1>7 DEF live
<1>13. Counted'
  <2>1. \A x \in sorted' : rq[x].priv
    BY <1>1, <1>7 DEF IInv, Counted
  <2> QED
    BY <1>1, <1>7, <1>12, <2>1, CountKept
<1>14. Switching'
  BY <1>1 DEF IInv, Switching
<1>15. Barriers'
  BY <1>1 DEF IInv, Barriers
<1> QED
  BY <1>9, <1>10, <1>11, <1>13, <1>14, <1>15 DEF IInv

(* A barrier goes behind everything there is.                              *)
LEMMA InsertBackStep ==
  ASSUME IInv, NEW r \in Rq, elv_insert_back(r)
  PROVE  IInv'
<1>1. /\ r \in task /\ task' = task \ {r}
      /\ before' = [before EXCEPT ![r] = sorted \cup Range(queue_head)]
      /\ UNCHANGED <<rq, driver, fifo_expire, fifo_batch, elvpriv, elevator, elvswitch, switcher, shortened>>
  BY DEF elv_insert_back, switchVars
<1>2. PICK s \in drained : set_lists([s EXCEPT !.queue_head = Append(@, r)])
  BY DEF elv_insert_back
<1>3. /\ Sound(s, rq, elevator) /\ sorted_of(s) = {}
      /\ Range(s.queue_head) = Range(queue_head) \cup sorted
      /\ \A a, b : ahead(queue_head, a, b) => ahead(s.queue_head, a, b)
  BY Facts, DrainedLists DEF IInv, Types
<1>4. r \notin Range(queue_head) /\ r \notin sorted /\ r \notin driver
  BY <1>1 DEF IInv, Apart
<1>5. s \in Lists /\ s.queue_head \in Seq(Rq) /\ distinct(s.queue_head)
  BY <1>3 DEF Sound, Placed, Lists
<1> DEFINE l == Append(s.queue_head, r)
           t == [s EXCEPT !.queue_head = l]
<1>6. /\ l \in Seq(Rq) /\ distinct(l) /\ Range(l) = Range(queue_head) \cup sorted \cup {r}
      /\ \A a, b : ahead(l, a, b) <=> ahead(s.queue_head, a, b)
                                      \/ (a \in Range(s.queue_head) /\ b = r)
  BY <1>3, <1>4, <1>5, AddTail
<1>7. set_lists(t)
  BY <1>2
<1> HIDE DEF l
<1>8. /\ t \in Lists /\ t.queue_head = l /\ t.fifo_list = s.fifo_list
      /\ t.noop_queue = s.noop_queue /\ t.nr_sorted = s.nr_sorted
      /\ t.last_merge = s.last_merge
  BY <1>5, <1>6 DEF Lists
<1> HIDE DEF t
<1>9. sorted_of(t) = {}
  BY <1>3, <1>8 DEF sorted_of
<1>10. Sound(t, rq, elevator)
  BY <1>3, <1>6, <1>8, <1>9 DEF Sound, Placed
<1>11. lists' = t /\ sorted' = {} /\ queue_head' = l
  BY <1>7, <1>8, <1>9, ListsSet
<1>12. Sound(lists', rq', elevator')
  BY <1>1, <1>10, <1>11
<1>13. Types'
  <2>1. sorted \cup Range(queue_head) \subseteq Rq
    BY Facts
  <2> QED
    BY <1>1, <2>1 DEF IInv, Types
<1>14. Apart'
  BY <1>1, <1>4, <1>6, <1>11 DEF IInv, Apart
<1>15. live' = live
  BY <1>1, <1>6, <1>11 DEF live
<1>16. Counted'
  BY <1>1, <1>11, <1>15, CountKept
<1>17. Switching'
  BY <1>1 DEF IInv, Switching
<1>18. Barriers'
  <2>1. before \in [Rq -> SUBSET Rq]
    BY DEF IInv, Types
  <2>2. ASSUME NEW x \in Rq, x \notin Range(queue_head') PROVE before'[x] = {}
    BY <1>1, <1>6, <1>11, <2>1, <2>2 DEF IInv, Barriers
  <2>3. ASSUME NEW x \in Range(queue_head'), NEW b \in before'[x]
        PROVE  b \in driver' \/ ahead(queue_head', b, x)
    <3>1. x \in Rq
      BY <1>6, <1>11, <2>3, RangeOf
    <3>2. CASE x = r
      <4>1. b \in Range(s.queue_head)
        BY <1>1, <1>3, <2>1, <2>3, <3>2
      <4> QED
        BY <1>6, <1>11, <3>2, <4>1
    <3>3. CASE x # r
      <4>1. b \in before[x]
        BY <1>1, <2>1, <2>3, <3>1, <3>3
      <4>2. b \in driver \/ ahead(queue_head, b, x)
        BY <3>1, <4>1 DEF IInv, Barriers
      <4> QED
        BY <1>1, <1>3, <1>6, <1>11, <4>2
    <3> QED
      BY <3>2, <3>3
  <2> QED
    BY <2>2, <2>3 DEF Barriers
<1> QED
  BY <1>12, <1>13, <1>14, <1>16, <1>17, <1>18 DEF IInv

(* A bio is put into a request that the scheduler holds.                   *)
LEMMA MergedStep ==
  ASSUME IInv, NEW r \in Rq, elv_merged_request(r)
  PROVE  IInv'
<1>1. /\ r \in sorted /\ last_merge' = r
      /\ UNCHANGED <<rq, task, driver, queue_head, fifo_list, batched, fifo_expire, fifo_batch>>
      /\ UNCHANGED <<noop_queue, nr_sorted, elvpriv, before, passed, elevator, elvswitch, switcher, shortened>>
  BY DEF elv_merged_request, sioVars, switchVars
<1>2. sorted' = sorted /\ live' = live
  BY <1>1 DEF sorted, live
<1>3. lists' = [lists EXCEPT !.last_merge = r]
  BY <1>1 DEF lists
<1>4. lists \in Lists
  BY DEF IInv, Sound
<1>5. /\ lists' \in Lists /\ lists'.fifo_list = lists.fifo_list
      /\ lists'.noop_queue = lists.noop_queue /\ lists'.queue_head = lists.queue_head
      /\ lists'.nr_sorted = lists.nr_sorted /\ lists'.last_merge = r
  BY <1>3, <1>4 DEF Lists
<1>6. sorted_of(lists') = sorted_of(lists) /\ sorted_of(lists) = sorted
  BY <1>5, ListsFields DEF sorted_of
<1>7. Sound(lists', rq', elevator')
  BY <1>1, <1>5, <1>6 DEF IInv, Sound, Placed
<1> QED
  BY <1>1, <1>2, <1>7, Zenon DEF IInv, Types, Apart, Counted, Privs, Switching, Barriers

(* The two requests that attempt_merge joins are different, and neighbours *)
(* on one list.                                                            *)
LEMMA Neighbours ==
  ASSUME IInv, NEW a \in Rq, NEW b \in Rq, elv_merge_requests(a, b)
  PROVE  /\ a # b /\ a \in sorted /\ b \in sorted
         /\ \/ \E q \in Sync : ahead(fifo_list[q], a, b)
            \/ a \in Range(noop_queue) /\ b \in Range(noop_queue)
<1>1. ASSUME NEW l \in Seq(Rq), adjacent(l, a, b) PROVE ahead(l, a, b)
  <2>1. PICK i \in 1 .. (Len(l) - 1) : l[i] = a /\ l[i + 1] = b
    BY <1>1 DEF adjacent
  <2>2. i \in 1 .. Len(l) /\ i + 1 \in 1 .. Len(l) /\ i < i + 1
    BY <2>1
  <2> QED
    BY <2>1, <2>2 DEF ahead
<1>2. CASE \E q \in Sync : adjacent(fifo_list[q], a, b)
  <2>1. PICK q \in Sync : adjacent(fifo_list[q], a, b)
    BY <1>2
  <2>2. fifo_list[q] \in Seq(Rq) /\ distinct(fifo_list[q])
    BY Facts
  <2>3. ahead(fifo_list[q], a, b)
    BY <1>1, <2>1, <2>2
  <2>4. a # b /\ a \in Range(fifo_list[q]) /\ b \in Range(fifo_list[q])
    BY <2>2, <2>3, Order
  <2> QED
    BY <2>3, <2>4, Facts
<1>3. CASE adjacent(noop_queue, a, b)
  <2>1. noop_queue \in Seq(Rq) /\ distinct(noop_queue)
    BY Facts
  <2>2. ahead(noop_queue, a, b)
    BY <1>1, <1>3, <2>1
  <2>3. a # b /\ a \in Range(noop_queue) /\ b \in Range(noop_queue)
    BY <2>1, <2>2, Order
  <2> QED
    BY <2>3 DEF sorted
<1> QED
  BY <1>2, <1>3 DEF elv_merge_requests

(* What a merge leaves of the lists and the flags.                         *)
LEMMA MergeEffect ==
  ASSUME IInv, NEW a \in Rq, NEW b \in Rq, elv_merge_requests(a, b)
  PROVE  /\ rq' \in Requests
         /\ \A x \in Rq \ {b} : rq'[x].sync = rq[x].sync /\ rq'[x].priv = rq[x].priv
         /\ \A x \in Rq \ {a, b} : rq'[x].left = rq[x].left
         /\ rq'[a].left = IF rq[b].left < rq[a].left THEN rq[b].left ELSE rq[a].left
         /\ noop_queue' \in Seq(Rq) /\ distinct(noop_queue')
         /\ Range(noop_queue') = Range(noop_queue) \ {b}
         /\ fifo_list' \in [Sync -> Seq(Rq)]
         /\ \A q \in Sync : /\ distinct(fifo_list'[q])
                            /\ Range(fifo_list'[q]) = Range(fifo_list[q]) \ {b}
                            /\ \A x, y : ahead(fifo_list'[q], x, y) => ahead(fifo_list[q], x, y)
         /\ sorted' = sorted \ {b}
<1>1. a # b
  BY Neighbours
<1>2. rq \in Requests
  BY DEF IInv, Types
<1> DEFINE m == IF rq[b].left < rq[a].left THEN rq[b].left ELSE rq[a].left
           g == [rq EXCEPT ![b] = noRq]
<1>3. rq' = [g EXCEPT ![a].left = m]
  <2>1. g[a].left = rq[a].left
    BY <1>1, <1>2 DEF Requests
  <2>2. rq' = [rq EXCEPT ![b] = noRq,
                         ![a].left = IF rq[b].left < rq[a].left THEN rq[b].left ELSE @]
    BY DEF elv_merge_requests, freed_request, sio_merged_requests
  <2> QED
    BY <1>1, <1>2, <2>1, <2>2 DEF Requests
<1>4. m \in Nat \cup {-1}
  BY <1>2 DEF Requests
<1>5. g \in Requests /\ g[a] = rq[a] /\ \A x \in Rq \ {b} : g[x] = rq[x]
  BY <1>1, <1>2, NoRqType DEF Requests
<1> HIDE DEF m, g
<1>6. rq' \in Requests
  BY <1>3, <1>4, <1>5 DEF Requests
<1>7. /\ \A x \in Rq \ {b} : rq'[x].sync = rq[x].sync /\ rq'[x].priv = rq[x].priv
      /\ \A x \in Rq \ {a, b} : rq'[x].left = rq[x].left
      /\ rq'[a].left = m
  BY <1>1, <1>3, <1>5 DEF Requests
<1>8. /\ fifo_list' = [q \in Sync |-> RemoveFirst(fifo_list[q], b)]
      /\ noop_queue' = RemoveFirst(noop_queue, b)
  BY DEF elv_merge_requests
<1>9. /\ noop_queue' \in Seq(Rq) /\ distinct(noop_queue')
      /\ Range(noop_queue') = Range(noop_queue) \ {b}
  BY <1>8, Facts, Removed
<1>10. ASSUME NEW q \in Sync
       PROVE  /\ fifo_list'[q] \in Seq(Rq) /\ distinct(fifo_list'[q])
              /\ Range(fifo_list'[q]) = Range(fifo_list[q]) \ {b}
              /\ \A x, y : ahead(fifo_list'[q], x, y) => ahead(fifo_list[q], x, y)
  <2>1. fifo_list[q] \in Seq(Rq) /\ distinct(fifo_list[q])
    BY Facts
  <2>2. fifo_list'[q] = RemoveFirst(fifo_list[q], b)
    BY <1>8
  <2> QED
    BY <2>1, <2>2, Removed
<1>11. fifo_list' \in [Sync -> Seq(Rq)]
  BY <1>8, <1>10
<1>12. sorted' = sorted \ {b}
  BY <1>9, <1>10 DEF sorted, Sync
<1> QED
  BY <1>6, <1>7, <1>9, <1>10, <1>11, <1>12 DEF m

(* attempt_merge joins two requests of the scheduler.                      *)
LEMMA MergeStep ==
  ASSUME IInv, NEW a \in Rq, NEW b \in Rq, elv_merge_requests(a, b)
  PROVE  IInv'
<1>1. a # b /\ a \in sorted /\ b \in sorted
  BY Neighbours
<1>2. /\ freed_request(b, sio_merged_requests(a, b))
      /\ nr_sorted' = nr_sorted - 1 /\ last_merge' = a
      /\ UNCHANGED <<task, driver, queue_head, batched, fifo_expire, fifo_batch, passed>>
      /\ UNCHANGED <<elevator, elvswitch, switcher, shortened>>
  BY DEF elv_merge_requests, switchVars
<1>3. /\ rq' \in Requests
      /\ \A x \in Rq \ {b} : rq'[x].sync = rq[x].sync /\ rq'[x].priv = rq[x].priv
      /\ noop_queue' \in Seq(Rq) /\ distinct(noop_queue')
      /\ Range(noop_queue') = Range(noop_queue) \ {b}
      /\ fifo_list' \in [Sync -> Seq(Rq)]
      /\ \A q \in Sync : /\ distinct(fifo_list'[q])
                         /\ Range(fifo_list'[q]) = Range(fifo_list[q]) \ {b}
      /\ sorted' = sorted \ {b}
  BY MergeEffect
<1>4. /\ queue_head \in Seq(Rq) /\ distinct(queue_head)
      /\ batched \in Nat /\ passed \in Nat /\ nr_sorted \in Nat
      /\ sorted \subseteq Rq /\ IsFiniteSet(sorted) /\ NONE \notin Rq
      /\ Range(queue_head) \cap sorted = {} /\ noop_queue \in Seq(Rq)
      /\ fifo_list \in [Sync -> Seq(Rq)]
      /\ \A q \in Sync : \A x \in Range(fifo_list[q]) : rq[x].sync = q /\ x \in Rq
  BY Facts
<1>5. b \notin Range(queue_head) /\ b \notin task /\ b \notin driver /\ b \in live
  BY <1>1, <1>4 DEF IInv, Apart, live
<1>6. live' = live \ {b}
  BY <1>2, <1>3, <1>5 DEF live
<1>7. Counted' /\ elvpriv' <= elvpriv /\ elvpriv' \in Nat
  <2>1. rq' = sio_merged_requests(a, b)
    BY <1>2 DEF freed_request
  <2>2. \A x \in Rq \ {b} : sio_merged_requests(a, b)[x].priv = rq[x].priv
    BY <1>3, <2>1
  <2> QED
    BY <1>2, <1>3, <1>5, <1>6, <2>2, FreedCount
<1>8. Barriers' /\ before' \in [Rq -> SUBSET Rq]
  BY <1>2, <1>5, FreedBarriers
<1>9. nr_sorted' \in Int /\ nr_sorted' = Cardinality(sorted')
  <2>1. nr_sorted = Cardinality(sorted)
    BY ListsFields DEF IInv, Sound
  <2>2. Cardinality(sorted') = Cardinality(sorted) - 1
    BY <1>1, <1>3, <1>4, FS_RemoveElement
  <2> QED
    BY <1>2, <1>4, <2>1, <2>2
<1>10. Sound(lists', rq', elevator')
  <2>1. lists' \in Lists
    BY <1>2, <1>3, <1>4, <1>9 DEF lists, Lists
  <2>2. /\ lists'.fifo_list = fifo_list' /\ lists'.noop_queue = noop_queue'
        /\ lists'.queue_head = queue_head' /\ lists'.nr_sorted = nr_sorted'
        /\ lists'.last_merge = last_merge' /\ sorted_of(lists') = sorted'
    BY DEF lists, sorted_of, sorted
  <2>3. \A q \in Sync : \A x \in Range(fifo_list'[q]) : rq'[x].sync = q
    <3> TAKE q \in Sync
    <3> TAKE x \in Range(fifo_list'[q])
    <3>1. x \in Range(fifo_list[q]) /\ x # b
      BY <1>3
    <3>2. x \in Rq \ {b} /\ rq[x].sync = q
      BY <1>4, <3>1
    <3> QED
      BY <1>3, <3>2
  <2>4. Range(queue_head') \cap sorted' = {}
    BY <1>2, <1>3, <1>4
  <2>5. /\ elevator # "noop" => noop_queue = <<>>
        /\ elevator # "sio" => \A q \in Sync : fifo_list[q] = <<>>
    BY ListsFields DEF IInv, Sound, Placed
  <2>6. elevator # "noop" => noop_queue' = <<>>
    BY <1>3, <1>4, <2>5, RangeOf
  <2>7. ASSUME elevator # "sio", NEW q \in Sync PROVE fifo_list'[q] = <<>>
    <3>1. fifo_list[q] = <<>> /\ fifo_list'[q] \in Seq(Rq)
      BY <1>3, <2>5, <2>7
    <3>2. Range(fifo_list'[q]) = {}
      BY <1>3, <1>4, <3>1, RangeOf
    <3> QED
      BY <3>1, <3>2, RangeOf
  <2>8. Placed(lists', rq', elevator')
    BY <1>2, <1>3, <1>4, <2>2, <2>3, <2>4, <2>6, <2>7 DEF Placed
  <2>9. lists'.last_merge \in sorted_of(lists')
    BY <1>1, <1>2, <1>3, <2>2
  <2> QED
    BY <1>9, <2>1, <2>2, <2>8, <2>9 DEF Sound
<1>11. Types'
  BY <1>2, <1>3, <1>8 DEF IInv, Types
<1>12. Apart'
  BY <1>2, <1>3 DEF IInv, Apart
<1>13. Switching'
  BY <1>2, <1>7 DEF IInv, Switching
<1> QED
  BY <1>7, <1>8, <1>10, <1>11, <1>12, <1>13 DEF IInv

-----------------------------------------------------------------------------
(* The steps: the driver and time.                                         *)

(* blk_fetch_request.                                                      *)
LEMMA FetchStep ==
  ASSUME IInv, blk_fetch_request
  PROVE  IInv'
<1> DEFINE s0 == IF queue_head = <<>> THEN elevator_dispatch(lists) ELSE lists
<1>1. UNCHANGED <<rq, task, fifo_expire, fifo_batch, elvpriv, elevator, elvswitch, switcher, shortened>>
  BY DEF blk_fetch_request, switchVars
<1>2. PICK s \in {s0} :
       \/ /\ s.queue_head # <<>>
          /\ set_lists([s EXCEPT !.queue_head = Tail(@)])
          /\ driver' = driver \cup {Head(s.queue_head)}
          /\ before' = [before EXCEPT ![Head(s.queue_head)] = {}]
       \/ /\ s.queue_head = <<>> /\ s # lists
          /\ set_lists(s)
          /\ UNCHANGED <<driver, before>>
  BY DEF blk_fetch_request
<1>3. /\ Sound(s, rq, elevator)
      /\ Range(s.queue_head) \cup sorted_of(s) = Range(queue_head) \cup sorted
      /\ \A a, b : ahead(queue_head, a, b) => ahead(s.queue_head, a, b)
      /\ Range(queue_head) \subseteq Range(s.queue_head)
  <2>1. Drains(0, lists) /\ rq \in Requests /\ fifo_batch \in Nat /\ elevator \in {"sio", "noop"}
    BY Facts, DrainStart DEF IInv, Types
  <2>2. Drains(0 + 1, elevator_dispatch(lists))
    BY <2>1, DrainStep
  <2>3. s = elevator_dispatch(lists) \/ s = lists
    BY <1>2
  <2> QED
    BY <2>1, <2>2, <2>3 DEF Drains
<1>4. /\ s \in Lists /\ s.queue_head \in Seq(Rq) /\ distinct(s.queue_head)
      /\ Range(s.queue_head) \cap sorted_of(s) = {} /\ Range(s.queue_head) \subseteq Rq
      /\ sorted_of(s) \subseteq sorted
  <2>1. s \in Lists /\ s.queue_head \in Seq(Rq) /\ distinct(s.queue_head)
        /\ Range(s.queue_head) \cap sorted_of(s) = {}
    BY <1>3 DEF Sound, Placed, Lists
  <2> QED
    BY <1>3, <2>1, RangeOf
<1>5. \A x \in sorted_of(s) : rq[x].priv
  BY <1>4 DEF IInv, Counted
<1>6. Switching'
  BY <1>1 DEF IInv, Switching
<1>7. CASE /\ s.queue_head # <<>>
           /\ set_lists([s EXCEPT !.queue_head = Tail(@)])
           /\ driver' = driver \cup {Head(s.queue_head)}
           /\ before' = [before EXCEPT ![Head(s.queue_head)] = {}]
  <2> DEFINE h == Head(s.queue_head)
             l == Tail(s.queue_head)
             t == [s EXCEPT !.queue_head = l]
  <2>1. /\ h \in Range(s.queue_head) /\ h \in Rq
        /\ l \in Seq(Rq) /\ distinct(l) /\ Range(l) = Range(s.queue_head) \ {h}
        /\ \A a, b : ahead(l, a, b) <=> ahead(s.queue_head, a, b) /\ a # h
    BY <1>4, <1>7, TailOf
  <2>2. set_lists(t) /\ driver' = driver \cup {h} /\ before' = [before EXCEPT ![h] = {}]
    BY <1>7
  <2> HIDE DEF l, h
  <2>3. /\ t \in Lists /\ t.queue_head = l /\ t.fifo_list = s.fifo_list
        /\ t.noop_queue = s.noop_queue /\ t.nr_sorted = s.nr_sorted
        /\ t.last_merge = s.last_merge
    BY <1>4, <2>1 DEF Lists
  <2> HIDE DEF t
  <2>4. sorted_of(t) = sorted_of(s)
    BY <2>3 DEF sorted_of
  <2>5. Sound(t, rq, elevator)
    <3>1. Range(l) \cap sorted_of(t) = {}
      BY <1>4, <2>1, <2>4
    <3> QED
      BY <1>3, <2>1, <2>3, <2>4, <3>1 DEF Sound, Placed
  <2>6. lists' = t /\ sorted' = sorted_of(s) /\ queue_head' = l
    BY <2>2, <2>3, <2>4, ListsSet
  <2>7. Sound(lists', rq', elevator')
    BY <1>1, <2>5, <2>6
  <2>8. Types'
    BY <1>1, <2>1, <2>2 DEF IInv, Types
  <2>9. h \notin task
    BY <1>3, <2>1 DEF IInv, Apart
  <2>10. Apart'
    BY <1>1, <1>3, <1>4, <2>1, <2>2, <2>6, <2>9 DEF IInv, Apart
  <2>11. live' = live
    BY <1>1, <1>3, <2>1, <2>2, <2>6 DEF live
  <2>12. Counted'
    BY <1>1, <1>5, <2>6, <2>11, CountKept
  <2>13. Barriers'
    <3>1. before \in [Rq -> SUBSET Rq]
      BY DEF IInv, Types
    <3>2. ASSUME NEW x \in Rq, x \notin Range(queue_head') PROVE before'[x] = {}
      BY <1>3, <2>1, <2>2, <2>6, <3>1, <3>2 DEF IInv, Barriers
    <3>3. ASSUME NEW x \in Range(queue_head'), NEW b \in before'[x]
          PROVE  b \in driver' \/ ahead(queue_head', b, x)
      <4>1. x \in Rq /\ x # h
        BY <1>4, <2>1, <2>6, <3>3
      <4>2. b \in before[x]
        BY <2>1, <2>2, <3>1, <3>3, <4>1
      <4>3. b \in driver \/ ahead(queue_head, b, x)
        BY <4>1, <4>2 DEF IInv, Barriers
      <4> QED
        BY <1>3, <2>1, <2>2, <2>6, <4>3
    <3> QED
      BY <3>2, <3>3 DEF Barriers
  <2> QED
    BY <1>6, <2>7, <2>8, <2>10, <2>12, <2>13 DEF IInv
<1>8. CASE set_lists(s) /\ UNCHANGED <<driver, before>>
  <2>1. lists' = s /\ sorted' = sorted_of(s) /\ queue_head' = s.queue_head
    BY <1>4, <1>8, ListsSet
  <2>2. Sound(lists', rq', elevator')
    BY <1>1, <1>3, <2>1
  <2>3. Types'
    BY <1>1, <1>8 DEF IInv, Types
  <2>4. Apart'
    BY <1>1, <1>3, <1>8, <2>1 DEF IInv, Apart
  <2>5. live' = live
    BY <1>1, <1>3, <1>8, <2>1 DEF live
  <2>6. Counted'
    BY <1>1, <1>5, <2>1, <2>5, CountKept
  <2>7. Barriers'
    BY <1>3, <1>4, <1>8, <2>1, BarriersKept
  <2> QED
    BY <1>6, <2>2, <2>3, <2>4, <2>6, <2>7 DEF IInv
<1> QED
  BY <1>2, <1>7, <1>8

(* A request that the driver gives back goes to the front.                 *)
LEMMA RequeueStep ==
  ASSUME IInv, NEW r \in Rq, blk_requeue_request(r)
  PROVE  IInv'
<1>1. /\ r \in driver /\ driver' = driver \ {r} /\ queue_head' = <<r>> \o queue_head
      /\ UNCHANGED <<rq, task, fifo_list, batched, fifo_expire, fifo_batch, noop_queue, nr_sorted>>
      /\ UNCHANGED <<last_merge, elvpriv, elevator, elvswitch, switcher, shortened, before, passed>>
  BY DEF blk_requeue_request, sioVars, switchVars
<1>2. sorted' = sorted
  BY <1>1 DEF sorted
<1>3. r \notin Range(queue_head) /\ r \notin sorted /\ r \notin task
  BY <1>1 DEF IInv, Apart
<1>4. /\ queue_head' \in Seq(Rq) /\ distinct(queue_head')
      /\ Range(queue_head') = Range(queue_head) \cup {r}
      /\ \A a, b : ahead(queue_head, a, b) \/ (a = r /\ b \in Range(queue_head))
                   => ahead(queue_head', a, b)
  BY <1>1, <1>3, Facts, AddFront
<1>5. lists' \in Lists
  <2>1. /\ fifo_list' \in [Sync -> Seq(Rq)] /\ noop_queue' \in Seq(Rq) /\ batched' \in Nat
        /\ nr_sorted' \in Int /\ last_merge' \in Rq \cup {NONE} /\ passed' \in Nat
    BY <1>1, Facts
  <2> QED
    BY <1>4, <2>1 DEF lists, Lists
<1>6. /\ lists'.fifo_list = lists.fifo_list
      /\ lists'.noop_queue = lists.noop_queue /\ lists'.queue_head = queue_head'
      /\ lists'.nr_sorted = lists.nr_sorted /\ lists'.last_merge = lists.last_merge
  BY <1>1 DEF lists
<1>7. sorted_of(lists') = sorted /\ sorted_of(lists) = sorted
  BY <1>6, ListsFields DEF sorted_of
<1>8. Sound(lists', rq', elevator')
  <2>1. Range(queue_head') \cap sorted = {}
    BY <1>3, <1>4, Facts
  <2> QED
    BY <1>1, <1>4, <1>5, <1>6, <1>7, <2>1 DEF IInv, Sound, Placed
<1>9. Types'
  BY <1>1 DEF IInv, Types
<1>10. Apart'
  BY <1>1, <1>2, <1>3, <1>4 DEF IInv, Apart
<1>11. live' = live
  BY <1>1, <1>2, <1>4 DEF live
<1>12. Counted'
  <2>1. \A x \in sorted : rq[x].priv
    BY DEF IInv, Counted
  <2> QED
    BY <1>1, <1>2, <1>11, <2>1, CountKept
<1>13. Switching'
  BY <1>1 DEF IInv, Switching
<1>14. Barriers'
  <2>1. before[r] = {}
    BY <1>3 DEF IInv, Barriers
  <2>2. ASSUME NEW x \in Rq, x \notin Range(queue_head') PROVE before'[x] = {}
    BY <1>1, <1>4, <2>2 DEF IInv, Barriers
  <2>3. ASSUME NEW x \in Range(queue_head'), NEW b \in before'[x]
        PROVE  b \in driver' \/ ahead(queue_head', b, x)
    <3>1. x \in Range(queue_head) /\ b \in before[x]
      BY <1>1, <1>4, <2>1, <2>3
    <3>2. b \in driver \/ ahead(queue_head, b, x)
      BY <3>1 DEF IInv, Barriers
    <3> QED
      BY <1>1, <1>4, <3>1, <3>2
  <2> QED
    BY <2>2, <2>3 DEF Barriers
<1> QED
  BY <1>8, <1>9, <1>10, <1>12, <1>13, <1>14 DEF IInv

(* A jiffy passes.                                                         *)
LEMMA TickEffect ==
  ASSUME IInv, Tick
  PROVE  /\ rq' \in Requests
         /\ \A x \in Rq : rq'[x].sync = rq[x].sync /\ rq'[x].priv = rq[x].priv
         /\ \A x \in sorted : rq'[x].left = IF rq[x].left < 0 THEN rq[x].left ELSE rq[x].left - 1
<1>1. rq \in Requests /\ sorted \subseteq Rq
  BY Facts DEF IInv, Types
<1>2. rq' = [r \in Rq |-> IF r \in sorted /\ ~ (rq[r].left < 0)
                          THEN [rq[r] EXCEPT !.left = rq[r].left - 1] ELSE rq[r]]
  BY DEF Tick, expired
<1>3. ASSUME NEW x \in Rq
      PROVE  /\ rq'[x] \in [sync : Sync, priv : BOOLEAN, barrier : BOOLEAN, left : Nat \cup {-1}]
             /\ rq'[x].sync = rq[x].sync /\ rq'[x].priv = rq[x].priv
             /\ x \in sorted
                => rq'[x].left = IF rq[x].left < 0 THEN rq[x].left ELSE rq[x].left - 1
  <2>1. /\ rq[x] \in [sync : Sync, priv : BOOLEAN, barrier : BOOLEAN, left : Nat \cup {-1}]
        /\ rq[x].left \in Nat \cup {-1}
    BY <1>1 DEF Requests
  <2>2. CASE x \in sorted /\ ~ (rq[x].left < 0)
    <3>1. rq'[x] = [rq[x] EXCEPT !.left = rq[x].left - 1] /\ rq[x].left - 1 \in Nat \cup {-1}
      BY <1>2, <2>1, <2>2
    <3> QED
      BY <2>1, <2>2, <3>1
  <2>3. CASE ~ (x \in sorted /\ ~ (rq[x].left < 0))
    <3>1. rq'[x] = rq[x]
      BY <1>2, <2>3
    <3> QED
      BY <2>1, <2>3, <3>1
  <2> QED
    BY <2>2, <2>3
<1>4. rq' \in Requests
  <2>1. DOMAIN rq' = Rq /\ rq' = [x \in Rq |-> rq'[x]]
    BY <1>2
  <2> QED
    BY <1>3, <2>1 DEF Requests
<1> QED
  BY <1>1, <1>3, <1>4

(* Time moves nothing.                                                     *)
LEMMA TickStep ==
  ASSUME IInv, Tick
  PROVE  IInv'
<1>1. /\ UNCHANGED <<task, driver, queue_head, fifo_list, batched, fifo_expire, fifo_batch>>
      /\ UNCHANGED <<noop_queue, nr_sorted, last_merge, elvpriv, elevator, elvswitch, switcher, shortened>>
      /\ UNCHANGED <<before, passed>>
  BY DEF Tick, sioVars, switchVars
<1>2. /\ rq' \in Requests
      /\ \A x \in Rq : rq'[x].sync = rq[x].sync /\ rq'[x].priv = rq[x].priv
  BY TickEffect
<1>3. sorted' = sorted /\ live' = live /\ lists' = lists
  BY <1>1 DEF sorted, live, lists
<1>4. Sound(lists', rq', elevator')
  <2>1. \A q \in Sync : \A x \in Range(fifo_list[q]) : rq'[x].sync = q
    <3>1. \A q \in Sync : \A x \in Range(fifo_list[q]) : rq[x].sync = q /\ x \in Rq
      BY Facts
    <3> QED
      BY <1>2, <3>1
  <2> QED
    BY <1>1, <1>3, <2>1, ListsFields DEF IInv, Sound, Placed
<1>5. Counted'
  <2>1. \A x \in sorted : rq[x].priv
    BY DEF IInv, Counted
  <2> QED
    BY <1>1, <1>2, <1>3, <2>1, CountKept
<1>6. Types'
  BY <1>1, <1>2 DEF IInv, Types
<1>7. Apart' /\ Switching' /\ Barriers'
  BY <1>1, <1>3 DEF IInv, Apart, Switching, Barriers
<1> QED
  BY <1>4, <1>5, <1>6, <1>7 DEF IInv

-----------------------------------------------------------------------------
(* The steps: tuning and switching.                                        *)

(* Steps that leave the requests and their lists alone, but may forget the *)
(* batch and what it passed over.                                          *)
LEMMA RequestsKept ==
  ASSUME IInv, UNCHANGED <<rq, task, driver, queue_head, fifo_list, noop_queue>>,
         UNCHANGED <<nr_sorted, last_merge, elvpriv, before>>,
         batched' \in Nat, passed' \in Nat,
         elevator' = elevator \/ sorted = {}
  PROVE  /\ sorted' = sorted
         /\ Sound(lists', rq', elevator') /\ Apart' /\ Counted' /\ Barriers'
<1>1. sorted' = sorted /\ live' = live
  BY DEF sorted, live
<1>2. /\ queue_head \in Seq(Rq) /\ noop_queue \in Seq(Rq) /\ fifo_list \in [Sync -> Seq(Rq)]
      /\ nr_sorted \in Nat /\ last_merge \in Rq \cup {NONE}
  BY Facts
<1>3. /\ lists' \in Lists /\ lists'.fifo_list = lists.fifo_list
      /\ lists'.noop_queue = lists.noop_queue /\ lists'.queue_head = lists.queue_head
      /\ lists'.nr_sorted = lists.nr_sorted /\ lists'.last_merge = lists.last_merge
  BY <1>2 DEF lists, Lists
<1>4. sorted_of(lists') = sorted /\ sorted_of(lists) = sorted
  BY <1>3, ListsFields DEF sorted_of
<1>5. Sound(lists', rq', elevator)
  BY <1>3, <1>4 DEF IInv, Sound, Placed
<1>6. Sound(lists', rq', elevator')
  <2>1. CASE elevator' = elevator
    BY <1>5, <2>1
  <2>2. CASE sorted = {}
    <3>1. /\ lists.noop_queue = noop_queue /\ lists.fifo_list = fifo_list
          /\ noop_queue \in Seq(Rq) /\ \A q \in Sync : fifo_list[q] \in Seq(Rq)
      BY ListsFields, Facts
    <3>2. noop_queue = <<>>
      BY <2>2, <3>1, RangeOf DEF sorted
    <3>3. \A q \in Sync : fifo_list[q] = <<>>
      BY <2>2, <3>1, RangeOf DEF sorted, Sync
    <3> QED
      BY <1>3, <1>5, <3>1, <3>2, <3>3 DEF Sound, Placed
  <2> QED
    BY <2>1, <2>2
<1>7. Counted'
  <2>1. \A x \in sorted : rq[x].priv
    BY DEF IInv, Counted
  <2> QED
    BY <1>1, <2>1, CountKept
<1>8. Apart' /\ Barriers'
  BY <1>1 DEF IInv, Apart, Barriers
<1> QED
  BY <1>1, <1>6, <1>7, <1>8

(* A tunable is written.                                                   *)
LEMMA StoreStep ==
  ASSUME IInv, sio_store
  PROVE  IInv'
<1>1. /\ UNCHANGED <<rq, task, driver, queue_head, fifo_list, batched, noop_queue, nr_sorted>>
      /\ UNCHANGED <<last_merge, elvpriv, elevator, elvswitch, switcher, before>>
      /\ passed' \in {0, passed} /\ shortened' \in BOOLEAN
  BY DEF sio_store, switchVars, IInv, Types
<1>2. Sound(lists', rq', elevator') /\ Apart' /\ Counted' /\ Barriers'
  BY <1>1, Facts, RequestsKept
<1>3. fifo_expire' \in ExpireTimes /\ fifo_batch' \in Batches
  BY SioAssumption DEF sio_store, IInv, Types, ExpireTimes
<1> QED
  BY <1>1, <1>2, <1>3 DEF IInv, Types, Switching

(* A scheduler's data is set up.                                           *)
LEMMA InitQueueStep ==
  ASSUME IInv, elevator_init_queue
  PROVE  IInv'
<1>1. /\ UNCHANGED <<rq, task, driver, queue_head, fifo_list, noop_queue, nr_sorted, last_merge>>
      /\ UNCHANGED <<elvpriv, elevator, elvswitch, before, passed>>
      /\ switcher' = "alloc"
  BY DEF elevator_init_queue
<1>2. batched' \in Nat
  BY Facts DEF elevator_init_queue
<1>3. fifo_expire' \in ExpireTimes /\ fifo_batch' \in Batches /\ shortened' \in BOOLEAN
  BY SioAssumption DEF elevator_init_queue, IInv, Types
<1>4. Sound(lists', rq', elevator') /\ Apart' /\ Counted' /\ Barriers'
  BY <1>1, <1>2, Facts, RequestsKept
<1> QED
  BY <1>1, <1>3, <1>4 DEF IInv, Types, Switching

(* elv_quiesce_start drains the scheduler and leaves it when no request    *)
(* has to do with it.                                                      *)
LEMMA QuiesceStep ==
  ASSUME IInv, elv_quiesce_start \/ elv_quiesce_again
  PROVE  IInv'
<1>1. /\ elv_quiesce /\ elvswitch'
      /\ UNCHANGED <<rq, task, driver, fifo_expire, fifo_batch, elvpriv, before, shortened>>
  BY DEF elv_quiesce_start, elv_quiesce_again, IInv, Switching
<1>2. elvswitch' \in BOOLEAN
  BY DEF elv_quiesce_start, elv_quiesce_again, IInv, Types
<1>3. PICK s \in drained : set_lists(s)
  BY <1>1 DEF elv_quiesce
<1>4. /\ Sound(s, rq, elevator) /\ sorted_of(s) = {}
      /\ Range(s.queue_head) = Range(queue_head) \cup sorted
      /\ \A a, b : ahead(queue_head, a, b) => ahead(s.queue_head, a, b)
  BY Facts, DrainedLists DEF IInv, Types
<1>5. s \in Lists
  BY <1>4 DEF Sound
<1>6. lists' = s /\ sorted' = {} /\ queue_head' = s.queue_head
  BY <1>3, <1>4, <1>5, ListsSet
<1>7. elevator' \in {"sio", "noop"}
  BY <1>1 DEF elv_quiesce, other, IInv, Types
<1>8. Sound(lists', rq', elevator')
  <2>1. s.noop_queue \in Seq(Rq) /\ \A q \in Sync : s.fifo_list[q] \in Seq(Rq)
    BY <1>5 DEF Lists
  <2>2. s.noop_queue = <<>> /\ \A q \in Sync : s.fifo_list[q] = <<>>
    BY <1>4, <2>1, RangeOf DEF sorted_of, Sync
  <2> QED
    BY <1>1, <1>4, <1>6, <2>2 DEF Sound, Placed
<1>9. Types'
  BY <1>1, <1>2, <1>7 DEF IInv, Types
<1>10. Apart'
  BY <1>1, <1>4, <1>6 DEF IInv, Apart
<1>11. live' = live
  BY <1>1, <1>4, <1>6 DEF live
<1>12. Counted'
  BY <1>1, <1>6, <1>11, CountKept
<1>13. Switching'
  BY <1>1 DEF elv_quiesce, Switching
<1>14. Barriers'
  <2>1. Range(queue_head') \subseteq Rq
    BY <1>4, <1>6, Facts
  <2> QED
    BY <1>1, <1>4, <1>6, <2>1, BarriersKept
<1> QED
  BY <1>8, <1>9, <1>10, <1>12, <1>13, <1>14 DEF IInv

(* With no request to do with it the scheduler holds none.                 *)
LEMMA NoneSorted ==
  ASSUME IInv, elvpriv = 0
  PROVE  sorted = {}
<1>1. IsFiniteSet(Privs(live, rq)) /\ Cardinality(Privs(live, rq)) = 0
  BY Facts DEF IInv, Counted
<1>2. Privs(live, rq) = {}
  BY <1>1, FS_EmptySet
<1>3. sorted \subseteq Privs(live, rq)
  BY DEF IInv, Counted, Privs, live
<1> QED
  BY <1>2, <1>3

(* The end of a switch, whether the new scheduler stays or not.            *)
LEMMA SwitchEndStep ==
  ASSUME IInv, \/ elevator_exit_old \/ fail_register \/ reattach \/ elv_quiesce_end
               \/ deref_exited
  PROVE  IInv'
<1>1. UNCHANGED noRequests /\ switcher \in {"attached", "failed", "exited"}
  BY DEF elevator_exit_old, fail_register, reattach, elv_quiesce_end,
     deref_exited
<1>2. /\ UNCHANGED <<rq, task, driver, queue_head, fifo_list, batched, noop_queue, nr_sorted>>
      /\ UNCHANGED <<last_merge, elvpriv, before, passed, fifo_expire, fifo_batch, shortened>>
  BY <1>1 DEF noRequests, sioVars
<1>3. elvpriv = 0 /\ sorted = {}
  BY <1>1, NoneSorted DEF IInv, Switching
<1>4. Sound(lists', rq', elevator') /\ Apart' /\ Counted' /\ Barriers'
  <2>1. batched' \in Nat /\ passed' \in Nat
    BY <1>2, Facts
  <2> QED
    BY <1>2, <1>3, <2>1, RequestsKept
<1>5. elevator' \in {"sio", "noop"} /\ elvswitch' \in BOOLEAN
  BY DEF elevator_exit_old, fail_register, reattach, elv_quiesce_end,
     deref_exited, other, IInv, Types
<1>6. Types'
  BY <1>2, <1>5 DEF IInv, Types
<1>7. Switching'
  BY <1>2, <1>3 DEF elevator_exit_old, fail_register, reattach, elv_quiesce_end,
     deref_exited, IInv, Switching
<1> QED
  BY <1>4, <1>6, <1>7 DEF IInv

-----------------------------------------------------------------------------
(* The theorems.                                                           *)

(* An idle queue.                                                          *)
LEMMA InitIInv == Init => IInv
<1> SUFFICES ASSUME Init PROVE IInv
  OBVIOUS
<1>1. /\ rq = [r \in Rq |-> noRq] /\ task = {} /\ driver = {} /\ queue_head = <<>>
      /\ fifo_list = [s \in Sync |-> <<>>] /\ batched = 0 /\ noop_queue = <<>>
      /\ fifo_expire = DefaultExpire /\ fifo_batch = DefaultBatch
      /\ nr_sorted = 0 /\ last_merge = NONE /\ elvpriv = 0
      /\ elevator = "sio" /\ elvswitch = FALSE /\ switcher = "idle"
      /\ before = [r \in Rq |-> {}] /\ passed = 0 /\ shortened = FALSE
  BY DEF Init
<1>2. Range(<<>>) = {} /\ distinct(<<>>) /\ <<>> \in Seq(Rq)
  BY DEF Range, distinct
<1>3. sorted = {} /\ live = {} /\ Privs(live, rq) = {}
  BY <1>1, <1>2 DEF sorted, live, Privs, Sync
<1>4. Cardinality({}) = 0
  BY FS_EmptySet
<1>5. Types
  BY <1>1, NoRqType, SioAssumption DEF Types, Requests
<1>6. Sound(lists, rq, elevator)
  <2>1. lists \in Lists
    BY <1>1, <1>2 DEF lists, Lists
  <2>2. Placed(lists, rq, elevator)
    BY <1>1, <1>2, <1>3, ListsFields DEF Placed
  <2> QED
    BY <1>1, <1>3, <1>4, <2>1, <2>2, ListsFields DEF Sound
<1>7. Apart /\ Counted /\ Switching /\ Barriers
  BY <1>1, <1>2, <1>3, <1>4 DEF Apart, Counted, Switching, Barriers
<1> QED
  BY <1>5, <1>6, <1>7 DEF IInv

(* Every step keeps the invariant.                                         *)
LEMMA NextIInv == IInv /\ [Next]_vars => IInv'
<1> SUFFICES ASSUME IInv, [Next]_vars PROVE IInv'
  OBVIOUS
<1>1. ASSUME NEW r \in Rq, NEW s \in Sync, NEW b \in BOOLEAN, get_request(r, s, b) PROVE IInv'
  BY <1>1, GetRequestStep
<1>2. ASSUME NEW r \in Rq, alloc_fails(r) \/ blk_finish_request(r) PROVE IInv'
  BY <1>2, FreeStep
<1>3. ASSUME NEW r \in Rq, insert(r) PROVE IInv'
  BY <1>3, InsertSortStep, InsertBackStep DEF insert
<1>4. ASSUME NEW r \in Rq, elv_merged_request(r) PROVE IInv'
  BY <1>4, MergedStep
<1>5. ASSUME NEW r \in Rq, blk_requeue_request(r) PROVE IInv'
  BY <1>5, RequeueStep
<1>6. ASSUME NEW r \in Rq, NEW b \in Rq, elv_merge_requests(r, b) PROVE IInv'
  BY <1>6, MergeStep
<1>7. ASSUME blk_fetch_request \/ Tick \/ sio_store \/ elevator_init_queue PROVE IInv'
  BY <1>7, FetchStep, TickStep, StoreStep, InitQueueStep
<1>8. ASSUME switchStep \/ deref_exited PROVE IInv'
  BY <1>8, QuiesceStep, SwitchEndStep DEF switchStep
<1>9. ASSUME UNCHANGED vars PROVE IInv'
  <2>1. /\ UNCHANGED <<rq, task, driver, queue_head, fifo_list, noop_queue>>
        /\ UNCHANGED <<nr_sorted, last_merge, elvpriv, before, passed, batched>>
        /\ UNCHANGED <<fifo_expire, fifo_batch, elevator, elvswitch, switcher, shortened>>
    BY <1>9 DEF vars, sioVars, switchVars
  <2>2. Sound(lists', rq', elevator') /\ Apart' /\ Counted' /\ Barriers'
    BY <2>1, Facts, RequestsKept
  <2> QED
    BY <2>1, <2>2 DEF IInv, Types, Switching
<1> QED
  BY <1>1, <1>2, <1>3, <1>4, <1>5, <1>6, <1>7, <1>8, <1>9 DEF Next

(* The sizes of sets with nothing in common add up.                        *)
LEMMA DisjointSum ==
  ASSUME NEW A, NEW B, IsFiniteSet(A), IsFiniteSet(B), A \cap B = {}
  PROVE  IsFiniteSet(A \cup B) /\ Cardinality(A \cup B) = Cardinality(A) + Cardinality(B)
<1>1. /\ IsFiniteSet(A \cup B)
      /\ Cardinality(A \cup B) = Cardinality(A) + Cardinality(B) - Cardinality(A \cap B)
  BY FS_Union
<1>2. Cardinality(A \cap B) = 0 /\ Cardinality(A) \in Nat /\ Cardinality(B) \in Nat
  BY FS_EmptySet, FS_CardinalityType
<1> QED
  BY <1>1, <1>2

(* Each request is in one place.                                           *)
LEMMA OnePlace ==
  ASSUME IInv
  PROVE  Cardinality(task) + Cardinality(driver) + Len(queue_head) + Len(fifo_list["SYNC"])
           + Len(fifo_list["ASYNC"]) + Len(noop_queue) + Cardinality(free) = Cardinality(Rq)
<1> DEFINE Q == Range(queue_head)
           S == Range(fifo_list["SYNC"])
           A == Range(fifo_list["ASYNC"])
           N == Range(noop_queue)
<1>1. /\ queue_head \in Seq(Rq) /\ distinct(queue_head)
      /\ noop_queue \in Seq(Rq) /\ distinct(noop_queue)
      /\ fifo_list["SYNC"] \in Seq(Rq) /\ distinct(fifo_list["SYNC"])
      /\ fifo_list["ASYNC"] \in Seq(Rq) /\ distinct(fifo_list["ASYNC"])
      /\ live \subseteq Rq /\ free = Rq \ live
  BY Facts DEF Sync
<1>2. /\ IsFiniteSet(Q) /\ Cardinality(Q) = Len(queue_head)
      /\ IsFiniteSet(N) /\ Cardinality(N) = Len(noop_queue)
      /\ IsFiniteSet(S) /\ Cardinality(S) = Len(fifo_list["SYNC"])
      /\ IsFiniteSet(A) /\ Cardinality(A) = Len(fifo_list["ASYNC"])
  BY <1>1, Length
<1>3. S \cap A = {}
  BY Facts DEF Sync
<1>4. N \cap (S \cup A) = {}
  <2>1. /\ elevator # "noop" => noop_queue = <<>>
        /\ elevator # "sio" => fifo_list["SYNC"] = <<>> /\ fifo_list["ASYNC"] = <<>>
    BY ListsFields DEF IInv, Sound, Placed, Sync
  <2>2. elevator # "noop" => N = {}
    BY <1>1, <2>1, RangeOf
  <2>3. elevator # "sio" => S = {} /\ A = {}
    BY <1>1, <2>1, RangeOf
  <2> QED
    BY <2>2, <2>3
<1>5. /\ sorted = S \cup A \cup N /\ Q \cap sorted = {}
      /\ live = task \cup driver \cup Q \cup sorted
      /\ task \cap driver = {} /\ (task \cup driver) \cap (Q \cup sorted) = {}
  BY Facts DEF sorted, live, IInv, Apart
<1>6. IsFiniteSet(task) /\ IsFiniteSet(driver) /\ IsFiniteSet(free) /\ IsFiniteSet(Rq)
  BY <1>1, SioAssumption, FS_Subset DEF IInv, Types
<1> HIDE DEF Q, S, A, N
<1>7. IsFiniteSet(S \cup A) /\ Cardinality(S \cup A) = Cardinality(S) + Cardinality(A)
  BY <1>2, <1>3, DisjointSum
<1>8. IsFiniteSet(sorted) /\ Cardinality(sorted) = Cardinality(S \cup A) + Cardinality(N)
  BY <1>2, <1>4, <1>5, <1>7, DisjointSum
<1>9. /\ IsFiniteSet(Q \cup sorted)
      /\ Cardinality(Q \cup sorted) = Cardinality(Q) + Cardinality(sorted)
  BY <1>2, <1>5, <1>8, DisjointSum
<1>10. /\ IsFiniteSet(task \cup driver)
       /\ Cardinality(task \cup driver) = Cardinality(task) + Cardinality(driver)
  BY <1>5, <1>6, DisjointSum
<1>11. /\ IsFiniteSet(live)
       /\ Cardinality(live) = Cardinality(task \cup driver) + Cardinality(Q \cup sorted)
  <2>1. live = (task \cup driver) \cup (Q \cup sorted)
    BY <1>5
  <2> QED
    BY <1>5, <1>9, <1>10, <2>1, DisjointSum
<1>12. Cardinality(Rq) = Cardinality(live) + Cardinality(free)
  <2>1. Rq = live \cup free /\ live \cap free = {}
    BY <1>1
  <2> QED
    BY <1>6, <1>11, <2>1, DisjointSum
<1>13. /\ Cardinality(task) \in Nat /\ Cardinality(driver) \in Nat /\ Cardinality(free) \in Nat
       /\ Cardinality(Q) \in Nat /\ Cardinality(S) \in Nat /\ Cardinality(A) \in Nat
       /\ Cardinality(N) \in Nat
  BY <1>2, <1>6, FS_CardinalityType
<1>14. Cardinality(sorted) = Cardinality(S) + Cardinality(A) + Cardinality(N)
  BY <1>7, <1>8, <1>13
<1>15. Cardinality(live) = Cardinality(task) + Cardinality(driver) + Cardinality(Q)
                             + Cardinality(S) + Cardinality(A) + Cardinality(N)
  BY <1>9, <1>10, <1>11, <1>13, <1>14
<1>16. /\ Len(queue_head) = Cardinality(Q) /\ Len(noop_queue) = Cardinality(N)
       /\ Len(fifo_list["SYNC"]) = Cardinality(S) /\ Len(fifo_list["ASYNC"]) = Cardinality(A)
  BY <1>2
<1> QED
  BY ONLY <1>12, <1>13, <1>15, <1>16

(* The invariant accounts for every request.                               *)
LEMMA IInvAccounts == IInv => RequestsAccounted
<1> SUFFICES ASSUME IInv PROVE RequestsAccounted
  OBVIOUS
<1>1. TypeOK
  <2>1. \A r \in Rq : /\ rq[r].sync \in Sync /\ rq[r].priv \in BOOLEAN /\ rq[r].barrier \in BOOLEAN
                      /\ rq[r].left = -1 \/ rq[r].left \in Nat
    BY DEF IInv, Types, Requests
  <2>2. /\ batched \in Nat /\ passed \in Nat
        /\ \A s \in Sync : \A r \in Range(fifo_list[s]) : rq[r].sync = s
    BY Facts
  <2>3. /\ fifo_batch \in Batches /\ fifo_expire \in ExpireTimes
        /\ before \in [Rq -> SUBSET Rq] /\ shortened \in BOOLEAN
    BY DEF IInv, Types
  <2> QED
    BY <2>1, <2>2, <2>3, OnePlace DEF TypeOK
<1>2. CountsExact
  <2>1. nr_sorted = Cardinality(sorted)
    BY ListsFields DEF IInv, Sound
  <2>2. Rq \ free = live
    BY Facts
  <2>3. elvpriv = Cardinality({r \in live : rq[r].priv}) /\ \A r \in sorted : rq[r].priv
    BY DEF IInv, Counted, Privs
  <2> QED
    BY <2>1, <2>2, <2>3 DEF CountsExact
<1>3. LastMergeSorted
  BY ListsFields DEF IInv, Sound, LastMergeSorted
<1>4. ExitsEmpty
  <2>1. switcher \in {"attached", "failed", "exited"} => sorted = {}
    BY NoneSorted DEF IInv, Switching
  <2>2. /\ elevator # "noop" => noop_queue = <<>>
        /\ elevator # "sio" => \A q \in Sync : fifo_list[q] = <<>>
    BY ListsFields DEF IInv, Sound, Placed
  <2> QED
    BY <2>1, <2>2 DEF ExitsEmpty
<1> QED
  BY <1>1, <1>2, <1>3, <1>4 DEF RequestsAccounted

(* The invariant keeps barriers in their place.                            *)
LEMMA IInvBarriers == IInv => BarrierNotOvertaken
<1> SUFFICES ASSUME IInv, NEW i \in DOMAIN queue_head, NEW b \in before[queue_head[i]]
             PROVE  b \notin sorted /\ \A j \in DOMAIN queue_head : queue_head[j] = b => j < i
  BY DEF BarrierNotOvertaken
<1>1. /\ queue_head \in Seq(Rq) /\ distinct(queue_head) /\ Range(queue_head) \cap sorted = {}
      /\ DOMAIN queue_head = 1 .. Len(queue_head)
      /\ Range(queue_head) = {queue_head[k] : k \in 1 .. Len(queue_head)}
  BY Facts, RangeOf
<1>2. b \in driver \/ ahead(queue_head, b, queue_head[i])
  BY <1>1 DEF IInv, Barriers
<1>3. CASE b \in driver
  <2>1. b \notin sorted /\ b \notin Range(queue_head)
    BY <1>3 DEF IInv, Apart
  <2> QED
    BY <1>1, <2>1
<1>4. CASE ahead(queue_head, b, queue_head[i])
  <2>1. PICK k, m \in 1 .. Len(queue_head) : k < m /\ queue_head[k] = b /\ queue_head[m] = queue_head[i]
    BY <1>4 DEF ahead
  <2>2. m = i /\ \A j \in 1 .. Len(queue_head) : queue_head[j] = b => j = k
    BY <1>1, <2>1 DEF distinct
  <2>3. b \in Range(queue_head)
    BY <1>1, <2>1
  <2> QED
    BY <1>1, <2>1, <2>2, <2>3
<1> QED
  BY <1>2, <1>3, <1>4

(* nr_sorted, elvpriv and last_merge say what the scheduler holds, each    *)
(* request is in one place, and a scheduler that exits holds none, for any *)
(* number of requests and over every switch, failed ones included.         *)
THEOREM RequestsStayAccounted == Spec => []RequestsAccounted
<1>1. Spec => []IInv
  BY InitIInv, NextIInv, PTL DEF Spec
<1> QED
  BY <1>1, IInvAccounts, PTL

(* What was queued before a barrier is dispatched before it.               *)
THEOREM NothingOvertakesBarriers == Spec => []BarrierNotOvertaken
<1>1. Spec => []IInv
  BY InitIInv, NextIInv, PTL DEF Spec
<1> QED
  BY <1>1, IInvBarriers, PTL

-----------------------------------------------------------------------------
(* Deadlines.                                                              *)

tunables == <<fifo_expire, fifo_batch, shortened>>

TimedNow == Timed(lists, rq, fifo_expire, fifo_batch)

(* TimedNow in terms of the variables.                                     *)
LEMMA TimedFields ==
  TimedNow <=>
  /\ ~ shortened =>
       /\ \A q \in Sync : \A r \in Range(fifo_list[q]) : rq[r].left <= fifo_expire[q]
       /\ \A q \in Sync : \A a, b : ahead(fifo_list[q], a, b) => rq[a].left <= rq[b].left
  /\ passed <= fifo_batch + 1 /\ passed <= batched
  /\ passed > 0 => fifo_list["ASYNC"] # <<>>
BY ListsFields DEF TimedNow, Timed, InOrder

(* The same in the next state.                                             *)
LEMMA TimedNext ==
  ASSUME ~ shortened' =>
           \A q \in Sync : \A r \in Range(fifo_list'[q]) : rq'[r].left <= fifo_expire'[q],
         ~ shortened' =>
           \A q \in Sync : \A a, b : ahead(fifo_list'[q], a, b) => rq'[a].left <= rq'[b].left,
         passed' <= fifo_batch' + 1, passed' <= batched',
         passed' > 0 => fifo_list'["ASYNC"] # <<>>
  PROVE  TimedNow'
<1>1. lists'.fifo_list = fifo_list' /\ lists'.batched = batched' /\ lists'.passed = passed'
  BY DEF lists
<1> QED
  BY <1>1 DEF TimedNow, Timed, InOrder

(* Steps that leave lists, batch and deadlines alone.                      *)
LEMMA TimedKept ==
  ASSUME IInv, TimedNow, UNCHANGED <<fifo_list, batched, passed>>, UNCHANGED tunables,
         \A x \in sorted : rq'[x].left = rq[x].left
  PROVE  TimedNow'
<1>1. UNCHANGED <<fifo_expire, fifo_batch, shortened>>
  BY DEF tunables
<1>2. ASSUME NEW q \in Sync
      PROVE  /\ \A r \in Range(fifo_list[q]) : r \in sorted
             /\ \A a, b : ahead(fifo_list[q], a, b) => a \in sorted /\ b \in sorted
  BY Facts, Order
<1>3. ~ shortened =>
        \A q \in Sync : \A r \in Range(fifo_list'[q]) : rq'[r].left <= fifo_expire'[q]
  BY <1>1, <1>2, TimedFields
<1>4. ~ shortened =>
        \A q \in Sync : \A a, b : ahead(fifo_list'[q], a, b) => rq'[a].left <= rq'[b].left
  <2> SUFFICES ASSUME ~ shortened, NEW q \in Sync, NEW a, NEW b, ahead(fifo_list'[q], a, b)
               PROVE  rq'[a].left <= rq'[b].left
    OBVIOUS
  <2>1. ahead(fifo_list[q], a, b)
    <3>1. fifo_list' = fifo_list
      OBVIOUS
    <3> QED
      BY <3>1
  <2>2. rq[a].left <= rq[b].left
    BY <2>1, TimedFields
  <2>3. rq'[a].left = rq[a].left /\ rq'[b].left = rq[b].left
    BY <1>2, <2>1
  <2> QED
    BY <2>2, <2>3
<1> QED
  BY <1>1, <1>3, <1>4, TimedFields, TimedNext

(* Steps that take lists of which it holds.                                *)
LEMMA TimedSet ==
  ASSUME NEW t, Timed(t, rq, fifo_expire, fifo_batch), UNCHANGED <<rq, tunables>>,
         fifo_list' = t.fifo_list, batched' = t.batched, passed' = t.passed
  PROVE  TimedNow'
<1>1. UNCHANGED <<rq, fifo_expire, fifo_batch, shortened>>
  BY DEF tunables
<1> QED
  BY <1>1, TimedNext DEF Timed, InOrder

(* sio_add_request puts the latest deadline last.                          *)
LEMMA InsertTimed ==
  ASSUME IInv, TimedNow, NEW r \in Rq, elv_insert_sort(r)
  PROVE  TimedNow'
<1>1. /\ r \in task /\ UNCHANGED <<batched, passed, fifo_expire, fifo_batch, shortened>>
  BY DEF elv_insert_sort
<1>2. r \notin sorted /\ rq \in Requests /\ rq[r].sync \in Sync
  BY <1>1 DEF IInv, Apart, Types, Requests
<1>3. CASE elevator = "sio"
  <2> DEFINE q0 == rq[r].sync
             l == Append(fifo_list[q0], r)
  <2>1. /\ fifo_list' = [fifo_list EXCEPT ![q0] = l]
        /\ rq' = [rq EXCEPT ![r].left = fifo_expire[q0]]
    BY <1>3 DEF elv_insert_sort, sio_add_request
  <2>2. rq'[r].left = fifo_expire[q0] /\ \A x \in Rq \ {r} : rq'[x] = rq[x]
    BY <1>2, <2>1 DEF Requests
  <2>3. /\ fifo_list \in [Sync -> Seq(Rq)] /\ \A q \in Sync : distinct(fifo_list[q])
        /\ \A q \in Sync : r \notin Range(fifo_list[q]) /\ Range(fifo_list[q]) \subseteq Rq
    BY <1>2, Facts
  <2>4. /\ Range(l) = Range(fifo_list[q0]) \cup {r}
        /\ \A a, b : ahead(l, a, b)
                     <=> ahead(fifo_list[q0], a, b) \/ (a \in Range(fifo_list[q0]) /\ b = r)
    BY <1>2, <2>3, AddTail
  <2> HIDE DEF l
  <2>5. fifo_list'[q0] = l /\ \A q \in Sync \ {q0} : fifo_list'[q] = fifo_list[q]
    BY <1>2, <2>1, <2>3
  <2>6. fifo_expire[q0] \in Nat
    BY <1>2, Facts DEF Sync
  <2>7. ASSUME ~ shortened, NEW q \in Sync, NEW x \in Range(fifo_list'[q])
        PROVE  rq'[x].left <= fifo_expire'[q]
    <3>1. CASE x = r
      <4>1. q = q0
        BY <2>3, <2>5, <2>7, <3>1
      <4> QED
        BY <1>1, <2>2, <2>6, <3>1, <4>1
    <3>2. CASE x # r
      <4>1. x \in Range(fifo_list[q])
        BY <2>4, <2>5, <2>7, <3>2
      <4>2. x \in Rq \ {r}
        BY <2>3, <3>2, <4>1
      <4> QED
        BY <1>1, <2>2, <2>7, <4>1, <4>2, TimedFields
    <3> QED
      BY <3>1, <3>2
  <2>8. ASSUME ~ shortened, NEW q \in Sync, NEW a, NEW b, ahead(fifo_list'[q], a, b)
        PROVE  rq'[a].left <= rq'[b].left
    <3>1. CASE ahead(fifo_list[q], a, b)
      <4>1. a \in Range(fifo_list[q]) /\ b \in Range(fifo_list[q])
        BY <2>3, <3>1, Order
      <4>2. a \in Rq \ {r} /\ b \in Rq \ {r}
        BY <2>3, <4>1
      <4> QED
        BY <2>2, <2>8, <3>1, <4>2, TimedFields
    <3>2. CASE q = q0 /\ a \in Range(fifo_list[q0]) /\ b = r
      <4>1. a \in Rq \ {r} /\ rq[a].left <= fifo_expire[q0]
        BY <1>2, <2>3, <2>8, <3>2, TimedFields
      <4> QED
        BY <2>2, <3>2, <4>1
    <3> QED
      BY <2>4, <2>5, <2>8, <3>1, <3>2
  <2>9. passed' > 0 => fifo_list'["ASYNC"] # <<>>
    <3>1. l # <<>>
      BY <2>4 DEF Range
    <3> QED
      BY <1>1, <2>5, <3>1, TimedFields DEF Sync
  <2> QED
    BY <1>1, <2>7, <2>8, <2>9, TimedFields, TimedNext
<1>4. CASE elevator # "sio"
  <2>1. UNCHANGED <<fifo_list, rq>>
    BY <1>4 DEF elv_insert_sort, noop_add_request
  <2> QED
    BY <1>1, <2>1, TimedKept DEF tunables
<1> QED
  BY <1>3, <1>4

(* Merging neighbours does not change the deadline of the one that stays.  *)
LEMMA MergeTimed ==
  ASSUME IInv, TimedNow, NEW a \in Rq, NEW b \in Rq, elv_merge_requests(a, b)
  PROVE  TimedNow'
<1>1. UNCHANGED <<batched, passed, fifo_expire, fifo_batch, shortened>>
  BY DEF elv_merge_requests
<1>2. /\ \A x \in Rq \ {a, b} : rq'[x].left = rq[x].left
      /\ rq'[a].left = IF rq[b].left < rq[a].left THEN rq[b].left ELSE rq[a].left
      /\ fifo_list' \in [Sync -> Seq(Rq)]
      /\ \A q \in Sync : /\ distinct(fifo_list'[q])
                         /\ Range(fifo_list'[q]) = Range(fifo_list[q]) \ {b}
                         /\ \A x, y : ahead(fifo_list'[q], x, y) => ahead(fifo_list[q], x, y)
  BY MergeEffect
<1>3. /\ fifo_list \in [Sync -> Seq(Rq)] /\ \A q \in Sync : distinct(fifo_list[q])
      /\ \A q \in Sync : Range(fifo_list[q]) \subseteq Rq
      /\ noop_queue \in Seq(Rq)
  BY Facts
<1>4. rq[a].left \in Int /\ rq[b].left \in Int
  BY DEF IInv, Types, Requests
<1>5. CASE \E q \in Sync : ahead(fifo_list[q], a, b)
  <2>1. ~ shortened => rq[a].left <= rq[b].left
    BY <1>5, TimedFields
  <2>2. ~ shortened => rq'[a].left = rq[a].left
    BY <1>2, <1>4, <2>1
  <2>3. ~ shortened => \A x \in Rq \ {b} : rq'[x].left = rq[x].left
    BY <1>2, <2>2
  <2>4. ASSUME ~ shortened, NEW q \in Sync, NEW x \in Range(fifo_list'[q])
        PROVE  rq'[x].left <= fifo_expire'[q]
    <3>1. x \in Range(fifo_list[q]) /\ x \in Rq \ {b}
      BY <1>2, <1>3, <2>4
    <3> QED
      BY <1>1, <2>3, <2>4, <3>1, TimedFields
  <2>5. ASSUME ~ shortened, NEW q \in Sync, NEW x, NEW y, ahead(fifo_list'[q], x, y)
        PROVE  rq'[x].left <= rq'[y].left
    <3>1. x \in Range(fifo_list'[q]) /\ y \in Range(fifo_list'[q])
      BY <1>2, <2>5, Order
    <3>2. x \in Rq \ {b} /\ y \in Rq \ {b} /\ ahead(fifo_list[q], x, y)
      BY <1>2, <1>3, <2>5, <3>1
    <3> QED
      BY <2>3, <2>5, <3>2, TimedFields
  <2>6. passed' > 0 => fifo_list'["ASYNC"] # <<>>
    <3> SUFFICES ASSUME passed > 0 PROVE fifo_list'["ASYNC"] # <<>>
      BY <1>1
    <3>1. fifo_list["ASYNC"] # <<>>
      BY TimedFields
    <3>2. PICK q \in Sync : ahead(fifo_list[q], a, b)
      BY <1>5
    <3>3. a \in Range(fifo_list[q]) /\ b \in Range(fifo_list[q]) /\ a # b
      BY <1>3, <3>2, Order
    <3>4. CASE q = "ASYNC"
      <4>1. a \in Range(fifo_list'["ASYNC"])
        BY <1>2, <3>3, <3>4
      <4> QED
        BY <4>1 DEF Range
    <3>5. CASE q # "ASYNC"
      <4>1. fifo_list["ASYNC"] \in Seq(Rq) /\ fifo_list'["ASYNC"] \in Seq(Rq)
        BY <1>2, <1>3 DEF Sync
      <4>2. Range(fifo_list["ASYNC"]) # {}
        BY <3>1, <4>1, RangeOf
      <4>3. b \notin Range(fifo_list["ASYNC"])
        BY <3>3, <3>5, Facts DEF Sync
      <4>4. Range(fifo_list'["ASYNC"]) # {}
        BY <1>2, <4>2, <4>3 DEF Sync
      <4> QED
        BY <4>4 DEF Range
    <3> QED
      BY <3>4, <3>5
  <2> QED
    BY <1>1, <2>4, <2>5, <2>6, TimedFields, TimedNext
<1>6. CASE a \in Range(noop_queue)
  <2>1. noop_queue # <<>>
    BY <1>6 DEF Range
  <2>2. \A q \in Sync : fifo_list[q] = <<>>
    BY <2>1, ListsFields DEF IInv, Sound, Placed
  <2>3. \A q \in Sync : fifo_list'[q] = <<>>
    BY <1>2, <1>3, <2>2, RangeOf
  <2>4. Range(<<>>) = {} /\ \A x, y : ~ ahead(<<>>, x, y)
    BY DEF Range, ahead
  <2>5. passed' > 0 => fifo_list'["ASYNC"] # <<>>
    BY <1>1, <2>2, TimedFields DEF Sync
  <2> QED
    BY <1>1, <2>3, <2>4, <2>5, TimedFields, TimedNext
<1> QED
  BY <1>5, <1>6, Neighbours

(* A fetch dispatches at most once.                                        *)
LEMMA FetchTimed ==
  ASSUME IInv, TimedNow, blk_fetch_request
  PROVE  TimedNow'
<1> DEFINE s0 == IF queue_head = <<>> THEN elevator_dispatch(lists) ELSE lists
<1>1. UNCHANGED <<rq, tunables>>
  BY DEF blk_fetch_request, tunables
<1>2. PICK s \in {s0} : set_lists([s EXCEPT !.queue_head = Tail(@)]) \/ set_lists(s)
  BY DEF blk_fetch_request
<1>3. s \in Lists /\ Timed(s, rq, fifo_expire, fifo_batch)
  <2>1. Drains(0, lists) /\ rq \in Requests /\ fifo_batch \in Nat /\ elevator \in {"sio", "noop"}
    BY Facts, DrainStart DEF IInv, Types
  <2>2. Drains(0 + 1, elevator_dispatch(lists))
    BY <2>1, DrainStep
  <2>3. s = elevator_dispatch(lists) \/ s = lists
    BY <1>2
  <2> QED
    BY <2>1, <2>2, <2>3 DEF Drains, Sound, TimedNow
<1>4. fifo_list' = s.fifo_list /\ batched' = s.batched /\ passed' = s.passed
  BY <1>2, <1>3 DEF set_lists, Lists
<1> QED
  BY <1>1, <1>3, <1>4, TimedSet

(* Draining keeps the deadlines of what is left, which is nothing.         *)
LEMMA DrainTimed ==
  ASSUME IInv, TimedNow, UNCHANGED <<rq, tunables>>, NEW s \in drained,
         fifo_list' = s.fifo_list, batched' = s.batched, passed' = s.passed
  PROVE  TimedNow'
<1>1. Timed(s, rq, fifo_expire, fifo_batch)
  BY Facts, DrainedLists DEF IInv, Types, TimedNow
<1> QED
  BY <1>1, TimedSet

(* A jiffy takes one off every deadline that is not past.                  *)
LEMMA TickTimed ==
  ASSUME IInv, TimedNow, Tick
  PROVE  TimedNow'
<1>1. UNCHANGED <<fifo_list, batched, passed, fifo_expire, fifo_batch, shortened>>
  BY DEF Tick, sioVars
<1>2. \A x \in sorted : rq'[x].left = IF rq[x].left < 0 THEN rq[x].left ELSE rq[x].left - 1
  BY TickEffect
<1>3. \A x \in sorted : rq[x].left \in Nat \cup {-1}
  BY Facts DEF IInv, Types, Requests
<1>4. \A q \in Sync : fifo_expire[q] \in Nat
  BY Facts DEF Sync
<1>5. ASSUME NEW q \in Sync
      PROVE  /\ \A r \in Range(fifo_list[q]) : r \in sorted
             /\ \A a, b : ahead(fifo_list[q], a, b) => a \in sorted /\ b \in sorted
  BY Facts, Order
<1>6. ASSUME ~ shortened, NEW q \in Sync, NEW r \in Range(fifo_list'[q])
      PROVE  rq'[r].left <= fifo_expire'[q]
  <2>1. r \in sorted /\ rq[r].left <= fifo_expire[q]
    BY <1>1, <1>5, <1>6, TimedFields
  <2> QED
    BY <1>1, <1>2, <1>3, <1>4, <2>1
<1>7. ASSUME ~ shortened, NEW q \in Sync, NEW a, NEW b, ahead(fifo_list'[q], a, b)
      PROVE  rq'[a].left <= rq'[b].left
  <2>1. a \in sorted /\ b \in sorted /\ rq[a].left <= rq[b].left
    BY <1>1, <1>5, <1>7, TimedFields
  <2> QED
    BY <1>2, <1>3, <2>1
<1> QED
  BY <1>1, <1>6, <1>7, TimedFields, TimedNext

(* Nothing passed over is within every batch.                              *)
LEMMA NothingPassed ==
  \A n \in Nat, b \in Nat, p \in Nat : p = 0 => p <= n + 1 /\ p <= b /\ ~ (p > 0)
OBVIOUS

(* A new sio starts a batch when it holds no request.                      *)
LEMMA InitQueueTimed ==
  ASSUME IInv, TimedNow, elevator_init_queue
  PROVE  TimedNow'
<1>1. UNCHANGED <<rq, fifo_list, passed>>
  BY DEF elevator_init_queue
<1>2. CASE elevator = "sio"
  <2>1. batched' = batched /\ UNCHANGED tunables
    BY <1>2 DEF elevator_init_queue, other, tunables
  <2> QED
    BY <1>1, <2>1, TimedKept
<1>3. CASE elevator # "sio"
  <2>1. batched' = 0 /\ fifo_batch' \in Nat
    BY <1>3, SioAssumption DEF elevator_init_queue, other
  <2>2. \A q \in Sync : fifo_list[q] = <<>>
    BY <1>3, ListsFields DEF IInv, Sound, Placed
  <2>3. passed = 0
    <3>1. passed \in Nat
      BY Facts
    <3> QED
      BY <2>2, <3>1, TimedFields DEF Sync
  <2>4. Range(<<>>) = {} /\ \A a, b : ~ ahead(<<>>, a, b)
    BY DEF Range, ahead
  <2>5. /\ \A q \in Sync : \A r \in Range(fifo_list'[q]) : rq'[r].left <= fifo_expire'[q]
        /\ \A q \in Sync : \A a, b : ahead(fifo_list'[q], a, b) => rq'[a].left <= rq'[b].left
    BY <1>1, <2>2, <2>4
  <2>6. passed' <= fifo_batch' + 1 /\ passed' <= batched' /\ ~ (passed' > 0)
    BY <1>1, <2>1, <2>3, NothingPassed
  <2> QED
    BY <2>5, <2>6, TimedNext
<1> QED
  BY <1>2, <1>3

(* A write of a tunable: a longer expire time puts later deadlines behind  *)
(* the ones there are, and a shorter one does no harm to an empty list.    *)
LEMMA StoreTimed ==
  ASSUME IInv, TimedNow, sio_store
  PROVE  TimedNow'
<1>1. UNCHANGED <<rq, fifo_list, batched>>
  BY DEF sio_store
<1>2. ASSUME NEW s \in Sync, NEW x \in Expires[s],
             fifo_expire' = [fifo_expire EXCEPT ![s] = x],
             shortened' = (shortened \/ (x < fifo_expire[s] /\ fifo_list[s] # <<>>)),
             UNCHANGED <<fifo_batch, passed>>
      PROVE  TimedNow'
  <2>1. /\ x \in Nat /\ fifo_expire \in [Sync -> Nat]
        /\ \A q \in Sync : \A r \in Range(fifo_list[q]) : rq[r].left \in Int
    <3>1. rq \in Requests /\ \A q \in Sync : \A r \in Range(fifo_list[q]) : r \in Rq
      BY Facts DEF IInv, Types
    <3> QED
      BY <3>1, SioAssumption DEF IInv, Types, ExpireTimes, Requests
  <2>2. Range(<<>>) = {}
    BY DEF Range
  <2>3. ASSUME ~ shortened', NEW q \in Sync, NEW r \in Range(fifo_list[q])
        PROVE  rq[r].left <= fifo_expire'[q]
    <3>1. rq[r].left <= fifo_expire[q] /\ rq[r].left \in Int /\ fifo_expire[q] \in Nat
      BY <1>2, <2>1, <2>3, TimedFields
    <3>2. CASE q = s
      <4>1. fifo_list[s] # <<>>
        BY <2>2, <2>3, <3>2
      <4>2. ~ (x < fifo_expire[s]) /\ fifo_expire'[q] = x
        BY <1>2, <2>1, <2>3, <3>2, <4>1
      <4> QED
        BY <2>1, <3>1, <3>2, <4>2
    <3>3. CASE q # s
      BY <1>2, <2>1, <3>1, <3>3
    <3> QED
      BY <3>2, <3>3
  <2> QED
    BY <1>1, <1>2, <2>3, TimedFields, TimedNext
<1>3. CASE /\ fifo_batch' \in Batches /\ passed' = 0
           /\ UNCHANGED <<fifo_expire, shortened>>
  <2>1. fifo_batch' \in Nat /\ batched \in Nat
    BY <1>3, SioAssumption, Facts
  <2>2. passed' <= fifo_batch' + 1 /\ passed' <= batched' /\ ~ (passed' > 0)
    BY <1>1, <1>3, <2>1, NothingPassed
  <2> QED
    BY <1>1, <1>3, <2>2, TimedFields, TimedNext
<1> QED
  BY <1>2, <1>3 DEF sio_store

(* Every step keeps the deadlines.                                         *)
LEMMA NextTimed == IInv /\ TimedNow /\ [Next]_vars => TimedNow'
<1> SUFFICES ASSUME IInv, TimedNow, [Next]_vars PROVE TimedNow'
  OBVIOUS
<1>0. rq \in Requests /\ sorted \subseteq Rq /\ (task \cup driver) \cap sorted = {}
      /\ free \cap sorted = {}
  BY Facts DEF IInv, Types, Apart, live
<1>1. ASSUME NEW r \in Rq, NEW s \in Sync, NEW b \in BOOLEAN, get_request(r, s, b) PROVE TimedNow'
  <2>1. UNCHANGED <<fifo_list, batched, passed>> /\ UNCHANGED tunables
    BY <1>1 DEF get_request, sioVars, tunables
  <2>2. \A x \in sorted : rq'[x].left = rq[x].left
    BY <1>0, <1>1 DEF get_request, Requests
  <2> QED
    BY <2>1, <2>2, TimedKept
<1>2. ASSUME NEW r \in Rq, alloc_fails(r) \/ blk_finish_request(r) PROVE TimedNow'
  <2>1. UNCHANGED <<fifo_list, batched, passed>> /\ UNCHANGED tunables
    BY <1>2 DEF alloc_fails, blk_finish_request, sioVars, tunables
  <2>2. rq' = [rq EXCEPT ![r] = noRq] /\ r \notin sorted
    BY <1>0, <1>2 DEF alloc_fails, blk_finish_request, freed_request
  <2>3. \A x \in sorted : rq'[x].left = rq[x].left
    BY <1>0, <2>2 DEF Requests
  <2> QED
    BY <2>1, <2>3, TimedKept
<1>3. ASSUME NEW r \in Rq, insert(r) PROVE TimedNow'
  <2>1. CASE elv_insert_sort(r)
    BY <2>1, InsertTimed
  <2>2. CASE elv_insert_back(r)
    <3>1. PICK s \in drained : set_lists([s EXCEPT !.queue_head = Append(@, r)])
      BY <2>2 DEF elv_insert_back
    <3>2. s \in Lists
      BY Facts, DrainedLists DEF IInv, Types, Sound
    <3>3. fifo_list' = s.fifo_list /\ batched' = s.batched /\ passed' = s.passed
      BY <3>1, <3>2 DEF set_lists, Lists
    <3>4. UNCHANGED <<rq, tunables>>
      BY <2>2 DEF elv_insert_back, tunables
    <3> QED
      BY <3>3, <3>4, DrainTimed
  <2> QED
    BY <1>3, <2>1, <2>2 DEF insert
<1>4. ASSUME NEW r \in Rq, elv_merged_request(r) \/ blk_requeue_request(r) PROVE TimedNow'
  <2>1. UNCHANGED <<rq, fifo_list, batched, passed>> /\ UNCHANGED tunables
    BY <1>4 DEF elv_merged_request, blk_requeue_request, sioVars, tunables
  <2> QED
    BY <2>1, TimedKept
<1>5. ASSUME NEW r \in Rq, NEW b \in Rq, elv_merge_requests(r, b) PROVE TimedNow'
  BY <1>5, MergeTimed
<1>6. ASSUME blk_fetch_request \/ Tick PROVE TimedNow'
  BY <1>6, FetchTimed, TickTimed
<1>7. ASSUME sio_store \/ elevator_init_queue PROVE TimedNow'
  BY <1>7, StoreTimed, InitQueueTimed
<1>8. ASSUME elv_quiesce_start \/ elv_quiesce_again PROVE TimedNow'
  <2>1. elv_quiesce /\ UNCHANGED <<rq, tunables>>
    BY <1>8 DEF elv_quiesce_start, elv_quiesce_again, tunables
  <2>2. PICK s \in drained : set_lists(s)
    BY <2>1 DEF elv_quiesce
  <2>3. fifo_list' = s.fifo_list /\ batched' = s.batched /\ passed' = s.passed
    BY <2>2 DEF set_lists
  <2> QED
    BY <2>1, <2>3, DrainTimed
<1>9. ASSUME \/ elevator_exit_old \/ fail_register \/ reattach \/ elv_quiesce_end
             \/ deref_exited
      PROVE  TimedNow'
  <2>1. UNCHANGED noRequests
    BY <1>9 DEF elevator_exit_old, fail_register, reattach, elv_quiesce_end, deref_exited
  <2>2. UNCHANGED <<rq, fifo_list, batched, passed>> /\ UNCHANGED tunables
    BY <2>1 DEF noRequests, sioVars, tunables
  <2> QED
    BY <2>2, TimedKept
<1>10. ASSUME UNCHANGED vars PROVE TimedNow'
  <2>1. UNCHANGED <<rq, fifo_list, batched, passed>> /\ UNCHANGED tunables
    BY <1>10 DEF vars, sioVars, tunables
  <2> QED
    BY <2>1, TimedKept
<1> QED
  BY <1>1, <1>2, <1>3, <1>4, <1>5, <1>6, <1>7, <1>8, <1>9, <1>10 DEF Next, switchStep

(* They hold at the start, when there are none.                            *)
LEMMA InitTimed == Init => TimedNow
<1> SUFFICES ASSUME Init PROVE TimedNow
  OBVIOUS
<1>1. /\ fifo_list = [s \in Sync |-> <<>>] /\ batched = 0 /\ passed = 0 /\ fifo_batch \in Nat
  BY SioAssumption DEF Init
<1>2. \A q \in Sync : fifo_list[q] = <<>>
  BY <1>1
<1>3. Range(<<>>) = {} /\ \A a, b : ~ ahead(<<>>, a, b)
  BY DEF Range, ahead
<1> QED
  BY <1>1, <1>2, <1>3, TimedFields

(* They are what DeadlinesKept asks for.                                   *)
LEMMA TimedKeeps == IInv /\ TimedNow => DeadlinesKept
<1> SUFFICES ASSUME IInv, TimedNow PROVE DeadlinesKept
  OBVIOUS
<1>1. FifoInDeadlineOrder
  <2> SUFFICES ASSUME ~ shortened, NEW s \in Sync, NEW i \in DOMAIN fifo_list[s],
                      NEW j \in DOMAIN fifo_list[s], i < j
               PROVE  rq[fifo_list[s][i]].left <= rq[fifo_list[s][j]].left
    BY DEF FifoInDeadlineOrder
  <2>1. DOMAIN fifo_list[s] = 1 .. Len(fifo_list[s])
    BY Facts, RangeOf
  <2>2. ahead(fifo_list[s], fifo_list[s][i], fifo_list[s][j])
    BY <2>1 DEF ahead
  <2> QED
    BY <2>2, TimedFields
<1>2. ExpiredServed
  BY TimedFields DEF ExpiredServed
<1> QED
  BY <1>1, <1>2 DEF DeadlinesKept

(* Whatever is written to the tunables, the head of each of sio's lists    *)
(* has the earliest deadline unless a time was shortened under it, and the *)
(* expired head of the asynchronous list is passed over by one batch at    *)
(* most, over merges, requeues and switches.                               *)
THEOREM DeadlinesStayKept == Spec => []DeadlinesKept
<1>1. Init => IInv /\ TimedNow
  BY InitIInv, InitTimed
<1>2. (IInv /\ TimedNow) /\ [Next]_vars => (IInv /\ TimedNow)'
  BY NextIInv, NextTimed
<1> QED
  BY <1>1, <1>2, TimedKeeps, PTL DEF Spec

=============================================================================
