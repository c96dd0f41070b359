-------------------------- MODULE DevicePM_proofs --------------------------
(***************************************************************************)
(* The device core keeps its lists sound, its hardware in step with the    *)
(* transition, and children below their parents: the invariants of         *)
(* DevicePM for every tree of devices, any of them asynchronous.           *)
(*                                                                         *)
(* Read one after the other, prepared, suspended, noirq, the local list of *)
(* dpm_complete and dpm_list are one sequence, in which a child comes      *)
(* after its parent.  A device only ever goes from the end of one list to  *)
(* the near end of another, with empty ones between them, so that no move  *)
(* changes the order of that sequence.  What the phases, the threads and   *)
(* the hardware may be follows the position of a device in it.             *)
(***************************************************************************)
EXTENDS DevicePM, SequenceTheorems, TLAPS

distinct(l) == \A i, j \in 1 .. Len(l) : l[i] = l[j] => i = j

on(n) == Range(lists[n])

(* x is the last, or the first, entry of l.                                *)
is_last(l, x) == x \in Range(l) /\ \A a \in Range(l) \ {x} : before(l, a, x)
is_first(l, x) == x \in Range(l) /\ \A a \in Range(l) \ {x} : before(l, x, a)

-----------------------------------------------------------------------------
(* Lemmas on one list.                                                     *)

(* The entries of a list are what stands at its positions.                 *)
LEMMA RangeOf ==
  ASSUME NEW l \in Seq(Devices)
  PROVE  /\ Range(l) = {l[i] : i \in 1 .. Len(l)}
         /\ Range(l) \subseteq Devices
         /\ l = <<>> <=> Range(l) = {}
BY DEF Range

(* RemoveAt moves the entries after the position.                          *)
LEMMA RemoveAtPositions ==
  ASSUME NEW S, NEW s \in Seq(S), NEW p \in 1 .. Len(s)
  PROVE  /\ RemoveAt(s, p) \in Seq(S)
         /\ Len(RemoveAt(s, p)) = Len(s) - 1
         /\ \A i \in 1 .. Len(s) - 1 :
              RemoveAt(s, p)[i] = IF i < p THEN s[i] ELSE s[i + 1]
<1> DEFINE a == SubSeq(s, 1, p - 1)
           b == SubSeq(s, p + 1, Len(s))
<1>1. a \in Seq(S) /\ Len(a) = p - 1 /\ \A i \in 1 .. p - 1 : a[i] = s[i]
  OBVIOUS
<1>2. b \in Seq(S) /\ Len(b) = Len(s) - p
      /\ \A i \in 1 .. Len(s) - p : b[i] = s[p + i]
  OBVIOUS
<1>3. RemoveAt(s, p) = a \o b
  BY DEF RemoveAt
<1> HIDE DEF a, b
<1>4. Len(s) \in Nat /\ p \in Int /\ 1 <= p /\ p <= Len(s)
  OBVIOUS
<1>5. a \o b \in Seq(S) /\ Len(a \o b) = Len(s) - 1
  <2>1. a \o b \in Seq(S) /\ Len(a \o b) = Len(a) + Len(b)
    BY <1>1, <1>2, ConcatProperties
  <2> QED
    BY <1>1, <1>2, <1>4, <2>1
<1>6. \A i \in 1 .. Len(s) - 1 : (a \o b)[i] = IF i <= p - 1 THEN a[i] ELSE b[i - (p - 1)]
  BY <1>1, <1>2, <1>4, ConcatProperties
<1>7. ASSUME NEW i \in 1 .. Len(s) - 1
      PROVE  (a \o b)[i] = IF i < p THEN s[i] ELSE s[i + 1]
  <2>0. i \in Int /\ 1 <= i /\ i <= Len(s) - 1
    BY <1>4
  <2>1. ASSUME i < p PROVE (a \o b)[i] = s[i]
    <3>1. i \in 1 .. p - 1 /\ i <= p - 1
      BY <1>4, <2>0, <2>1
    <3>2. (a \o b)[i] = a[i]
      BY <1>6, <3>1
    <3> QED
      BY <1>1, <3>1, <3>2
  <2>2. ASSUME ~ (i < p) PROVE (a \o b)[i] = s[i + 1]
    <3> DEFINE k == i - (p - 1)
    <3>1. k \in 1 .. Len(s) - p /\ p + k = i + 1 /\ ~ (i <= p - 1)
      BY <1>4, <2>0, <2>2
    <3>2. (a \o b)[i] = b[k]
      BY <1>6, <3>1
    <3> HIDE DEF k
    <3>3. b[k] = s[p + k]
      BY <1>2, <3>1
    <3> QED
      BY <3>1, <3>2, <3>3
  <2> QED
    BY <2>1, <2>2
<1> QED
  BY <1>3, <1>5, <1>7

(* del takes one entry out and keeps the order of the others.              *)
LEMMA Del ==
  ASSUME NEW l \in Seq(Devices), distinct(l), NEW d
  PROVE  /\ del(l, d) \in Seq(Devices) /\ distinct(del(l, d))
         /\ Range(del(l, d)) = Range(l) \ {d}
         /\ \A a, b : before(del(l, d), a, b) <=> before(l, a, b) /\ a # d /\ b # d
<1>1. CASE d \notin Range(l)
  <2>1. del(l, d) = l
    BY <1>1, RangeOf DEF del, RemoveFirst
  <2>2. \A a, b : before(l, a, b) => a \in Range(l) /\ b \in Range(l)
    BY RangeOf DEF before
  <2> QED
    BY <1>1, <2>1, <2>2
<1>2. CASE d \in Range(l)
  <2>1. PICK p \in 1 .. Len(l) : l[p] = d
    BY <1>2, RangeOf
  <2>2. {i \in 1 .. Len(l) : l[i] = d} = {p}
    BY <2>1 DEF distinct
  <2>3. SelectInSeq(l, LAMBDA v : v = d) = p
    BY <2>2 DEF SelectInSeq, Min
  <2> DEFINE m == del(l, d)
  <2>4. m = RemoveAt(l, p)
    BY <2>1, <2>3 DEF del, RemoveFirst
  <2>5. /\ m \in Seq(Devices) /\ Len(m) = Len(l) - 1
        /\ \A i \in 1 .. Len(l) - 1 : m[i] = IF i < p THEN l[i] ELSE l[i + 1]
    BY <2>4, RemoveAtPositions
  <2> HIDE DEF m
  <2>6. Len(l) \in Nat /\ p \in Int /\ 1 <= p /\ p <= Len(l) /\ DOMAIN l = 1 .. Len(l)
    OBVIOUS
  <2> DEFINE up(i) == IF i < p THEN i ELSE i + 1
             down(i) == IF i < p THEN i ELSE i - 1
  <2>7. \A i \in 1 .. Len(m) : up(i) \in 1 .. Len(l) /\ up(i) # p /\ m[i] = l[up(i)]
    BY <2>5, <2>6
  <2>8. \A i, j \in 1 .. Len(m) : (i < j <=> up(i) < up(j)) /\ (up(i) = up(j) => i = j)
    BY <2>5, <2>6
  <2>9. \A i \in 1 .. Len(l) : i # p => down(i) \in 1 .. Len(m) /\ up(down(i)) = i
    BY <2>5, <2>6
  <2> HIDE DEF up, down
  <2>10. \A i \in 1 .. Len(l) : l[i] = d <=> i = p
    BY <2>1 DEF distinct
  <2>11. distinct(m)
    BY <2>7, <2>8 DEF distinct
  <2>12. Range(m) = Range(l) \ {d}
    <3>1. Range(m) \subseteq Range(l) \ {d}
      BY <2>5, <2>7, <2>10, RangeOf
    <3>2. ASSUME NEW i \in 1 .. Len(l), l[i] # d PROVE l[i] \in Range(m)
      <4>1. down(i) \in 1 .. Len(m) /\ m[down(i)] = l[i]
        BY <2>7, <2>9, <2>10, <3>2
      <4> QED
        BY <2>5, <4>1, RangeOf
    <3> QED
      BY <3>1, <3>2, RangeOf
  <2>13. ASSUME NEW a, NEW b, before(m, a, b) PROVE before(l, a, b) /\ a # d /\ b # d
    <3>1. PICK i, j \in 1 .. Len(m) : i < j /\ m[i] = a /\ m[j] = b
      BY <2>13 DEF before
    <3>2. up(i) < up(j) /\ l[up(i)] = a /\ l[up(j)] = b
      BY <2>7, <2>8, <3>1
    <3> QED
      BY <2>7, <2>10, <3>1, <3>2 DEF before
  <2>14. ASSUME NEW a, NEW b, before(l, a, b), a # d, b # d PROVE before(m, a, b)
    <3>1. PICK i, j \in 1 .. Len(l) : i < j /\ l[i] = a /\ l[j] = b
      BY <2>14 DEF before
    <3>2. i # p /\ j # p
      BY <2>10, <2>14, <3>1
    <3>3. /\ down(i) \in 1 .. Len(m) /\ m[down(i)] = a
          /\ down(j) \in 1 .. Len(m) /\ m[down(j)] = b
      BY <2>7, <2>9, <3>1, <3>2
    <3>4. down(i) < down(j)
      BY <2>8, <2>9, <3>1, <3>2, <3>3
    <3> QED
      BY <3>3, <3>4 DEF before
  <2> QED
    BY <2>5, <2>11, <2>12, <2>13, <2>14 DEF m
<1> QED
  BY <1>1, <1>2

(* Two lists with no entry in common make one.                             *)
LEMMA Concat ==
  ASSUME NEW l \in Seq(Devices), NEW m \in Seq(Devices), distinct(l), distinct(m),
         Range(l) \cap Range(m) = {}
  PROVE  /\ l \o m \in Seq(Devices) /\ distinct(l \o m)
         /\ Range(l \o m) = Range(l) \cup Range(m)
         /\ \A a, b : before(l, a, b) \/ before(m, a, b) \/ (a \in Range(l) /\ b \in Range(m))
                      => before(l \o m, a, b)
<1> DEFINE c == l \o m
<1>1. /\ c \in Seq(Devices) /\ Len(c) = Len(l) + Len(m)
      /\ \A i \in 1 .. Len(l) + Len(m) : c[i] = IF i <= Len(l) THEN l[i] ELSE m[i - Len(l)]
  BY ConcatProperties
<1> HIDE DEF c
<1>2. Len(l) \in Nat /\ Len(m) \in Nat
  OBVIOUS
<1>3. \A i \in 1 .. Len(l) : i \in 1 .. Len(c) /\ c[i] = l[i] /\ l[i] \in Range(l)
  BY <1>1, <1>2, RangeOf
<1>4. \A i \in 1 .. Len(m) : i + Len(l) \in 1 .. Len(c) /\ c[i + Len(l)] = m[i] /\ m[i] \in Range(m)
  <2>1. \A i \in 1 .. Len(m) : i + Len(l) \in 1 .. Len(c) /\ ~ (i + Len(l) <= Len(l))
                               /\ (i + Len(l)) - Len(l) = i
    BY <1>1, <1>2
  <2> QED
    BY <1>1, <2>1, RangeOf
<1>5. \A i \in 1 .. Len(c) : i \in 1 .. Len(l) \/ \E j \in 1 .. Len(m) : i = j + Len(l)
  <2> TAKE i \in 1 .. Len(c)
  <2>1. i <= Len(l) => i \in 1 .. Len(l)
    BY <1>1, <1>2
  <2>2. ~ (i <= Len(l)) => i - Len(l) \in 1 .. Len(m) /\ i = (i - Len(l)) + Len(l)
    BY <1>1, <1>2
  <2> QED
    BY <2>1, <2>2
<1>6. distinct(c)
  <2> SUFFICES ASSUME NEW i \in 1 .. Len(c), NEW j \in 1 .. Len(c), c[i] = c[j]
               PROVE  i = j
    BY DEF distinct
  <2>1. CASE i \in 1 .. Len(l) /\ j \in 1 .. Len(l)
    BY <1>3, <2>1 DEF distinct
  <2>2. ASSUME NEW a \in 1 .. Len(m), NEW b \in 1 .. Len(m), i = a + Len(l), j = b + Len(l)
        PROVE  i = j
    BY <1>4, <2>2 DEF distinct
  <2>3. ASSUME i \in 1 .. Len(l), NEW b \in 1 .. Len(m), j = b + Len(l) PROVE FALSE
    BY <1>3, <1>4, <2>3
  <2>4. ASSUME j \in 1 .. Len(l), NEW b \in 1 .. Len(m), i = b + Len(l) PROVE FALSE
    BY <1>3, <1>4, <2>4
  <2> QED
    BY <1>5, <2>1, <2>2, <2>3, <2>4
<1>7. Range(c) = Range(l) \cup Range(m)
  <2>0. Range(c) = {c[i] : i \in 1 .. Len(c)}
    BY <1>1, RangeOf
  <2>1. \A i \in 1 .. Len(c) : c[i] \in Range(l) \cup Range(m)
    BY <1>3, <1>4, <1>5
  <2>2. \A i \in 1 .. Len(l) : l[i] \in Range(c)
    BY <1>3, <2>0
  <2>3. \A i \in 1 .. Len(m) : m[i] \in Range(c)
    BY <1>4, <2>0
  <2>4. Range(l) \subseteq Range(c) /\ Range(m) \subseteq Range(c)
    BY <2>2, <2>3, RangeOf
  <2>5. Range(c) \subseteq Range(l) \cup Range(m)
    BY <2>0, <2>1
  <2> QED
    BY <2>4, <2>5
<1>8. ASSUME NEW a, NEW b, before(l, a, b) PROVE before(c, a, b)
  BY <1>3, <1>8 DEF before
<1>9. ASSUME NEW a, NEW b, before(m, a, b) PROVE before(c, a, b)
  <2>1. PICK i, j \in 1 .. Len(m) : i < j /\ m[i] = a /\ m[j] = b
    BY <1>9 DEF before
  <2>2. i + Len(l) < j + Len(l)
    BY <1>2, <2>1
  <2> QED
    BY <1>4, <2>1, <2>2 DEF before
<1>10. ASSUME NEW a \in Range(l), NEW b \in Range(m) PROVE before(c, a, b)
  <2>1. PICK i \in 1 .. Len(l) : l[i] = a
    BY RangeOf
  <2>2. PICK j \in 1 .. Len(m) : m[j] = b
    BY RangeOf
  <2>3. i < j + Len(l)
    BY <1>2
  <2> QED
    BY <1>3, <1>4, <2>1, <2>2, <2>3 DEF before
<1> QED
  BY <1>1, <1>6, <1>7, <1>8, <1>9, <1>10 DEF c

(* A list of one.                                                          *)
LEMMA One ==
  ASSUME NEW d \in Devices
  PROVE  <<d>> \in Seq(Devices) /\ distinct(<<d>>) /\ Range(<<d>>) = {d}
BY DEF distinct, Range

(* list_add_tail of a device that is not on the list.                      *)
LEMMA AddTail ==
  ASSUME NEW l \in Seq(Devices), distinct(l), NEW d \in Devices, d \notin Range(l)
  PROVE  /\ Append(l, d) \in Seq(Devices) /\ distinct(Append(l, d))
         /\ Range(Append(l, d)) = Range(l) \cup {d}
         /\ \A a, b : before(l, a, b) \/ (a \in Range(l) /\ b = d) => before(Append(l, d), a, b)
<1>1. Append(l, d) = l \o <<d>>
  OBVIOUS
<1>2. /\ <<d>> \in Seq(Devices) /\ distinct(<<d>>) /\ Range(<<d>>) = {d}
      /\ Range(l) \cap Range(<<d>>) = {}
  BY One
<1> DEFINE m == <<d>>
<1> HIDE DEF m
<1>3. /\ l \o m \in Seq(Devices) /\ distinct(l \o m)
      /\ Range(l \o m) = Range(l) \cup Range(m)
      /\ \A a, b : before(l, a, b) \/ before(m, a, b) \/ (a \in Range(l) /\ b \in Range(m))
                   => before(l \o m, a, b)
  <2>1. m \in Seq(Devices) /\ distinct(m) /\ Range(l) \cap Range(m) = {}
    BY <1>2 DEF m
  <2> QED
    BY <2>1, Concat
<1> QED
  BY <1>1, <1>2, <1>3 DEF m

(* list_add of a device that is not on the list.                           *)
LEMMA AddFront ==
  ASSUME NEW l \in Seq(Devices), distinct(l), NEW d \in Devices, d \notin Range(l)
  PROVE  /\ <<d>> \o l \in Seq(Devices) /\ distinct(<<d>> \o l)
         /\ Range(<<d>> \o l) = Range(l) \cup {d}
         /\ \A a, b : before(l, a, b) \/ (a = d /\ b \in Range(l)) => before(<<d>> \o l, a, b)
<1>1. /\ <<d>> \in Seq(Devices) /\ distinct(<<d>>) /\ Range(<<d>>) = {d}
      /\ Range(<<d>>) \cap Range(l) = {}
  BY One
<1> DEFINE m == <<d>>
<1> HIDE DEF m
<1>2. /\ m \o l \in Seq(Devices) /\ distinct(m \o l)
      /\ Range(m \o l) = Range(m) \cup Range(l)
      /\ \A a, b : before(m, a, b) \/ before(l, a, b) \/ (a \in Range(m) /\ b \in Range(l))
                   => before(m \o l, a, b)
  <2>1. m \in Seq(Devices) /\ distinct(m) /\ Range(m) \cap Range(l) = {}
    BY <1>1 DEF m
  <2> QED
    BY <2>1, Concat
<1> QED
  BY <1>1, <1>2 DEF m

(* The order of a list is one.                                             *)
LEMMA Order ==
  ASSUME NEW l \in Seq(Devices), distinct(l), NEW a, NEW b, before(l, a, b)
  PROVE  a \in Range(l) /\ b \in Range(l) /\ ~ before(l, b, a)
BY RangeOf DEF before, distinct

(* The entries at the ends of a list.                                      *)
LEMMA Ends ==
  ASSUME NEW l \in Seq(Devices), l # <<>>
  PROVE  is_last(l, l[Len(l)]) /\ is_first(l, Head(l))
<1>1. Len(l) \in Nat /\ Len(l) > 0 /\ Head(l) = l[1]
  OBVIOUS
<1>2. is_last(l, l[Len(l)])
  <2>1. l[Len(l)] \in Range(l)
    BY <1>1, RangeOf
  <2>2. ASSUME NEW i \in 1 .. Len(l), l[i] # l[Len(l)] PROVE before(l, l[i], l[Len(l)])
    <3>1. Len(l) \in 1 .. Len(l) /\ i # Len(l) /\ i < Len(l)
      BY <1>1, <2>2
    <3> QED
      BY <3>1 DEF before
  <2> QED
    BY <2>1, <2>2, RangeOf DEF is_last
<1>3. is_first(l, l[1])
  <2>1. l[1] \in Range(l)
    BY <1>1, RangeOf
  <2>2. ASSUME NEW i \in 1 .. Len(l), l[i] # l[1] PROVE before(l, l[1], l[i])
    <3>1. 1 \in 1 .. Len(l) /\ i # 1 /\ 1 < i
      BY <1>1, <2>2
    <3> QED
      BY <3>1 DEF before
  <2> QED
    BY <2>1, <2>2, RangeOf DEF is_first
<1> QED
  BY <1>1, <1>2, <1>3

-----------------------------------------------------------------------------
(* The lists together.                                                     *)

(* The order of the lists when they are read as one.                       *)
rank == [n \in ListNames |-> CASE n = "prepared" -> 1
                               [] n = "suspended" -> 2
                               [] n = "noirq" -> 3
                               [] n = "completed" -> 4
                               [] OTHER -> 5]

(* Of lists L: no device twice, and a comes before b.                      *)
Sound(L) ==
  /\ L \in [ListNames -> Seq(Devices)]
  /\ \A n \in ListNames : distinct(L[n])
  /\ \A n, m \in ListNames : n # m => Range(L[n]) \cap Range(L[m]) = {}

Above(L, a, b) ==
  \E n, m \in ListNames :
    /\ a \in Range(L[n]) /\ b \in Range(L[m])
    /\ rank[n] < rank[m] \/ (n = m /\ before(L[n], a, b))

(* The ranks of the lists.                                                 *)
LEMMA Ranks ==
  /\ rank["prepared"] = 1 /\ rank["suspended"] = 2 /\ rank["noirq"] = 3
  /\ rank["completed"] = 4 /\ rank["dpm_list"] = 5
  /\ \A n \in ListNames : rank[n] \in 1 .. 5
  /\ \A n, m \in ListNames : rank[n] = rank[m] => n = m
BY DEF rank, ListNames

(* From L to M a device x has moved from list n to list m, and whatever    *)
(* came before something still does.                                       *)
Moved(L, M, n, m, x) ==
  /\ Sound(M)
  /\ Range(M[n]) = Range(L[n]) \ {x} /\ Range(M[m]) = Range(L[m]) \cup {x}
  /\ \A k \in ListNames \ {n, m} : Range(M[k]) = Range(L[k])
  /\ \A a, b : Above(L, a, b) => Above(M, a, b)

(* The same, with what is known of each list before the ends are looked    *)
(* at.                                                                     *)
Rearranged(L, M, n, m, x) ==
  /\ Sound(M)
  /\ Range(M[n]) = Range(L[n]) \ {x} /\ Range(M[m]) = Range(L[m]) \cup {x}
  /\ \A k \in ListNames \ {n, m} : Range(M[k]) = Range(L[k])
  /\ \A k \in ListNames : \A a, b :
       before(L[k], a, b) /\ a # x /\ b # x => before(M[k], a, b)

(* What moving a device changes, wherever on list m it is put.             *)
LEMMA Move ==
  ASSUME NEW L, Sound(L), NEW n \in ListNames, NEW m \in ListNames, n # m,
         NEW x \in Range(L[n]), NEW M,
         M \in [ListNames -> Seq(Devices)],
         \A k \in ListNames \ {m} : M[k] = del(L[k], x),
         M[m] = <<x>> \o del(L[m], x) \/ M[m] = Append(del(L[m], x), x)
  PROVE  Rearranged(L, M, n, m, x)
<1>0. /\ L \in [ListNames -> Seq(Devices)]
      /\ \A k \in ListNames : L[k] \in Seq(Devices) /\ distinct(L[k])
      /\ \A k, j \in ListNames : k # j => Range(L[k]) \cap Range(L[j]) = {}
  BY DEF Sound
<1>1. x \in Devices /\ \A k \in ListNames \ {n} : x \notin Range(L[k])
  BY <1>0, RangeOf
<1>2. \A k \in ListNames :
        /\ del(L[k], x) \in Seq(Devices) /\ distinct(del(L[k], x))
        /\ Range(del(L[k], x)) = Range(L[k]) \ {x}
        /\ \A a, b : before(L[k], a, b) /\ a # x /\ b # x => before(del(L[k], x), a, b)
  BY <1>0, Del
<1>3. x \notin Range(del(L[m], x))
  BY <1>2
<1>4. /\ distinct(M[m]) /\ Range(M[m]) = Range(L[m]) \cup {x}
      /\ \A a, b : before(del(L[m], x), a, b) => before(M[m], a, b)
  <2> DEFINE t == del(L[m], x)
  <2>0. /\ t \in Seq(Devices) /\ distinct(t) /\ x \notin Range(t)
        /\ Range(t) \cup {x} = Range(L[m]) \cup {x}
    BY <1>2, <1>3
  <2> HIDE DEF t
  <2>1. CASE M[m] = <<x>> \o t
    BY <1>1, <2>0, <2>1, AddFront DEF t
  <2>2. CASE M[m] = Append(t, x)
    BY <1>1, <2>0, <2>2, AddTail DEF t
  <2> QED
    BY <2>1, <2>2 DEF t
<1>5. \A k \in ListNames \ {m} : distinct(M[k]) /\ Range(M[k]) = Range(L[k]) \ {x}
  BY <1>2
<1>6. \A k \in ListNames : distinct(M[k])
  BY <1>4, <1>5
<1>7. \A k \in ListNames \ {n, m} : Range(M[k]) = Range(L[k])
  BY <1>1, <1>5
<1>8. Range(M[n]) = Range(L[n]) \ {x}
  BY <1>5
<1>9. \A k, j \in ListNames : k # j => Range(M[k]) \cap Range(M[j]) = {}
  <2>1. \A k \in ListNames \ {m} : Range(M[k]) \cap Range(M[m]) = {}
    BY <1>0, <1>4, <1>5
  <2>2. \A k, j \in ListNames \ {m} : k # j => Range(M[k]) \cap Range(M[j]) = {}
    BY <1>0, <1>5
  <2> QED
    BY <2>1, <2>2
<1>10. \A k \in ListNames : \A a, b : before(L[k], a, b) /\ a # x /\ b # x => before(M[k], a, b)
  <2>1. \A a, b : before(L[m], a, b) /\ a # x /\ b # x => before(M[m], a, b)
    BY <1>2, <1>4
  <2>2. \A k \in ListNames \ {m} : \A a, b :
          before(L[k], a, b) /\ a # x /\ b # x => before(M[k], a, b)
    <3> TAKE k \in ListNames \ {m}
    <3>1. M[k] = del(L[k], x)
      OBVIOUS
    <3>2. \A a, b : before(L[k], a, b) /\ a # x /\ b # x => before(del(L[k], x), a, b)
      BY <1>2
    <3> QED
      BY <3>1, <3>2
  <2> QED
    BY <2>1, <2>2
<1> QED
  BY <1>4, <1>6, <1>7, <1>8, <1>9, <1>10 DEF Sound, Rearranged

(* Nothing comes before itself, on a list or across them.                  *)
LEMMA AboveLists ==
  ASSUME NEW L, Sound(L), NEW a, NEW b, NEW n \in ListNames, NEW m \in ListNames,
         Above(L, a, b), a \in Range(L[n]), b \in Range(L[m])
  PROVE  rank[n] < rank[m] \/ (n = m /\ before(L[n], a, b))
BY DEF Above, Sound

(* list_move of the last device of list n, to the front of a list that     *)
(* comes later, with nothing in between.                                   *)
LEMMA MoveDown ==
  ASSUME NEW L, Sound(L), NEW n \in ListNames, NEW m \in ListNames, rank[n] < rank[m],
         \A k \in ListNames : rank[n] < rank[k] /\ rank[k] < rank[m] => Range(L[k]) = {},
         NEW x, is_last(L[n], x), NEW M,
         M = [k \in ListNames |-> IF k = m THEN <<x>> \o del(L[k], x) ELSE del(L[k], x)]
  PROVE  Moved(L, M, n, m, x)
<1>0. /\ L \in [ListNames -> Seq(Devices)]
      /\ \A k \in ListNames : L[k] \in Seq(Devices) /\ distinct(L[k])
      /\ \A k, j \in ListNames : k # j => Range(L[k]) \cap Range(L[j]) = {}
  BY DEF Sound
<1>1. n # m /\ x \in Range(L[n]) /\ x \in Devices
  BY <1>0, Ranks, RangeOf DEF is_last
<1>2. /\ \A k \in ListNames : del(L[k], x) \in Seq(Devices) /\ distinct(del(L[k], x))
      /\ \A k \in ListNames : Range(del(L[k], x)) = Range(L[k]) \ {x}
  BY <1>0, Del
<1>3. /\ <<x>> \o del(L[m], x) \in Seq(Devices)
      /\ \A b \in Range(del(L[m], x)) : before(<<x>> \o del(L[m], x), x, b)
  BY <1>1, <1>2, AddFront
<1>4. M \in [ListNames -> Seq(Devices)] /\ M[m] = <<x>> \o del(L[m], x)
      /\ \A k \in ListNames \ {m} : M[k] = del(L[k], x)
  BY <1>2, <1>3
<1>5. /\ Sound(M)
      /\ Range(M[n]) = Range(L[n]) \ {x} /\ Range(M[m]) = Range(L[m]) \cup {x}
      /\ \A k \in ListNames \ {n, m} : Range(M[k]) = Range(L[k])
      /\ \A k \in ListNames : \A a, b :
           before(L[k], a, b) /\ a # x /\ b # x => before(M[k], a, b)
  <2>1. Rearranged(L, M, n, m, x)
    BY <1>1, <1>4, Move
  <2> QED
    BY <2>1 DEF Rearranged
<1>6. \A b \in Range(L[m]) : before(M[m], x, b)
  <2>1. x \notin Range(L[m])
    BY <1>0, <1>1
  <2> QED
    BY <1>2, <1>3, <1>4, <2>1
<1>7. ASSUME NEW a, NEW b, Above(L, a, b) PROVE Above(M, a, b)
  <2>1. PICK i, j \in ListNames :
          /\ a \in Range(L[i]) /\ b \in Range(L[j])
          /\ rank[i] < rank[j] \/ (i = j /\ before(L[i], a, b))
    BY <1>7 DEF Above
  <2>2. CASE a = x
    <3>1. i = n
      BY <1>0, <1>1, <2>1, <2>2
    <3>2. ~ before(L[n], x, b)
      <4>1. b = x => ~ before(L[n], x, x)
        BY <1>0, Order
      <4>2. b \in Range(L[n]) /\ b # x => before(L[n], b, x)
        BY DEF is_last
      <4>3. b \in Range(L[n]) /\ b # x => ~ before(L[n], x, b)
        BY <1>0, <4>2, Order
      <4>4. before(L[n], x, b) => b \in Range(L[n])
        BY <1>0, Order
      <4> QED
        BY <4>1, <4>3, <4>4
    <3>3. rank[n] < rank[j] /\ j # n
      BY <2>1, <2>2, <3>1, <3>2, Ranks
    <3>4. rank[m] <= rank[j]
      <4>1. ~ (rank[j] < rank[m])
        BY <2>1, <3>3
      <4> QED
        BY <4>1, Ranks
    <3>5. CASE j = m
      <4>1. before(M[m], a, b) /\ a \in Range(M[m]) /\ b \in Range(M[m])
        BY <1>5, <1>6, <2>1, <2>2, <3>5
      <4> QED
        BY <4>1 DEF Above
    <3>6. CASE j # m
      <4>1. rank[m] < rank[j]
        <5>1. rank[j] \in Int /\ rank[m] \in Int /\ rank[j] # rank[m]
          BY <3>6, Ranks
        <5> QED
          BY <3>4, <5>1
      <4>2. a \in Range(M[m]) /\ b \in Range(M[j])
        BY <1>5, <2>1, <2>2, <3>3, <3>6
      <4> QED
        BY <4>1, <4>2 DEF Above
    <3> QED
      BY <3>5, <3>6
  <2>3. CASE a # x /\ b = x
    <3>1. j = n
      BY <1>0, <1>1, <2>1, <2>3
    <3>2. rank[i] <= rank[n]
      BY <2>1, <3>1, Ranks
    <3>3. rank[i] < rank[m] /\ i # m
      <4>1. rank[i] \in Int /\ rank[n] \in Int /\ rank[m] \in Int
        BY Ranks
      <4> QED
        BY <3>2, <4>1
    <3>4. a \in Range(M[i]) /\ b \in Range(M[m])
      BY <1>5, <2>1, <2>3, <3>3
    <3> QED
      BY <3>3, <3>4 DEF Above
  <2>4. CASE a # x /\ b # x
    <3>1. a \in Range(M[i]) /\ b \in Range(M[j])
      BY <1>5, <2>1, <2>4
    <3>2. i = j /\ before(L[i], a, b) => before(M[i], a, b)
      BY <1>5, <2>4
    <3> QED
      BY <2>1, <3>1, <3>2 DEF Above
  <2> QED
    BY <2>2, <2>3, <2>4
<1> QED
  BY <1>5, <1>7 DEF Moved

(* list_move_tail of the first device of list n, to the back of a list     *)
(* that comes earlier, with nothing in between.                            *)
LEMMA MoveUp ==
  ASSUME NEW L, Sound(L), NEW n \in ListNames, NEW m \in ListNames, rank[m] < rank[n],
         \A k \in ListNames : rank[m] < rank[k] /\ rank[k] < rank[n] => Range(L[k]) = {},
         NEW x, is_first(L[n], x), NEW M,
         M = [k \in ListNames |-> IF k = m THEN Append(del(L[k], x), x) ELSE del(L[k], x)]
  PROVE  Moved(L, M, n, m, x)
<1>0. /\ L \in [ListNames -> Seq(Devices)]
      /\ \A k \in ListNames : L[k] \in Seq(Devices) /\ distinct(L[k])
      /\ \A k, j \in ListNames : k # j => Range(L[k]) \cap Range(L[j]) = {}
  BY DEF Sound
<1>1. n # m /\ x \in Range(L[n]) /\ x \in Devices
  BY <1>0, Ranks, RangeOf DEF is_first
<1>2. /\ \A k \in ListNames : del(L[k], x) \in Seq(Devices) /\ distinct(del(L[k], x))
      /\ \A k \in ListNames : Range(del(L[k], x)) = Range(L[k]) \ {x}
  BY <1>0, Del
<1>3. /\ Append(del(L[m], x), x) \in Seq(Devices)
      /\ \A a \in Range(del(L[m], x)) : before(Append(del(L[m], x), x), a, x)
  BY <1>1, <1>2, AddTail
<1>4. M \in [ListNames -> Seq(Devices)] /\ M[m] = Append(del(L[m], x), x)
      /\ \A k \in ListNames \ {m} : M[k] = del(L[k], x)
  BY <1>2, <1>3
<1>5. /\ Sound(M)
      /\ Range(M[n]) = Range(L[n]) \ {x} /\ Range(M[m]) = Range(L[m]) \cup {x}
      /\ \A k \in ListNames \ {n, m} : Range(M[k]) = Range(L[k])
      /\ \A k \in ListNames : \A a, b :
           before(L[k], a, b) /\ a # x /\ b # x => before(M[k], a, b)
  <2>1. Rearranged(L, M, n, m, x)
    BY <1>1, <1>4, Move
  <2> QED
    BY <2>1 DEF Rearranged
<1>6. \A a \in Range(L[m]) : before(M[m], a, x)
  <2>1. x \notin Range(L[m])
    BY <1>0, <1>1
  <2> QED
    BY <1>2, <1>3, <1>4, <2>1
<1>7. ASSUME NEW a, NEW b, Above(L, a, b) PROVE Above(M, a, b)
  <2>1. PICK i, j \in ListNames :
          /\ a \in Range(L[i]) /\ b \in Range(L[j])
          /\ rank[i] < rank[j] \/ (i = j /\ before(L[i], a, b))
    BY <1>7 DEF Above
  <2>2. CASE b = x
    <3>1. j = n
      BY <1>0, <1>1, <2>1, <2>2
    <3>2. ~ before(L[n], a, x)
      <4>1. a = x => ~ before(L[n], x, x)
        BY <1>0, Order
      <4>2. a \in Range(L[n]) /\ a # x => before(L[n], x, a)
        BY DEF is_first
      <4>3. a \in Range(L[n]) /\ a # x => ~ before(L[n], a, x)
        BY <1>0, <4>2, Order
      <4>4. before(L[n], a, x) => a \in Range(L[n])
        BY <1>0, Order
      <4> QED
        BY <4>1, <4>3, <4>4
    <3>3. rank[i] < rank[n] /\ i # n
      BY <2>1, <2>2, <3>1, <3>2, Ranks
    <3>4. rank[i] <= rank[m]
      <4>1. ~ (rank[m] < rank[i])
        BY <2>1, <3>3
      <4> QED
        BY <4>1, Ranks
    <3>5. CASE i = m
      <4>1. before(M[m], a, b) /\ a \in Range(M[m]) /\ b \in Range(M[m])
        BY <1>5, <1>6, <2>1, <2>2, <3>5
      <4> QED
        BY <4>1 DEF Above
    <3>6. CASE i # m
      <4>1. rank[i] < rank[m]
        <5>1. rank[i] \in Int /\ rank[m] \in Int /\ rank[i] # rank[m]
          BY <3>6, Ranks
        <5> QED
          BY <3>4, <5>1
      <4>2. a \in Range(M[i]) /\ b \in Range(M[m])
        BY <1>5, <2>1, <2>2, <3>3, <3>6
      <4> QED
        BY <4>1, <4>2 DEF Above
    <3> QED
      BY <3>5, <3>6
  <2>3. CASE b # x /\ a = x
    <3>1. i = n
      BY <1>0, <1>1, <2>1, <2>3
    <3>2. rank[n] <= rank[j]
      BY <2>1, <3>1, Ranks
    <3>3. rank[m] < rank[j] /\ j # m
      <4>1. rank[j] \in Int /\ rank[n] \in Int /\ rank[m] \in Int
        BY Ranks
      <4> QED
        BY <3>2, <4>1
    <3>4. a \in Range(M[m]) /\ b \in Range(M[j])
      BY <1>5, <2>1, <2>3, <3>3
    <3> QED
      BY <3>3, <3>4 DEF Above
  <2>4. CASE a # x /\ b # x
    <3>1. a \in Range(M[i]) /\ b \in Range(M[j])
      BY <1>5, <2>1, <2>4
    <3>2. i = j /\ before(L[i], a, b) => before(M[i], a, b)
      BY <1>5, <2>4
    <3> QED
      BY <2>1, <3>1, <3>2 DEF Above
  <2> QED
    BY <2>2, <2>3, <2>4
<1> QED
  BY <1>5, <1>7 DEF Moved

(* From L to M the device d has been taken off the lists.                  *)
Removed(L, M, d) ==
  /\ Sound(M)
  /\ \A k \in ListNames : Range(M[k]) = Range(L[k]) \ {d}
  /\ \A a, b : Above(L, a, b) /\ a # d /\ b # d => Above(M, a, b)
  /\ \A k \in ListNames : \A x : x # d =>
       /\ is_last(L[k], x) => is_last(M[k], x)
       /\ is_first(L[k], x) => is_first(M[k], x)

(* list_del_init of a device, whatever list it is on.                      *)
LEMMA TakeOff ==
  ASSUME NEW L, Sound(L), NEW d, NEW M, M = [k \in ListNames |-> del(L[k], d)]
  PROVE  Removed(L, M, d)
<1>0. /\ L \in [ListNames -> Seq(Devices)]
      /\ \A k \in ListNames : L[k] \in Seq(Devices) /\ distinct(L[k])
      /\ \A k, j \in ListNames : k # j => Range(L[k]) \cap Range(L[j]) = {}
  BY DEF Sound
<1>1. \A k \in ListNames :
        /\ del(L[k], d) \in Seq(Devices) /\ distinct(del(L[k], d))
        /\ Range(del(L[k], d)) = Range(L[k]) \ {d}
        /\ \A a, b : before(L[k], a, b) /\ a # d /\ b # d => before(del(L[k], d), a, b)
  BY <1>0, Del
<1>2. M \in [ListNames -> Seq(Devices)] /\ \A k \in ListNames : M[k] = del(L[k], d)
  BY <1>1
<1>3. \A k \in ListNames :
        /\ distinct(M[k]) /\ Range(M[k]) = Range(L[k]) \ {d}
        /\ \A a, b : before(L[k], a, b) /\ a # d /\ b # d => before(M[k], a, b)
  <2> TAKE k \in ListNames
  <2>1. M[k] = del(L[k], d)
    BY <1>2
  <2>2. /\ distinct(del(L[k], d)) /\ Range(del(L[k], d)) = Range(L[k]) \ {d}
        /\ \A a, b : before(L[k], a, b) /\ a # d /\ b # d => before(del(L[k], d), a, b)
    BY <1>1
  <2> QED
    BY <2>1, <2>2
<1>4. Sound(M)
  <2>1. \A k, j \in ListNames : k # j => Range(M[k]) \cap Range(M[j]) = {}
    BY <1>0, <1>3
  <2> QED
    BY <1>2, <1>3, <2>1 DEF Sound
<1>5. ASSUME NEW a, NEW b, Above(L, a, b), a # d, b # d PROVE Above(M, a, b)
  BY <1>3, <1>5 DEF Above
<1>6. ASSUME NEW k \in ListNames, NEW x, x # d, is_last(L[k], x) PROVE is_last(M[k], x)
  BY <1>3, <1>6 DEF is_last
<1>7. ASSUME NEW k \in ListNames, NEW x, x # d, is_first(L[k], x) PROVE is_first(M[k], x)
  BY <1>3, <1>7 DEF is_first
<1> QED
  BY <1>3, <1>4, <1>5, <1>6, <1>7 DEF Removed

(* From L to M the device d has been put at the end of dpm_list.           *)
Added(L, M, d) ==
  /\ Sound(M)
  /\ Range(M["dpm_list"]) = Range(L["dpm_list"]) \cup {d}
  /\ \A k \in ListNames \ {"dpm_list"} : M[k] = L[k]
  /\ \A a, b : Above(L, a, b) => Above(M, a, b)
  /\ \A k \in ListNames : \A a \in Range(L[k]) : Above(M, a, d)

(* list_add_tail of a new device.                                          *)
LEMMA Add ==
  ASSUME NEW L, Sound(L), NEW d \in Devices, \A k \in ListNames : d \notin Range(L[k]),
         NEW M, M = [L EXCEPT !["dpm_list"] = Append(@, d)]
  PROVE  Added(L, M, d)
<1>0. /\ L \in [ListNames -> Seq(Devices)] /\ "dpm_list" \in ListNames
      /\ \A k \in ListNames : L[k] \in Seq(Devices) /\ distinct(L[k])
      /\ \A k, j \in ListNames : k # j => Range(L[k]) \cap Range(L[j]) = {}
  BY DEF Sound, ListNames
<1> DEFINE l == L["dpm_list"]
<1>1. l \in Seq(Devices) /\ distinct(l) /\ d \notin Range(l)
  BY <1>0
<1>2. /\ M \in [ListNames -> Seq(Devices)] /\ M["dpm_list"] = Append(l, d)
      /\ \A k \in ListNames \ {"dpm_list"} : M[k] = L[k]
  BY <1>0, <1>1
<1> HIDE DEF l
<1>3. /\ distinct(Append(l, d)) /\ Range(Append(l, d)) = Range(l) \cup {d}
      /\ \A a, b : before(l, a, b) \/ (a \in Range(l) /\ b = d) => before(Append(l, d), a, b)
  BY <1>1, AddTail
<1>4. /\ distinct(M["dpm_list"]) /\ Range(M["dpm_list"]) = Range(L["dpm_list"]) \cup {d}
      /\ \A a, b : before(L["dpm_list"], a, b) => before(M["dpm_list"], a, b)
      /\ \A a \in Range(L["dpm_list"]) : before(M["dpm_list"], a, d)
  BY <1>2, <1>3 DEF l
<1>5. \A k \in ListNames : Range(L[k]) \subseteq Range(M[k])
  BY <1>2, <1>4
<1>6. Sound(M)
  <2>1. \A k \in ListNames : distinct(M[k])
    BY <1>0, <1>2, <1>4
  <2>2. \A k, j \in ListNames : k # j => Range(M[k]) \cap Range(M[j]) = {}
    BY <1>0, <1>2, <1>4
  <2> QED
    BY <1>2, <2>1, <2>2 DEF Sound
<1>7. ASSUME NEW a, NEW b, Above(L, a, b) PROVE Above(M, a, b)
  <2>1. \A k \in ListNames : before(L[k], a, b) => before(M[k], a, b)
    BY <1>2, <1>4
  <2> QED
    BY <1>5, <1>7, <2>1 DEF Above
<1>8. ASSUME NEW k \in ListNames, NEW a \in Range(L[k]) PROVE Above(M, a, d)
  <2>1. a \in Range(M[k]) /\ d \in Range(M["dpm_list"])
    BY <1>4, <1>5
  <2>2. rank[k] < rank["dpm_list"] \/ k = "dpm_list"
    BY Ranks DEF ListNames
  <2>3. k = "dpm_list" => before(M[k], a, d)
    BY <1>4
  <2> QED
    BY <1>0, <2>1, <2>2, <2>3 DEF Above
<1> QED
  BY <1>2, <1>4, <1>6, <1>7, <1>8 DEF Added

(* From L to M the local list of dpm_complete has been put before what is  *)
(* on dpm_list.                                                            *)
Spliced(L, M) ==
  /\ Sound(M)
  /\ Range(M["dpm_list"]) = Range(L["completed"]) \cup Range(L["dpm_list"])
  /\ Range(M["completed"]) = {}
  /\ \A k \in ListNames \ {"dpm_list", "completed"} : M[k] = L[k]
  /\ \A a, b : Above(L, a, b) => Above(M, a, b)

(* list_splice of that list.                                               *)
LEMMA Splice ==
  ASSUME NEW L, Sound(L), NEW M,
         M = [L EXCEPT !["dpm_list"] = L["completed"] \o @, !["completed"] = <<>>]
  PROVE  Spliced(L, M)
<1>0. /\ L \in [ListNames -> Seq(Devices)]
      /\ "dpm_list" \in ListNames /\ "completed" \in ListNames
      /\ \A k \in ListNames : L[k] \in Seq(Devices) /\ distinct(L[k])
      /\ \A k, j \in ListNames : k # j => Range(L[k]) \cap Range(L[j]) = {}
  BY DEF Sound, ListNames
<1> DEFINE l == L["completed"]
           m == L["dpm_list"]
<1>1. /\ l \in Seq(Devices) /\ distinct(l) /\ m \in Seq(Devices) /\ distinct(m)
      /\ Range(l) \cap Range(m) = {}
  BY <1>0
<1>2. l \o m \in Seq(Devices) /\ <<>> \in Seq(Devices)
  BY <1>1
<1>3. /\ M \in [ListNames -> Seq(Devices)] /\ M["dpm_list"] = l \o m /\ M["completed"] = <<>>
      /\ \A k \in ListNames \ {"dpm_list", "completed"} : M[k] = L[k]
  BY <1>0, <1>2
<1> HIDE DEF l, m
<1>4. /\ distinct(l \o m) /\ Range(l \o m) = Range(l) \cup Range(m)
      /\ \A a, b : before(l, a, b) \/ before(m, a, b) \/ (a \in Range(l) /\ b \in Range(m))
                   => before(l \o m, a, b)
  BY <1>1, Concat
<1>5. distinct(<<>>) /\ Range(<<>>) = {}
  BY DEF distinct, Range
<1>6. \A k \in ListNames : distinct(M[k])
  BY <1>0, <1>3, <1>4, <1>5
<1>7. \A k, j \in ListNames : k # j => Range(M[k]) \cap Range(M[j]) = {}
  <2>1. /\ Range(M["dpm_list"]) = Range(L["completed"]) \cup Range(L["dpm_list"])
        /\ Range(M["completed"]) = {}
    BY <1>3, <1>4, <1>5 DEF l, m
  <2> QED
    BY <1>0, <1>3, <2>1
<1>8. ASSUME NEW a, NEW b, Above(L, a, b) PROVE Above(M, a, b)
  <2>1. PICK i, j \in ListNames :
          /\ a \in Range(L[i]) /\ b \in Range(L[j])
          /\ rank[i] < rank[j] \/ (i = j /\ before(L[i], a, b))
    BY <1>8 DEF Above
  <2>2. CASE i \in {"completed", "dpm_list"}
    <3>1. \/ i = "completed" /\ j = "completed"
          \/ i = "completed" /\ j = "dpm_list"
          \/ i = "dpm_list" /\ j = "dpm_list"
      <4>1. rank[i] < rank[j] => j = "dpm_list" /\ i # j
        BY <2>2, Ranks DEF ListNames
      <4> QED
        BY <2>1, <2>2, <4>1
    <3>2. before(l \o m, a, b)
      <4>1. CASE i = "completed" /\ j = "completed"
        BY <1>4, <2>1, <4>1, Ranks DEF l
      <4>2. CASE i = "completed" /\ j = "dpm_list"
        BY <1>4, <2>1, <4>2 DEF l, m
      <4>3. CASE i = "dpm_list" /\ j = "dpm_list"
        BY <1>4, <2>1, <4>3, Ranks DEF m
      <4> QED
        BY <3>1, <4>1, <4>2, <4>3
    <3>3. a \in Range(l \o m) /\ b \in Range(l \o m)
      BY <1>4, <2>1, <3>1 DEF l, m
    <3> QED
      BY <1>0, <1>3, <3>2, <3>3 DEF Above
  <2>3. CASE i \notin {"completed", "dpm_list"} /\ j \notin {"completed", "dpm_list"}
    BY <1>3, <2>1, <2>3 DEF Above
  <2>4. CASE i \notin {"completed", "dpm_list"} /\ j \in {"completed", "dpm_list"}
    <3>1. a \in Range(M[i]) /\ b \in Range(M["dpm_list"])
      BY <1>3, <1>4, <2>1, <2>4 DEF l, m
    <3>2. rank[i] < rank["dpm_list"]
      BY <2>4, Ranks DEF ListNames
    <3> QED
      BY <1>0, <3>1, <3>2 DEF Above
  <2> QED
    BY <2>2, <2>3, <2>4
<1> QED
  BY <1>3, <1>4, <1>5, <1>6, <1>7, <1>8 DEF Spliced, Sound, l, m

(* The registered devices R are those on the lists, and a child comes      *)
(* after its parent.                                                       *)
Family(L, R) ==
  /\ R \subseteq Devices /\ root \in R
  /\ \A d \in Devices : d \in R <=> \E n \in ListNames : d \in Range(L[n])
  /\ \A c \in R \ {root} : parent[c] \in R /\ Above(L, parent[c], c)

Types ==
  /\ in_suspend \subseteq Devices /\ completion \subseteq Devices
  /\ async_error \in BOOLEAN /\ error \in BOOLEAN
  /\ phase \in Phases /\ cur \in Devices \cup {NoDevice}
  /\ op \in [Devices -> OpStates] /\ hw \in [Devices -> {"on", "suspended", "late"}]

(* The phases in which every device is on its way down or up.              *)
Down == {"suspend", "suspended", "noirq", "asleep", "resume_noirq"}

(* Which lists a phase leaves empty.                                       *)
PhaseLists ==
  /\ phase # "complete" => on("completed") = {}
  /\ phase \notin {"noirq", "asleep", "resume_noirq"} => on("noirq") = {}
  /\ phase \in {"idle", "prepare", "asleep", "resumed", "complete"} => on("suspended") = {}
  /\ phase \in {"idle", "noirq", "asleep", "resume_noirq"} => on("prepared") = {}
  /\ phase \in Down => on("dpm_list") = {}
  /\ phase = "suspended" /\ ~ error /\ ~ async_error => on("prepared") = {}

(* power.in_suspend, along the lists.                                      *)
InSuspend ==
  /\ phase \in Down => reg \subseteq in_suspend
  /\ phase = "prepare" => on("prepared") \subseteq in_suspend
  /\ \A d \in on("dpm_list") \cup on("completed") : d \notin in_suspend

(* The device the thread of the transition deals with.                     *)
Current ==
  /\ phase \notin {"suspend", "resume"} => cur = NoDevice
  /\ phase = "suspend" /\ cur \in reg => is_last(lists["prepared"], cur)
  /\ phase = "resume" /\ cur \in reg => is_first(lists["suspended"], cur)
  /\ phase = "resume" => cur \notin Async

(* Where the threads of the devices may be.                                *)
Threads ==
  /\ phase \notin {"suspend", "suspended", "resume", "resumed"}
       => \A d \in Devices : op[d] = "none"
  /\ phase \in {"suspend", "suspended"}
       => \A d \in Devices : op[d] \notin {"look", "wait_parent", "resuming"}
  /\ phase \in {"resume", "resumed"}
       => \A d \in Devices : op[d] \in {"none", "look", "wait_parent", "resuming"}
  /\ \A d \in Devices \ Async : op[d] # "none" => d = cur
  /\ \A d \in Devices : op[d] \in {"wait", "suspending", "failed", "failing"} => hw[d] = "on"
  /\ \A d \in reg : op[d] \in {"wait", "suspending", "done", "failed"} => d \notin completion

(* The devices that have not been reached yet, or that are back.           *)
Untouched ==
  /\ \A d \in on("dpm_list") \cup on("completed") : hw[d] = "on" /\ op[d] = "none"
  /\ phase \in {"prepare", "suspend", "suspended", "resume_start", "complete"}
       => \A d \in on("prepared") : d # cur => hw[d] = "on" /\ op[d] = "none"
  /\ phase = "prepare" => ~ error
  /\ phase = "suspend" /\ error
       => cur \in Devices \ Async /\ op[cur] = "none" /\ hw[cur] = "on"

(* The devices that have been reached on the way down: one that is not     *)
(* waiting or in its callback is off, or a failure is on record.           *)
Reached ==
  /\ phase \in {"suspend", "suspended"}
       => \A d \in Devices :
            (d \in on("suspended") \/ d = cur) /\ op[d] \in {"none", "done"} /\ hw[d] = "on"
            => async_error
  /\ \A d \in on("noirq") : hw[d] = "late"

quiet == ~ async_error /\ \A d \in Devices : op[d] # "failing"

(* A callback is called over children that are down.                       *)
Waited ==
  phase \in {"suspend", "suspended"} /\ quiet
    => \A c \in reg \ {root} : op[parent[c]] = "suspending" => hw[c] # "on"

(* On the way up every device that has been passed, and every one with a   *)
(* thread of its own, is on or about to be.                                *)
Passed ==
  phase \in {"resume", "resumed"}
    => \A d \in Devices :
         d \in on("prepared") \/ d \in on("suspended") \cap Async \/ d = cur
         => hw[d] = "on" \/ op[d] # "none"

Inv ==
  /\ Sound(lists) /\ Family(lists, reg) /\ Types
  /\ PhaseLists /\ InSuspend /\ Current /\ Threads
  /\ Untouched /\ Reached /\ Waited /\ ChildrenDownFirst /\ Passed

-----------------------------------------------------------------------------
(* The invariant is preserved.                                             *)

(* A rearrangement of the lists that keeps the order keeps the families.   *)
LEMMA SameFamily ==
  ASSUME NEW L, NEW M, NEW R, Family(L, R),
         \A d \in Devices : (\E k \in ListNames : d \in Range(M[k]))
                              <=> (\E k \in ListNames : d \in Range(L[k])),
         \A a, b : Above(L, a, b) => Above(M, a, b)
  PROVE  Family(M, R)
BY DEF Family

(* A move keeps the families.                                              *)
LEMMA MovedFamily ==
  ASSUME NEW L, NEW M, NEW R, Family(L, R), NEW n \in ListNames, NEW m \in ListNames, n # m,
         NEW x \in Range(L[n]), Moved(L, M, n, m, x)
  PROVE  Family(M, R)
BY SameFamily DEF Moved

(* The parts of the invariant that are about more than the lists.          *)
State ==
  /\ Types /\ PhaseLists /\ InSuspend /\ Current /\ Threads
  /\ Untouched /\ Reached /\ Waited /\ ChildrenDownFirst /\ Passed

(* A list is empty when nothing is on it.                                  *)
LEMMA Empty ==
  ASSUME Sound(lists)
  PROVE  \A n \in ListNames : (empty(n) <=> on(n) = {}) /\ on(n) \subseteq Devices
BY RangeOf DEF Sound, empty, on

(* What is registered is on the lists, with its parent.                    *)
LEMMA Registered ==
  ASSUME Sound(lists), Family(lists, reg)
  PROVE  /\ reg = on("prepared") \cup on("suspended") \cup on("noirq")
                  \cup on("completed") \cup on("dpm_list")
         /\ reg \subseteq Devices /\ root \in reg /\ NoDevice \notin Devices
         /\ \A c \in reg \ {root} : parent[c] \in reg
BY Empty, DevicesAssumption DEF Family, on, ListNames

(* The steps that only go on to the next phase.                            *)
LEMMA PhaseSteps ==
  ASSUME Inv,
         \/ dpm_prepare \/ device_prepare_fails \/ dpm_suspend \/ all_suspended
         \/ dpm_suspend_returns \/ platform_sleep \/ platform_wakeup
         \/ dpm_resume_noirq_returns \/ dpm_resume_returns \/ dpm_complete
  PROVE  Inv'
<1>1. lists' = lists /\ reg' = reg /\ op' = op /\ hw' = hw /\ in_suspend' = in_suspend
      /\ completion' = completion /\ cur' = cur
  BY DEF dpm_prepare, device_prepare_fails, dpm_suspend, all_suspended,
         dpm_suspend_returns, platform_sleep, platform_wakeup,
         dpm_resume_noirq_returns, dpm_resume_returns, dpm_complete
<1>2. Sound(lists)'
  BY <1>1 DEF Inv
<1>3. Family(lists, reg)'
  BY <1>1 DEF Inv
<1>4. \A n \in ListNames : on(n)' = on(n)
  BY <1>1 DEF on
<1> USE <1>1, <1>4, Empty DEF ListNames, Down, Phases, async_synchronize_full
<1>5. ASSUME dpm_prepare PROVE State'
  <2>0. phase = "idle" /\ phase' = "prepare" /\ error' = FALSE /\ async_error' = async_error
    BY <1>5 DEF dpm_prepare
  <2>1. Types' /\ Current' /\ Threads' /\ Reached'
    BY <2>0 DEF Inv, Types, Current, Threads, Reached
  <2>2. PhaseLists' /\ InSuspend'
    BY <2>0 DEF Inv, PhaseLists, InSuspend
  <2>3. Untouched'
    BY <2>0 DEF Inv, PhaseLists, Untouched
  <2>4. Waited' /\ ChildrenDownFirst' /\ Passed'
    BY <1>5 DEF Inv, Waited, ChildrenDownFirst, Passed, dpm_prepare
  <2> QED
    BY <2>1, <2>2, <2>3, <2>4 DEF State
<1>6. ASSUME device_prepare_fails PROVE State'
  <2>1. Types' /\ Current' /\ Threads' /\ Reached'
    BY <1>6 DEF Inv, Types, Current, Threads, Reached, device_prepare_fails
  <2>2. PhaseLists' /\ InSuspend' /\ Untouched'
    BY <1>6 DEF Inv, PhaseLists, InSuspend, Untouched, device_prepare_fails
  <2>3. Waited' /\ ChildrenDownFirst' /\ Passed'
    BY <1>6 DEF Inv, Waited, ChildrenDownFirst, Passed, device_prepare_fails
  <2> QED
    BY <2>1, <2>2, <2>3 DEF State
<1>7. ASSUME dpm_suspend PROVE State'
  <2>1. Types' /\ Threads' /\ Passed'
    BY <1>7 DEF Inv, Types, Threads, Passed, dpm_suspend
  <2>2. PhaseLists'
    BY <1>7 DEF Inv, PhaseLists, dpm_suspend
  <2>3. InSuspend'
    BY <1>7, Registered DEF Inv, PhaseLists, InSuspend, dpm_suspend
  <2>4. Current'
    BY <1>7, Registered DEF Inv, Current, dpm_suspend
  <2>5. Untouched'
    BY <1>7 DEF Inv, Untouched, dpm_suspend
  <2>6. Reached'
    BY <1>7, Registered DEF Inv, PhaseLists, Current, Reached, dpm_suspend
  <2>7. Waited'
    BY <1>7, Registered DEF Inv, Threads, Waited, dpm_suspend
  <2>8. ChildrenDownFirst'
    BY <1>7, Registered DEF Inv, PhaseLists, Current, Untouched, ChildrenDownFirst,
       dpm_suspend
  <2> QED
    BY <2>1, <2>2, <2>3, <2>4, <2>5, <2>6, <2>7, <2>8 DEF State
<1>8. ASSUME all_suspended PROVE State'
  <2>1. Types' /\ Threads' /\ Passed'
    BY <1>8 DEF Inv, Types, Threads, Passed, all_suspended
  <2>2. PhaseLists' /\ InSuspend' /\ Current'
    BY <1>8 DEF Inv, PhaseLists, InSuspend, Current, all_suspended
  <2>3. Untouched' /\ Reached'
    BY <1>8 DEF Inv, Untouched, Reached, all_suspended
  <2>4. Waited' /\ ChildrenDownFirst'
    BY <1>8 DEF Inv, Waited, ChildrenDownFirst, quiet, all_suspended
  <2> QED
    BY <2>1, <2>2, <2>3, <2>4 DEF State
<1>9. ASSUME dpm_suspend_returns PROVE State'
  <2>1. Types' /\ Threads' /\ Passed'
    BY <1>9 DEF Inv, Types, Threads, Passed, dpm_suspend_returns
  <2>2. PhaseLists' /\ InSuspend' /\ Current'
    BY <1>9 DEF Inv, PhaseLists, InSuspend, Current, dpm_suspend_returns
  <2>3. Untouched' /\ Reached'
    BY <1>9 DEF Inv, Current, Untouched, Reached, dpm_suspend_returns
  <2>4. Waited' /\ ChildrenDownFirst'
    BY <1>9 DEF Inv, Waited, ChildrenDownFirst, dpm_suspend_returns
  <2> QED
    BY <2>1, <2>2, <2>3, <2>4 DEF State
<1>10. ASSUME platform_sleep PROVE State'
  <2>1. Types' /\ Current' /\ Threads' /\ Untouched' /\ Reached'
    BY <1>10 DEF Inv, Types, Current, Threads, Untouched, Reached, platform_sleep
  <2>2. PhaseLists' /\ InSuspend'
    BY <1>10 DEF Inv, PhaseLists, InSuspend, platform_sleep
  <2>3. Waited' /\ ChildrenDownFirst' /\ Passed'
    BY <1>10 DEF Inv, Waited, ChildrenDownFirst, Passed, platform_sleep
  <2> QED
    BY <2>1, <2>2, <2>3 DEF State
<1>11. ASSUME platform_wakeup PROVE State'
  <2>1. Types' /\ Current' /\ Threads' /\ Untouched' /\ Reached'
    BY <1>11 DEF Inv, Types, Current, Threads, Untouched, Reached, platform_wakeup
  <2>2. PhaseLists' /\ InSuspend'
    BY <1>11 DEF Inv, PhaseLists, InSuspend, platform_wakeup
  <2>3. Waited' /\ ChildrenDownFirst' /\ Passed'
    BY <1>11 DEF Inv, Waited, ChildrenDownFirst, Passed, platform_wakeup
  <2> QED
    BY <2>1, <2>2, <2>3 DEF State
<1>12. ASSUME dpm_resume_noirq_returns PROVE State'
  <2>1. Types' /\ Current' /\ Threads' /\ Reached'
    BY <1>12 DEF Inv, Types, Current, Threads, Reached, dpm_resume_noirq_returns
  <2>2. PhaseLists' /\ InSuspend'
    BY <1>12 DEF Inv, PhaseLists, InSuspend, dpm_resume_noirq_returns
  <2>3. Untouched'
    BY <1>12 DEF Inv, PhaseLists, Untouched, dpm_resume_noirq_returns
  <2>4. Waited' /\ ChildrenDownFirst' /\ Passed'
    BY <1>12 DEF Inv, Waited, ChildrenDownFirst, Passed, dpm_resume_noirq_returns
  <2> QED
    BY <2>1, <2>2, <2>3, <2>4 DEF State
<1>13. ASSUME dpm_resume_returns PROVE State'
  <2>1. Types' /\ Current' /\ Threads' /\ Untouched' /\ Reached'
    BY <1>13 DEF Inv, Types, Current, Threads, Untouched, Reached, dpm_resume_returns
  <2>2. PhaseLists' /\ InSuspend'
    BY <1>13 DEF Inv, PhaseLists, InSuspend, dpm_resume_returns
  <2>3. Waited' /\ ChildrenDownFirst' /\ Passed'
    BY <1>13 DEF Inv, Waited, ChildrenDownFirst, Passed, dpm_resume_returns
  <2> QED
    BY <2>1, <2>2, <2>3 DEF State
<1>14. ASSUME dpm_complete PROVE State'
  <2>1. Types' /\ Current' /\ Threads' /\ Reached'
    BY <1>14 DEF Inv, Types, Current, Threads, Reached, dpm_complete
  <2>2. PhaseLists' /\ InSuspend'
    BY <1>14 DEF Inv, PhaseLists, InSuspend, dpm_complete
  <2>3. Untouched'
    BY <1>14 DEF Inv, Current, Untouched, Passed, dpm_complete
  <2>4. Waited' /\ ChildrenDownFirst' /\ Passed'
    BY <1>14 DEF Inv, Waited, ChildrenDownFirst, Passed, dpm_complete
  <2> QED
    BY <2>1, <2>2, <2>3, <2>4 DEF State
<1> QED
  BY <1>2, <1>3, <1>5, <1>6, <1>7, <1>8, <1>9, <1>10, <1>11, <1>12, <1>13, <1>14 DEF
     Inv, State

(* On the way down a child is on dpm_suspended_list, its own turn being    *)
(* over, when its parent's turn comes.                                     *)
LEMMA ChildBelow ==
  ASSUME Inv, phase \in {"suspend", "suspended"}, NEW c \in reg \ {root},
         parent[c] = cur \/ parent[c] \in on("suspended")
  PROVE  c \in on("suspended") /\ c # cur
<1> DEFINE p == parent[c]
<1>1. p \in reg /\ Above(lists, p, c) /\ Sound(lists)
  BY DEF Inv, Family
<1>2. /\ on("noirq") = {} /\ on("completed") = {} /\ on("dpm_list") = {}
      /\ lists["prepared"] \in Seq(Devices) /\ distinct(lists["prepared"])
      /\ on("prepared") \cap on("suspended") = {}
  BY DEF Inv, PhaseLists, Down, Sound, ListNames, on
<1>3. c \in on("prepared") \/ c \in on("suspended")
  BY <1>1, <1>2, Registered DEF Inv
<1>4. p # c
  BY <1>1, Registered, DevicesAssumption DEF Inv
<1>5. c \notin on("prepared")
  <2> SUFFICES ASSUME c \in on("prepared") PROVE FALSE
    OBVIOUS
  <2>1. CASE p = cur
    <3>1. phase = "suspend" /\ is_last(lists["prepared"], p)
      BY <1>1, <2>1, Registered DEF Inv, Current
    <3>2. p \in on("prepared") /\ before(lists["prepared"], c, p)
      BY <1>4, <3>1 DEF is_last, on
    <3>3. before(lists["prepared"], p, c)
      BY <1>1, <3>2, AboveLists, Ranks DEF on, ListNames
    <3> QED
      BY <1>2, <3>2, <3>3, Order
  <2>2. CASE p \in on("suspended")
    <3>1. rank["suspended"] < rank["prepared"]
      BY <1>1, <2>2, AboveLists DEF on, ListNames
    <3> QED
      BY <3>1, Ranks
  <2> QED
    BY <2>1, <2>2
<1>6. c # cur
  BY <1>2, <1>3, <1>5, Registered DEF Inv, Current, is_last, on
<1> QED
  BY <1>3, <1>5, <1>6

(* When dpm_wait_for_children lets a device through, its children are off  *)
(* or a failure is on record.                                              *)
LEMMA ChildrenOff ==
  ASSUME Inv, NEW d \in Devices, op[d] = "wait", dpm_wait_for_children(d), quiet,
         NEW c \in reg \ {root}, parent[c] = d
  PROVE  hw[c] # "on"
<1>1. phase \in {"suspend", "suspended"} /\ d \in reg
  BY Registered DEF Inv, Types, Phases, Threads
<1>2. d = cur \/ d \in on("suspended")
  BY <1>1, Registered DEF Inv, PhaseLists, Down, Untouched
<1>3. c \in on("suspended") /\ c # cur /\ c \in Devices
  BY <1>1, <1>2, ChildBelow, Registered DEF Inv
<1>4. op[c] = "none" \/ op[c] = "failing"
  <2>1. CASE c \in Async \/ d \in Async
    <3>1. c \in completion
      BY <2>1 DEF dpm_wait_for_children, children
    <3> QED
      BY <1>1, <1>3, <3>1 DEF Inv, Types, Threads, OpStates
  <2>2. CASE c \notin Async
    BY <1>3, <2>2 DEF Inv, Threads
  <2> QED
    BY <2>1, <2>2
<1> QED
  BY <1>1, <1>3, <1>4 DEF Inv, Reached, quiet

(* The steps of __device_suspend, in the thread of the transition or in    *)
(* one of its own.                                                         *)
LEMMA SuspendSteps ==
  ASSUME Inv, NEW d \in Devices,
         \/ __device_suspend(d) \/ suspend_callback(d)
         \/ suspend_complete(d) \/ suspend_set_error(d)
  PROVE  Inv'
<1>1. /\ lists' = lists /\ reg' = reg /\ in_suspend' = in_suspend
      /\ phase' = phase /\ cur' = cur
  BY DEF __device_suspend, suspend_callback, suspend_complete, suspend_set_error, mainVars
<1>2. Sound(lists)'
  BY <1>1 DEF Inv
<1>3. Family(lists, reg)'
  BY <1>1 DEF Inv
<1>4. \A n \in ListNames : on(n)' = on(n)
  BY <1>1 DEF on
<1>5. /\ phase \in {"suspend", "suspended"} /\ op \in [Devices -> OpStates]
      /\ hw \in [Devices -> {"on", "suspended", "late"}]
      /\ reg \subseteq Devices /\ \A n \in ListNames : on(n) \subseteq Devices
  BY Registered, Empty DEF __device_suspend, suspend_callback, suspend_complete, suspend_set_error,
     Inv, Types, Phases, Threads
<1> USE <1>1, <1>4, <1>5 DEF ListNames, Down, OpStates, step_op, mainVars
<1>6. ASSUME __device_suspend(d) PROVE State'
  <2>1. Types'
    BY <1>6 DEF Inv, Types, __device_suspend
  <2>2. PhaseLists' /\ InSuspend' /\ Current' /\ Passed'
    BY <1>6 DEF Inv, PhaseLists, InSuspend, Current, Passed, __device_suspend
  <2>3. Threads'
    BY <1>6 DEF Inv, Threads, __device_suspend
  <2>4. Untouched'
    BY <1>6 DEF Inv, Untouched, __device_suspend
  <2>5. Reached'
    BY <1>6 DEF Inv, Reached, __device_suspend
  <2>6. Waited'
    BY <1>6, ChildrenOff, Registered DEF Inv, Waited, quiet, __device_suspend
  <2>7. ChildrenDownFirst'
    BY <1>6 DEF Inv, ChildrenDownFirst, __device_suspend
  <2> QED
    BY <2>1, <2>2, <2>3, <2>4, <2>5, <2>6, <2>7 DEF State
<1>7. ASSUME suspend_callback(d) PROVE State'
  <2>1. Types'
    BY <1>7 DEF Inv, Types, suspend_callback
  <2>2. PhaseLists' /\ InSuspend' /\ Current' /\ Passed'
    BY <1>7 DEF Inv, PhaseLists, InSuspend, Current, Passed, suspend_callback
  <2>3. Threads'
    BY <1>7 DEF Inv, Threads, suspend_callback
  <2>4. Untouched'
    BY <1>7 DEF Inv, Untouched, suspend_callback
  <2>5. Reached'
    BY <1>7 DEF Inv, PhaseLists, Reached, suspend_callback
  <2>6. Waited'
    BY <1>7, Registered DEF Inv, Waited, quiet, suspend_callback
  <2>7. ChildrenDownFirst'
    BY <1>7, Registered DEF Inv, Waited, ChildrenDownFirst, quiet, suspend_callback
  <2> QED
    BY <2>1, <2>2, <2>3, <2>4, <2>5, <2>6, <2>7 DEF State
<1>8. ASSUME suspend_complete(d) PROVE State'
  <2>1. Types'
    BY <1>8 DEF Inv, Types, suspend_complete
  <2>2. PhaseLists' /\ InSuspend' /\ Current' /\ Passed'
    BY <1>8 DEF Inv, PhaseLists, InSuspend, Current, Passed, suspend_complete
  <2>3. Threads'
    BY <1>8 DEF Inv, Threads, suspend_complete
  <2>4. Untouched'
    BY <1>8 DEF Inv, Untouched, suspend_complete
  <2>5. Reached'
    BY <1>8 DEF Inv, Reached, suspend_complete
  <2>6. Waited'
    BY <1>8, Registered DEF Inv, Waited, quiet, suspend_complete
  <2>7. ChildrenDownFirst'
    BY <1>8 DEF Inv, ChildrenDownFirst, suspend_complete
  <2> QED
    BY <2>1, <2>2, <2>3, <2>4, <2>5, <2>6, <2>7 DEF State
<1>9. ASSUME suspend_set_error(d) PROVE State'
  <2>1. Types'
    BY <1>9 DEF Inv, Types, suspend_set_error
  <2>2. PhaseLists' /\ InSuspend' /\ Current' /\ Passed'
    BY <1>9 DEF Inv, PhaseLists, InSuspend, Current, Passed, suspend_set_error
  <2>3. Threads'
    BY <1>9 DEF Inv, Threads, suspend_set_error
  <2>4. Untouched'
    BY <1>9 DEF Inv, Types, Current, Threads, Untouched, suspend_set_error
  <2>5. Reached'
    BY <1>9 DEF Inv, Reached, suspend_set_error
  <2>6. Waited' /\ ChildrenDownFirst'
    BY <1>9 DEF Inv, Waited, ChildrenDownFirst, quiet, suspend_set_error
  <2> QED
    BY <2>1, <2>2, <2>3, <2>4, <2>5, <2>6 DEF State
<1> QED
  BY <1>2, <1>3, <1>6, <1>7, <1>8, <1>9 DEF Inv, State

(* The steps of device_resume, in the thread of the transition or in one   *)
(* of its own.                                                             *)
LEMMA ResumeSteps ==
  ASSUME Inv, NEW d \in Devices, device_resume(d) \/ dpm_wait(d) \/ resume_callback(d)
  PROVE  Inv'
<1>1. /\ lists' = lists /\ reg' = reg /\ async_error' = async_error
      /\ phase' = phase /\ cur' = cur /\ error' = error
  BY DEF device_resume, dpm_wait, resume_callback, mainVars
<1>2. Sound(lists)'
  BY <1>1 DEF Inv
<1>3. Family(lists, reg)'
  BY <1>1 DEF Inv
<1>4. \A n \in ListNames : on(n)' = on(n)
  BY <1>1 DEF on
<1>5. /\ phase \in {"resume", "resumed"} /\ op \in [Devices -> OpStates]
      /\ hw \in [Devices -> {"on", "suspended", "late"}]
      /\ reg \subseteq Devices /\ \A n \in ListNames : on(n) \subseteq Devices
  BY Registered, Empty DEF device_resume, dpm_wait, resume_callback, Inv, Types, Phases, Threads
<1> USE <1>1, <1>4, <1>5 DEF ListNames, Down, OpStates, step_op, mainVars
<1>6. ASSUME device_resume(d) PROVE State'
  <2>1. Types'
    BY <1>6 DEF Inv, Types, device_resume
  <2>2. PhaseLists' /\ InSuspend' /\ Current'
    BY <1>6 DEF Inv, PhaseLists, InSuspend, Current, device_resume
  <2>3. Threads'
    BY <1>6 DEF Inv, Threads, device_resume
  <2>4. Untouched' /\ Reached'
    BY <1>6 DEF Inv, Untouched, Reached, device_resume
  <2>5. Waited' /\ ChildrenDownFirst'
    BY <1>6 DEF Inv, Waited, ChildrenDownFirst, device_resume
  <2>6. Passed'
    BY <1>6 DEF Inv, Passed, device_resume
  <2> QED
    BY <2>1, <2>2, <2>3, <2>4, <2>5, <2>6 DEF State
<1>7. ASSUME dpm_wait(d) PROVE State'
  <2>1. Types'
    BY <1>7 DEF Inv, Types, dpm_wait
  <2>2. PhaseLists' /\ InSuspend' /\ Current'
    BY <1>7 DEF Inv, PhaseLists, InSuspend, Current, dpm_wait
  <2>3. Threads'
    BY <1>7 DEF Inv, Threads, dpm_wait
  <2>4. Untouched' /\ Reached'
    BY <1>7 DEF Inv, Untouched, Reached, dpm_wait
  <2>5. Waited' /\ ChildrenDownFirst'
    BY <1>7 DEF Inv, Waited, ChildrenDownFirst, dpm_wait
  <2>6. Passed'
    BY <1>7 DEF Inv, Passed, dpm_wait
  <2> QED
    BY <2>1, <2>2, <2>3, <2>4, <2>5, <2>6 DEF State
<1>8. ASSUME resume_callback(d) PROVE State'
  <2>1. Types'
    BY <1>8 DEF Inv, Types, resume_callback
  <2>2. PhaseLists' /\ InSuspend' /\ Current'
    BY <1>8 DEF Inv, PhaseLists, InSuspend, Current, resume_callback
  <2>3. Threads'
    BY <1>8 DEF Inv, Threads, resume_callback
  <2>4. Untouched' /\ Reached'
    BY <1>8 DEF Inv, PhaseLists, Untouched, Reached, resume_callback
  <2>5. Waited' /\ ChildrenDownFirst'
    BY <1>8 DEF Inv, Waited, ChildrenDownFirst, resume_callback
  <2>6. Passed'
    BY <1>8 DEF Inv, Passed, resume_callback
  <2> QED
    BY <2>1, <2>2, <2>3, <2>4, <2>5, <2>6 DEF State
<1> QED
  BY <1>2, <1>3, <1>6, <1>7, <1>8 DEF Inv, State

(* No device is on two lists.                                              *)
LEMMA Disjoint ==
  ASSUME Sound(lists)
  PROVE  \A n, m \in ListNames : n # m => on(n) \cap on(m) = {}
BY DEF Sound, on

(* From a state to the next, x goes from list n to list m, all else on the *)
(* lists as it was.                                                        *)
Moves(n, m, x) ==
  /\ Sound(lists)' /\ Family(lists, reg)'
  /\ x \in on(n) /\ x \in Devices
  /\ on(n)' = on(n) \ {x} /\ on(m)' = on(m) \cup {x}
  /\ \A k \in ListNames \ {n, m} : on(k)' = on(k)

(* A move of the lists is a move in this sense, whatever else the step     *)
(* does.                                                                   *)
LEMMA MovedLists ==
  ASSUME Inv, reg' = reg, NEW n \in ListNames, NEW m \in ListNames, n # m,
         NEW x \in on(n), Moved(lists, lists', n, m, x)
  PROVE  Moves(n, m, x)
<1>1. Family(lists', reg)
  BY MovedFamily DEF Inv, on
<1>2. x \in Devices
  BY Empty DEF Inv
<1> QED
  BY <1>1, <1>2 DEF Moved, on, Moves

(* list_move of the last device of a list, to the next that may hold one.  *)
LEMMA ListMove ==
  ASSUME Inv, reg' = reg, NEW n \in ListNames, NEW m \in ListNames, rank[n] < rank[m],
         \A k \in ListNames : rank[n] < rank[k] /\ rank[k] < rank[m] => on(k) = {},
         NEW x, is_last(lists[n], x), lists' = list_move(x, m)
  PROVE  Moves(n, m, x)
<1>1. lists' = [k \in ListNames |-> IF k = m THEN <<x>> \o del(lists[k], x)
                                             ELSE del(lists[k], x)]
  BY DEF list_move
<1>2. \A k \in ListNames : rank[n] < rank[k] /\ rank[k] < rank[m] => Range(lists[k]) = {}
  BY DEF on
<1>3. Moved(lists, lists', n, m, x)
  BY <1>1, <1>2, MoveDown DEF Inv
<1>4. x \in on(n) /\ n # m
  BY Ranks DEF is_last, on
<1> QED
  BY <1>3, <1>4, MovedLists

(* list_move_tail of the first device of a list, to the next before it     *)
(* that may hold one.                                                      *)
LEMMA ListMoveTail ==
  ASSUME Inv, reg' = reg, NEW n \in ListNames, NEW m \in ListNames, rank[m] < rank[n],
         \A k \in ListNames : rank[m] < rank[k] /\ rank[k] < rank[n] => on(k) = {},
         NEW x, is_first(lists[n], x), lists' = list_move_tail(x, m)
  PROVE  Moves(n, m, x)
<1>1. lists' = [k \in ListNames |-> IF k = m THEN Append(del(lists[k], x), x)
                                             ELSE del(lists[k], x)]
  BY DEF list_move_tail
<1>2. \A k \in ListNames : rank[m] < rank[k] /\ rank[k] < rank[n] => Range(lists[k]) = {}
  BY DEF on
<1>3. Moved(lists, lists', n, m, x)
  BY <1>1, <1>2, MoveUp DEF Inv
<1>4. x \in on(n) /\ n # m
  BY Ranks DEF is_first, on
<1> QED
  BY <1>3, <1>4, MovedLists

(* The devices that are taken from the ends of a list.                     *)
LEMMA TakenFrom ==
  ASSUME Sound(lists), NEW n \in ListNames, ~ empty(n)
  PROVE  /\ first(n) \in on(n) /\ last(n) \in on(n)
         /\ is_first(lists[n], first(n)) /\ is_last(lists[n], last(n))
BY Ends DEF Sound, empty, first, last, is_first, is_last, on

(* device_prepare takes a device over to dpm_prepared_list.                *)
LEMMA PrepareStep ==
  ASSUME Inv, device_prepare
  PROVE  Inv'
<1> DEFINE x == first("dpm_list")
<1>1. /\ ~ empty("dpm_list") /\ lists' = list_move_tail(x, "prepared") /\ reg' = reg
      /\ "dpm_list" \in ListNames /\ "prepared" \in ListNames
  BY DEF device_prepare, ListNames
<1>2. is_first(lists["dpm_list"], x)
  BY <1>1, TakenFrom DEF Inv
<1> HIDE DEF x
<1>3. Moves("dpm_list", "prepared", x)
  <2>1. \A k \in ListNames :
          rank["prepared"] < rank[k] /\ rank[k] < rank["dpm_list"] => on(k) = {}
    BY Ranks DEF Inv, PhaseLists, Down, ListNames, device_prepare
  <2>2. rank["prepared"] < rank["dpm_list"]
    BY Ranks
  <2> QED
    BY <1>1, <1>2, <2>1, <2>2, ListMoveTail
<1>4. State'
  <2> USE <1>1, <1>3 DEF Moves, ListNames, Down, mainVars
  <2>1. Types'
    BY DEF Inv, Types, device_prepare, x
  <2>2. PhaseLists' /\ InSuspend'
    BY DEF Inv, PhaseLists, InSuspend, device_prepare, x
  <2>3. Current'
    BY DEF Inv, Current, device_prepare, x
  <2>4. Threads'
    BY DEF Inv, Threads, device_prepare, x
  <2>5. Untouched'
    BY DEF Inv, Untouched, device_prepare, x
  <2>6. Reached'
    BY DEF Inv, Reached, device_prepare, x
  <2>7. Waited' /\ ChildrenDownFirst' /\ Passed'
    BY DEF Inv, Waited, ChildrenDownFirst, Passed, device_prepare, x
  <2> QED
    BY <2>1, <2>2, <2>3, <2>4, <2>5, <2>6, <2>7 DEF State
<1> QED
  BY <1>3, <1>4 DEF Inv, State, Moves

(* device_resume_noirq takes a device back to dpm_suspended_list.          *)
LEMMA ResumeNoirqStep ==
  ASSUME Inv, device_resume_noirq
  PROVE  Inv'
<1> DEFINE x == first("noirq")
<1>1. /\ ~ empty("noirq") /\ lists' = list_move_tail(x, "suspended") /\ reg' = reg
      /\ "noirq" \in ListNames /\ "suspended" \in ListNames
  BY DEF device_resume_noirq, ListNames
<1>2. is_first(lists["noirq"], x)
  BY <1>1, TakenFrom DEF Inv
<1> HIDE DEF x
<1>3. Moves("noirq", "suspended", x)
  <2>1. \A k \in ListNames :
          rank["suspended"] < rank[k] /\ rank[k] < rank["noirq"] => on(k) = {}
    BY Ranks DEF Inv, PhaseLists, Down, ListNames, device_resume_noirq
  <2>2. rank["suspended"] < rank["noirq"]
    BY Ranks
  <2> QED
    BY <1>1, <1>2, <2>1, <2>2, ListMoveTail
<1>4. State'
  <2> USE <1>1, <1>3 DEF Moves, ListNames, Down, mainVars
  <2>1. Types'
    BY DEF Inv, Types, device_resume_noirq, x
  <2>2. PhaseLists' /\ InSuspend'
    BY DEF Inv, PhaseLists, InSuspend, device_resume_noirq, x
  <2>3. Current'
    BY DEF Inv, Current, device_resume_noirq, x
  <2>4. Threads'
    BY Registered DEF Inv, Types, Threads, device_resume_noirq, x
  <2>5. Untouched'
    BY Empty, Disjoint DEF Inv, Types, PhaseLists, Untouched, device_resume_noirq, x
  <2>6. Reached'
    BY Empty DEF Inv, Types, Reached, device_resume_noirq, x
  <2>7. Waited' /\ ChildrenDownFirst' /\ Passed'
    BY DEF Inv, Waited, ChildrenDownFirst, Passed, device_resume_noirq, x
  <2> QED
    BY <2>1, <2>2, <2>3, <2>4, <2>5, <2>6, <2>7 DEF State
<1> QED
  BY <1>3, <1>4 DEF Inv, State, Moves

(* device_complete takes a device over to the local list of dpm_complete.  *)
LEMMA CompleteStep ==
  ASSUME Inv, device_complete
  PROVE  Inv'
<1> DEFINE x == last("prepared")
<1>1. /\ ~ empty("prepared") /\ lists' = list_move(x, "completed") /\ reg' = reg
      /\ "prepared" \in ListNames /\ "completed" \in ListNames
  BY DEF device_complete, ListNames
<1>2. is_last(lists["prepared"], x)
  BY <1>1, TakenFrom DEF Inv
<1> HIDE DEF x
<1>3. Moves("prepared", "completed", x)
  <2>1. \A k \in ListNames :
          rank["prepared"] < rank[k] /\ rank[k] < rank["completed"] => on(k) = {}
    BY Ranks DEF Inv, PhaseLists, Down, ListNames, device_complete
  <2>2. rank["prepared"] < rank["completed"]
    BY Ranks
  <2> QED
    BY <1>1, <1>2, <2>1, <2>2, ListMove
<1>4. State'
  <2> USE <1>1, <1>3 DEF Moves, ListNames, Down, mainVars
  <2>1. Types'
    BY DEF Inv, Types, device_complete, x
  <2>2. PhaseLists' /\ InSuspend'
    BY DEF Inv, PhaseLists, InSuspend, device_complete, x
  <2>3. Current'
    BY DEF Inv, Current, device_complete, x
  <2>4. Threads'
    BY DEF Inv, Threads, device_complete, x
  <2>5. Untouched'
    BY Registered DEF Inv, Current, Untouched, device_complete, x
  <2>6. Reached'
    BY DEF Inv, Reached, device_complete, x
  <2>7. Waited' /\ ChildrenDownFirst' /\ Passed'
    BY DEF Inv, Waited, ChildrenDownFirst, Passed, device_complete, x
  <2> QED
    BY <2>1, <2>2, <2>3, <2>4, <2>5, <2>6, <2>7 DEF State
<1> QED
  BY <1>3, <1>4 DEF Inv, State, Moves

(* device_suspend picks the last device of dpm_prepared_list.              *)
LEMMA SuspendStep ==
  ASSUME Inv, device_suspend
  PROVE  Inv'
<1>1. lists' = lists /\ reg' = reg
  BY DEF device_suspend
<1>2. Sound(lists)'
  BY <1>1 DEF Inv
<1>3. Family(lists, reg)'
  BY <1>1 DEF Inv
<1>4. \A n \in ListNames : on(n)' = on(n)
  BY <1>1 DEF on
<1>5. /\ phase = "suspend" /\ phase' = phase /\ cur = NoDevice /\ error' = error
      /\ async_error' = async_error /\ in_suspend' = in_suspend /\ hw' = hw
      /\ completion' = completion \ {cur'} /\ is_last(lists["prepared"], cur')
      /\ cur' \in on("prepared") /\ op' = [op EXCEPT ![cur'] = "wait"]
  BY TakenFrom DEF device_suspend, Inv, ListNames, step_op
<1>6. /\ cur' \in Devices /\ NoDevice \notin Devices /\ reg \subseteq Devices
      /\ \A n \in ListNames : on(n) \subseteq Devices
      /\ \A c \in reg \ {root} : parent[c] \in Devices
      /\ \A d \in Devices : op'[d] = IF d = cur' THEN "wait" ELSE op[d]
  BY <1>5, Empty, Registered DEF Inv, Types, ListNames
<1>7. ~ error /\ op[cur'] = "none" /\ hw[cur'] = "on"
  BY <1>5, <1>6 DEF Inv, Untouched
<1>8. State'
  <2> USE <1>1, <1>4, <1>5, <1>6, <1>7 DEF ListNames, Phases, Down, OpStates, mainVars
  <2>1. Types'
    BY DEF Inv, Types
  <2>2. PhaseLists' /\ InSuspend'
    BY DEF Inv, PhaseLists, InSuspend
  <2>3. Current'
    BY DEF Inv, Current
  <2>4. Threads'
    BY DEF Inv, Types, Threads, Untouched
  <2>5. Untouched'
    BY DEF Inv, PhaseLists, Untouched
  <2>6. Reached'
    BY DEF Inv, Reached
  <2>7. Waited'
    BY DEF Inv, Waited, quiet
  <2>8. ChildrenDownFirst' /\ Passed'
    BY DEF Inv, ChildrenDownFirst, Passed
  <2> QED
    BY <2>1, <2>2, <2>3, <2>4, <2>5, <2>6, <2>7, <2>8 DEF State
<1> QED
  BY <1>2, <1>3, <1>8 DEF Inv, State

(* dpm_resume resets the completions and starts the threads.               *)
LEMMA ResumeStep ==
  ASSUME Inv, dpm_resume
  PROVE  Inv'
<1>1. lists' = lists /\ reg' = reg
  BY DEF dpm_resume
<1>2. Sound(lists)'
  BY <1>1 DEF Inv
<1>3. Family(lists, reg)'
  BY <1>1 DEF Inv
<1>4. \A n \in ListNames : on(n)' = on(n)
  BY <1>1 DEF on
<1>5. /\ phase = "resume_start" /\ phase' = "resume" /\ cur' = cur /\ error' = error
      /\ async_error' = FALSE /\ in_suspend' = in_suspend /\ hw' = hw
      /\ completion' = completion \ on("suspended")
      /\ op' = [d \in Devices |-> IF d \in Async \cap on("suspended") THEN "look" ELSE op[d]]
  BY DEF dpm_resume, on
<1>6. /\ op \in [Devices -> OpStates] /\ cur = NoDevice
      /\ NoDevice \notin Devices /\ reg \subseteq Devices /\ Async \subseteq Devices
      /\ \A n \in ListNames : on(n) \subseteq Devices
      /\ on("dpm_list") \cap on("suspended") = {}
  BY <1>5, Empty, Disjoint, Registered, DevicesAssumption DEF Inv, Types, Current, ListNames
<1>7. \A d \in Devices :
        op'[d] = IF d \in Async /\ d \in on("suspended") THEN "look" ELSE op[d]
  BY <1>5
<1>8. State'
  <2> USE <1>1, <1>4, <1>5, <1>6, <1>7 DEF ListNames, Phases, Down, OpStates, mainVars
  <2>1. Types'
    BY DEF Inv, Types
  <2>2. PhaseLists' /\ InSuspend'
    BY DEF Inv, PhaseLists, InSuspend
  <2>3. Current'
    BY DEF Inv, Current
  <2>4. Threads'
    BY DEF Inv, Threads
  <2>5. Untouched'
    BY DEF Inv, PhaseLists, Untouched
  <2>6. Reached'
    BY DEF Inv, Reached
  <2>7. Waited' /\ ChildrenDownFirst'
    BY DEF Inv, Waited, ChildrenDownFirst
  <2>8. Passed'
    BY DEF Inv, Current, Untouched, Passed
  <2> QED
    BY <2>1, <2>2, <2>3, <2>4, <2>5, <2>6, <2>7, <2>8 DEF State
<1> QED
  BY <1>2, <1>3, <1>8 DEF Inv, State


(* device_suspend_returns: a device goes on to dpm_suspended_list, unless  *)
(* it is gone, or its own error ends the loop.                             *)
LEMMA SuspendReturns ==
  ASSUME Inv, device_suspend_returns
  PROVE  Inv'
<1>1. /\ phase = "suspend" /\ cur' = NoDevice /\ reg' = reg /\ error' = error
      /\ phase' = (IF error \/ async_error THEN "suspended" ELSE phase)
      /\ async_error' = async_error /\ in_suspend' = in_suspend /\ hw' = hw /\ op' = op
      /\ completion' = completion /\ cur # NoDevice
      /\ cur \in Async \/ op[cur] = "none"
  BY DEF device_suspend_returns
<1>2. /\ NoDevice \notin Devices /\ reg \subseteq Devices
      /\ \A n \in ListNames : on(n) \subseteq Devices /\ on(n) \subseteq reg
  BY Empty, Registered DEF Inv, ListNames
<1>3. phase' \in {"suspend", "suspended"} /\ cur \in Devices
  BY <1>1 DEF Inv, Types
<1>4. listed(cur) <=> cur \in reg
  BY <1>3 DEF Inv, Family, listed
<1>5. ASSUME ~ error, cur \in reg PROVE Moves("prepared", "suspended", cur)
  <2>1. is_last(lists["prepared"], cur) /\ lists' = list_move(cur, "suspended")
    BY <1>1, <1>4, <1>5 DEF Inv, Current, device_suspend_returns
  <2>2. "prepared" \in ListNames /\ "suspended" \in ListNames
        /\ rank["prepared"] < rank["suspended"]
        /\ \A k \in ListNames : ~ (rank["prepared"] < rank[k] /\ rank[k] < rank["suspended"])
    BY Ranks DEF ListNames
  <2> QED
    BY <1>1, <2>1, <2>2, ListMove
<1>6. ASSUME error \/ cur \notin reg PROVE lists' = lists
  BY <1>4, <1>6 DEF device_suspend_returns
<1>7. /\ Sound(lists)' /\ Family(lists, reg)'
      /\ on("noirq")' = on("noirq") /\ on("completed")' = on("completed")
      /\ on("dpm_list")' = on("dpm_list")
      /\ on("suspended")' \subseteq on("suspended") \cup {cur}
      /\ \A d \in on("prepared")' : d \in on("prepared") /\ (d = cur => error)
  <2>1. CASE ~ error /\ cur \in reg
    BY <1>5, <2>1 DEF Moves, ListNames
  <2>2. CASE error \/ cur \notin reg
    BY <1>1, <1>2, <1>6, <2>2 DEF Inv, on, ListNames
  <2> QED
    BY <2>1, <2>2
<1>8. State'
  <2> USE <1>1, <1>2, <1>3, <1>7 DEF ListNames, Phases, Down, OpStates
  <2>1. Types' /\ InSuspend' /\ Current'
    BY DEF Inv, Types, InSuspend, Current
  <2>2. PhaseLists'
    BY DEF Inv, PhaseLists
  <2>3. Threads'
    BY DEF Inv, Threads
  <2>4. Untouched'
    BY DEF Inv, Untouched
  <2>5. Reached'
    BY DEF Inv, Reached
  <2>6. Waited' /\ ChildrenDownFirst' /\ Passed'
    BY DEF Inv, Waited, ChildrenDownFirst, Passed, quiet
  <2> QED
    BY <2>1, <2>2, <2>3, <2>4, <2>5, <2>6 DEF State
<1> QED
  BY <1>7, <1>8 DEF Inv, State

(* device_suspend_noirq takes a device over to dpm_noirq_list, or fails.   *)
LEMMA SuspendNoirqStep ==
  ASSUME Inv, device_suspend_noirq
  PROVE  Inv'
<1> DEFINE x == last("suspended")
<1>1. /\ phase = "noirq" /\ ~ empty("suspended") /\ reg' = reg /\ in_suspend' = in_suspend
      /\ completion' = completion /\ async_error' = async_error /\ cur' = cur
      /\ error' = error /\ op' = op
  BY DEF device_suspend_noirq
<1>2. /\ hw \in [Devices -> {"on", "suspended", "late"}] /\ reg \subseteq Devices
      /\ \A n \in ListNames : on(n) \subseteq Devices
      /\ is_last(lists["suspended"], x)
  BY <1>1, Empty, Registered, TakenFrom DEF Inv, Types, ListNames
<1> HIDE DEF x
<1>3. CASE lists' = list_move(x, "noirq") /\ hw' = [hw EXCEPT ![x] = "late"] /\ phase' = phase
  <2>1. Moves("suspended", "noirq", x)
    <3>1. "noirq" \in ListNames /\ "suspended" \in ListNames
          /\ rank["suspended"] < rank["noirq"]
          /\ \A k \in ListNames : ~ (rank["suspended"] < rank[k] /\ rank[k] < rank["noirq"])
      BY Ranks DEF ListNames
    <3> QED
      BY <1>1, <1>2, <1>3, <3>1, ListMove
  <2> USE <1>1, <1>2, <1>3, <2>1 DEF Moves, ListNames, Phases, Down
  <2>2. Types'
    BY DEF Inv, Types
  <2>3. PhaseLists' /\ InSuspend' /\ Current'
    BY DEF Inv, PhaseLists, InSuspend, Current
  <2>4. Threads'
    BY DEF Inv, Threads
  <2>5. Untouched'
    BY DEF Inv, PhaseLists, Untouched
  <2>6. Reached'
    BY DEF Inv, Reached
  <2>7. Waited' /\ ChildrenDownFirst' /\ Passed'
    BY DEF Inv, Waited, ChildrenDownFirst, Passed
  <2> QED
    BY <2>2, <2>3, <2>4, <2>5, <2>6, <2>7 DEF Inv
<1>4. CASE phase' = "resume_noirq" /\ UNCHANGED <<lists, hw>>
  <2>1. Sound(lists)' /\ Family(lists, reg)' /\ \A n \in ListNames : on(n)' = on(n)
    BY <1>1, <1>4 DEF Inv, on
  <2> USE <1>1, <1>4, <2>1 DEF ListNames, Phases, Down
  <2>2. Types' /\ PhaseLists' /\ InSuspend' /\ Current'
    BY DEF Inv, Types, PhaseLists, InSuspend, Current
  <2>3. Threads' /\ Untouched' /\ Reached'
    BY DEF Inv, Threads, Untouched, Reached
  <2>4. Waited' /\ ChildrenDownFirst' /\ Passed'
    BY DEF Inv, Waited, ChildrenDownFirst, Passed
  <2> QED
    BY <2>1, <2>2, <2>3, <2>4 DEF Inv
<1> QED
  BY <1>3, <1>4 DEF device_suspend_noirq, x

(* dpm_resume_next moves an asynchronous device on, and resumes another    *)
(* itself.                                                                 *)
LEMMA ResumeNextStep ==
  ASSUME Inv, dpm_resume_next
  PROVE  Inv'
<1> DEFINE x == first("suspended")
<1>1. /\ phase = "resume" /\ phase' = phase /\ cur = NoDevice /\ ~ empty("suspended")
      /\ reg' = reg /\ in_suspend' = in_suspend /\ completion' = completion
      /\ async_error' = async_error /\ error' = error /\ hw' = hw
  BY DEF dpm_resume_next
<1>2. /\ op \in [Devices -> OpStates] /\ reg \subseteq Devices /\ NoDevice \notin Devices
      /\ \A n \in ListNames : on(n) \subseteq Devices
      /\ is_first(lists["suspended"], x) /\ x \in on("suspended") /\ x \in Devices
  BY <1>1, Empty, Registered, TakenFrom DEF Inv, Types, ListNames
<1>3. x \notin on("dpm_list") /\ on("completed") = {} /\ on("noirq") = {}
  BY <1>1, <1>2, Disjoint DEF Inv, PhaseLists, ListNames
<1> HIDE DEF x
<1>4. CASE x \in Async /\ lists' = list_move_tail(x, "prepared") /\ cur' = cur /\ op' = op
  <2>1. Moves("suspended", "prepared", x)
    <3>1. "prepared" \in ListNames /\ "suspended" \in ListNames
          /\ rank["prepared"] < rank["suspended"]
          /\ \A k \in ListNames : ~ (rank["prepared"] < rank[k] /\ rank[k] < rank["suspended"])
      BY Ranks DEF ListNames
    <3> QED
      BY <1>1, <1>2, <1>4, <3>1, ListMoveTail
  <2> USE <1>1, <1>2, <1>3, <1>4, <2>1 DEF Moves, ListNames, Phases, Down
  <2>2. Types' /\ PhaseLists' /\ InSuspend' /\ Current'
    BY DEF Inv, Types, PhaseLists, InSuspend, Current
  <2>3. Threads' /\ Untouched' /\ Reached'
    BY DEF Inv, Threads, Untouched, Reached
  <2>4. Waited' /\ ChildrenDownFirst'
    BY DEF Inv, Waited, ChildrenDownFirst
  <2>5. Passed'
    BY DEF Inv, Passed
  <2> QED
    BY <2>1, <2>2, <2>3, <2>4, <2>5 DEF Inv
<1>5. CASE x \notin Async /\ lists' = lists /\ cur' = x /\ op' = [op EXCEPT ![x] = "look"]
  <2>1. Sound(lists)' /\ Family(lists, reg)' /\ \A n \in ListNames : on(n)' = on(n)
    BY <1>1, <1>5 DEF Inv, on
  <2>2. \A d \in Devices : op'[d] = IF d = x THEN "look" ELSE op[d]
    BY <1>2, <1>5
  <2> USE <1>1, <1>2, <1>3, <1>5, <2>1, <2>2 DEF ListNames, Phases, Down, OpStates
  <2>3. Types' /\ PhaseLists' /\ InSuspend' /\ Current'
    BY DEF Inv, Types, PhaseLists, InSuspend, Current
  <2>4. Threads'
    BY DEF Inv, Threads
  <2>5. Untouched' /\ Reached'
    BY DEF Inv, Untouched, Reached
  <2>6. Waited' /\ ChildrenDownFirst' /\ Passed'
    BY DEF Inv, Waited, ChildrenDownFirst, Passed
  <2> QED
    BY <2>1, <2>3, <2>4, <2>5, <2>6 DEF Inv
<1> QED
  BY <1>4, <1>5 DEF dpm_resume_next, step_op, x

(* device_resume_returns: a device that is not gone goes back to           *)
(* dpm_prepared_list.                                                      *)
LEMMA ResumeReturns ==
  ASSUME Inv, device_resume_returns
  PROVE  Inv'
<1>1. /\ phase = "resume" /\ phase' = phase /\ cur # NoDevice /\ op[cur] = "none"
      /\ cur' = NoDevice /\ reg' = reg /\ in_suspend' = in_suspend
      /\ completion' = completion /\ async_error' = async_error /\ error' = error
      /\ hw' = hw /\ op' = op
  BY DEF device_resume_returns
<1>2. /\ NoDevice \notin Devices /\ reg \subseteq Devices /\ cur \in Devices
      /\ \A n \in ListNames : on(n) \subseteq Devices /\ on(n) \subseteq reg
  BY <1>1, Empty, Registered DEF Inv, Types, ListNames
<1>3. listed(cur) <=> cur \in reg
  BY <1>2 DEF Inv, Family, listed
<1>4. ASSUME cur \in reg PROVE Moves("suspended", "prepared", cur)
  <2>1. is_first(lists["suspended"], cur) /\ lists' = list_move_tail(cur, "prepared")
    BY <1>1, <1>3, <1>4 DEF Inv, Current, device_resume_returns
  <2>2. "prepared" \in ListNames /\ "suspended" \in ListNames
        /\ rank["prepared"] < rank["suspended"]
        /\ \A k \in ListNames : ~ (rank["prepared"] < rank[k] /\ rank[k] < rank["suspended"])
    BY Ranks DEF ListNames
  <2> QED
    BY <1>1, <2>1, <2>2, ListMoveTail
<1>5. ASSUME cur \notin reg PROVE lists' = lists
  BY <1>3, <1>5 DEF device_resume_returns
<1>6. /\ Sound(lists)' /\ Family(lists, reg)'
      /\ on("noirq")' = on("noirq") /\ on("completed")' = on("completed")
      /\ on("dpm_list")' = on("dpm_list")
      /\ on("prepared")' \subseteq on("prepared") \cup {cur}
      /\ on("suspended")' \subseteq on("suspended")
  <2>1. CASE cur \in reg
    BY <1>4, <2>1 DEF Moves, ListNames
  <2>2. CASE cur \notin reg
    BY <1>1, <1>2, <1>5, <2>2 DEF Inv, on, ListNames
  <2> QED
    BY <2>1, <2>2
<1>7. State'
  <2> USE <1>1, <1>2, <1>6 DEF ListNames, Phases, Down, OpStates
  <2>1. Types' /\ InSuspend'
    BY DEF Inv, Types, InSuspend
  <2>2. PhaseLists'
    BY DEF Inv, PhaseLists
  <2>3. Current'
    BY DevicesAssumption DEF Inv, Current
  <2>4. Threads'
    BY DEF Inv, Threads
  <2>5. Untouched' /\ Reached'
    BY DEF Inv, Untouched, Reached
  <2>6. Waited' /\ ChildrenDownFirst'
    BY DEF Inv, Waited, ChildrenDownFirst
  <2>7. Passed'
    BY DEF Inv, Passed
  <2> QED
    BY <2>1, <2>2, <2>3, <2>4, <2>5, <2>6, <2>7 DEF State
<1> QED
  BY <1>6, <1>7 DEF Inv, State

(* The end of dpm_complete.                                                *)
LEMMA CompleteReturns ==
  ASSUME Inv, dpm_complete_returns
  PROVE  Inv'
<1>1. /\ phase = "complete" /\ phase' = "idle" /\ empty("prepared") /\ reg' = reg
      /\ in_suspend' = in_suspend /\ completion' = completion /\ async_error' = async_error
      /\ cur' = cur /\ error' = error /\ op' = op /\ hw' = hw
  BY DEF dpm_complete_returns
<1>2. Spliced(lists, lists')
  BY Splice DEF Inv, dpm_complete_returns
<1>3. Sound(lists)' /\ Family(lists, reg)'
  <2>1. Family(lists', reg)
    <3>1. \A d \in Devices : (\E k \in ListNames : d \in Range(lists'[k]))
                               <=> (\E k \in ListNames : d \in Range(lists[k]))
      BY <1>2 DEF Spliced, ListNames
    <3> QED
      BY <1>2, <3>1, SameFamily DEF Inv, Spliced
  <2> QED
    BY <1>1, <1>2, <2>1 DEF Spliced
<1>4. /\ on("dpm_list")' = on("completed") \cup on("dpm_list") /\ on("completed")' = {}
      /\ on("prepared")' = on("prepared") /\ on("suspended")' = on("suspended")
      /\ on("noirq")' = on("noirq") /\ on("prepared") = {}
  BY <1>1, <1>2, Empty DEF Inv, Spliced, on, ListNames
<1>5. State'
  <2> USE <1>1, <1>4 DEF ListNames, Phases, Down, OpStates
  <2>1. Types' /\ InSuspend' /\ Current' /\ PhaseLists'
    BY DEF Inv, Types, PhaseLists, InSuspend, Current
  <2>2. Threads' /\ Untouched' /\ Reached'
    BY DEF Inv, Threads, Untouched, Reached
  <2>3. Waited' /\ ChildrenDownFirst' /\ Passed'
    BY DEF Inv, Waited, ChildrenDownFirst, Passed
  <2> QED
    BY <2>1, <2>2, <2>3 DEF State
<1> QED
  BY <1>3, <1>5 DEF Inv, State

(* A device is added, which a transition on its way down leaves no parent  *)
(* for.                                                                    *)
LEMMA AddStep ==
  ASSUME Inv, NEW d \in Devices, device_pm_add(d)
  PROVE  Inv'
<1>1. /\ d \notin reg /\ op[d] = "none" /\ cur # d /\ parent[d] \in reg \ in_suspend
      /\ reg' = reg \cup {d} /\ completion' = completion \cup {d}
      /\ hw' = [hw EXCEPT ![d] = "on"] /\ in_suspend' = in_suspend \ {d}
      /\ lists' = [lists EXCEPT !["dpm_list"] = Append(@, d)]
      /\ async_error' = async_error /\ phase' = phase /\ cur' = cur /\ error' = error
      /\ op' = op
  BY DEF device_pm_add, mainVars
<1>2. /\ reg \subseteq Devices /\ root \in reg /\ phase \notin Down
      /\ hw \in [Devices -> {"on", "suspended", "late"}]
      /\ \A n \in ListNames : on(n) \subseteq reg
  BY <1>1, Registered DEF Inv, InSuspend, Types, ListNames
<1>3. Added(lists, lists', d)
  BY <1>1, <1>2, Add DEF Inv, on
<1>4. /\ \A k \in ListNames \ {"dpm_list"} : lists'[k] = lists[k] /\ on(k)' = on(k)
      /\ on("dpm_list")' = on("dpm_list") \cup {d} /\ "dpm_list" \in ListNames
  BY <1>3 DEF Added, on, ListNames
<1>5. Family(lists', reg')
  <2>1. \A e \in Devices : e \in reg' <=> \E n \in ListNames : e \in Range(lists'[n])
    BY <1>1, <1>4 DEF Inv, Family, on
  <2>2. \A c \in reg \ {root} : parent[c] \in reg' /\ Above(lists', parent[c], c)
    BY <1>1, <1>3 DEF Inv, Family, Added
  <2>3. Above(lists', parent[d], d)
    BY <1>1, <1>2, <1>3 DEF Inv, Family, Added
  <2> QED
    BY <1>1, <1>2, <2>1, <2>2, <2>3 DEF Family
<1>6. Sound(lists)' /\ Family(lists, reg)'
  BY <1>3, <1>5 DEF Added
<1>7. State'
  <2> USE <1>1, <1>2, <1>4 DEF ListNames, Phases, Down, OpStates
  <2>1. Types'
    BY DEF Inv, Types
  <2>2. PhaseLists' /\ InSuspend'
    BY DEF Inv, PhaseLists, InSuspend
  <2>3. Current'
    BY DEF Inv, Current
  <2>4. Threads'
    BY DEF Inv, Threads
  <2>5. Untouched'
    BY DEF Inv, Untouched
  <2>6. Reached'
    BY DEF Inv, Reached
  <2>7. Waited' /\ ChildrenDownFirst'
    BY DEF Inv, Waited, ChildrenDownFirst
  <2>8. Passed'
    BY DEF Inv, Passed
  <2> QED
    BY <2>1, <2>2, <2>3, <2>4, <2>5, <2>6, <2>7, <2>8 DEF State
<1> QED
  BY <1>6, <1>7 DEF Inv, State

(* A device without children is removed, at whatever point its suspend or  *)
(* resume is.                                                              *)
LEMMA RemoveStep ==
  ASSUME Inv, NEW d \in Devices, device_pm_remove(d)
  PROVE  Inv'
<1>1. /\ d \in reg \ {root} /\ children(d) = {}
      /\ reg' = reg \ {d} /\ completion' = completion \cup {d}
      /\ lists' = [n \in ListNames |-> del(lists[n], d)]
      /\ in_suspend' = in_suspend /\ async_error' = async_error /\ phase' = phase
      /\ cur' = cur /\ error' = error /\ op' = op /\ hw' = hw
  BY DEF device_pm_remove, mainVars
<1>2. Removed(lists, lists', d)
  BY <1>1, TakeOff DEF Inv
<1>3. \A n \in ListNames : on(n)' = on(n) \ {d}
  BY <1>2 DEF Removed, on
<1>4. reg \subseteq Devices /\ root \in reg /\ \A c \in reg \ {root} : parent[c] \in Devices
  BY Registered DEF Inv
<1>5. Family(lists', reg')
  <2>1. \A e \in Devices : e \in reg' <=> \E n \in ListNames : e \in Range(lists'[n])
    BY <1>1, <1>3 DEF Inv, Family, on
  <2>2. \A c \in reg' \ {root} : parent[c] \in reg' /\ Above(lists', parent[c], c)
    BY <1>1, <1>2 DEF Inv, Family, Removed, children
  <2> QED
    BY <1>1, <1>4, <2>1, <2>2 DEF Family
<1>6. Sound(lists)' /\ Family(lists, reg)'
  BY <1>2, <1>5 DEF Removed
<1>7. State'
  <2> USE <1>1, <1>3, <1>4 DEF ListNames, Phases, Down, OpStates
  <2>1. Types'
    BY DEF Inv, Types
  <2>2. PhaseLists' /\ InSuspend'
    BY DEF Inv, PhaseLists, InSuspend
  <2>3. Current'
    BY <1>2 DEF Inv, Current, Removed
  <2>4. Threads'
    BY DEF Inv, Threads
  <2>5. Untouched' /\ Reached'
    BY DEF Inv, Untouched, Reached
  <2>6. Waited' /\ ChildrenDownFirst'
    BY DEF Inv, Waited, ChildrenDownFirst, quiet
  <2>7. Passed'
    BY DEF Inv, Passed
  <2> QED
    BY <2>1, <2>2, <2>3, <2>4, <2>5, <2>6, <2>7 DEF State
<1> QED
  BY <1>6, <1>7 DEF Inv, State

-----------------------------------------------------------------------------
(* At first the one device is on, on dpm_list.                             *)
LEMMA InitInv ==
  ASSUME Init
  PROVE  Inv
<1>1. /\ "dpm_list" \in ListNames /\ root \in Devices /\ NoDevice \notin Devices
      /\ lists = [n \in ListNames |-> IF n = "dpm_list" THEN <<root>> ELSE <<>>]
      /\ <<>> \in Seq(Devices) /\ distinct(<<>>) /\ Range(<<>>) = {}
  BY DevicesAssumption DEF Init, ListNames, distinct, Range
<1>2. <<root>> \in Seq(Devices) /\ distinct(<<root>>) /\ Range(<<root>>) = {root}
  BY <1>1, One
<1>3. /\ \A n \in ListNames : lists[n] \in Seq(Devices) /\ distinct(lists[n])
      /\ \A n \in ListNames : Range(lists[n]) = IF n = "dpm_list" THEN {root} ELSE {}
  BY <1>1, <1>2
<1>4. Sound(lists)
  BY <1>1, <1>3 DEF Sound
<1>5. Family(lists, reg)
  BY <1>1, <1>3 DEF Family, Init
<1>6. \A n \in ListNames : on(n) = IF n = "dpm_list" THEN {root} ELSE {}
  BY <1>3 DEF on
<1> USE <1>1, <1>6 DEF Init, ListNames, Phases, OpStates, Down
<1>7. Types /\ PhaseLists /\ InSuspend
  BY DEF Types, PhaseLists, InSuspend
<1>8. Current /\ Threads /\ Untouched
  BY DEF Current, Threads, Untouched
<1>9. Reached /\ Waited /\ ChildrenDownFirst /\ Passed
  BY DEF Reached, Waited, ChildrenDownFirst, Passed
<1> QED
  BY <1>4, <1>5, <1>7, <1>8, <1>9 DEF Inv

(* Every step keeps the invariant.                                         *)
LEMMA NextInv ==
  ASSUME Inv, [Next]_vars
  PROVE  Inv'
<1>1. CASE dpm_prepare \/ platform_wakeup
  BY <1>1, PhaseSteps
<1>2. CASE mainStep
  BY <1>2, PhaseSteps, PrepareStep, SuspendStep, SuspendReturns, SuspendNoirqStep,
     ResumeNoirqStep, ResumeStep, ResumeNextStep, ResumeReturns, CompleteStep,
     CompleteReturns DEF mainStep
<1>3. ASSUME NEW d \in Devices, device_pm_add(d) \/ device_pm_remove(d) \/ opStep(d)
      PROVE  Inv'
  BY <1>3, AddStep, RemoveStep, SuspendSteps, ResumeSteps DEF opStep
<1>4. CASE UNCHANGED vars
  <2>1. /\ lists' = lists /\ in_suspend' = in_suspend /\ completion' = completion
        /\ async_error' = async_error /\ phase' = phase /\ cur' = cur /\ error' = error
        /\ op' = op /\ hw' = hw /\ reg' = reg
    BY <1>4 DEF vars, mainVars
  <2>2. \A n : on(n)' = on(n)
    BY <2>1 DEF on
  <2>3. Types' /\ PhaseLists' /\ InSuspend' /\ Current' /\ Threads'
    BY <2>1, <2>2 DEF Inv, Types, PhaseLists, InSuspend, Current, Threads
  <2>4. Untouched' /\ Reached' /\ Waited' /\ ChildrenDownFirst' /\ Passed'
    BY <2>1, <2>2 DEF Inv, Untouched, Reached, Waited, quiet, ChildrenDownFirst, Passed
  <2>5. Sound(lists)' /\ Family(lists, reg)'
    BY <2>1 DEF Inv
  <2> QED
    BY <2>3, <2>4, <2>5 DEF Inv
<1> QED
  BY <1>1, <1>2, <1>3, <1>4 DEF Next

(* The invariant holds in every behaviour of the device core.              *)
THEOREM InvariantHolds == Spec => []Inv
<1>1. Init => Inv
  BY InitInv
<1>2. Inv /\ [Next]_vars => Inv'
  BY NextInv
<1> QED
  BY <1>1, <1>2, PTL DEF Spec

(* Read one after the other, the lists hold each registered device once,   *)
(* and on dpm_list parents come first.                                     *)
LEMMA InvLists ==
  ASSUME Inv
  PROVE  ListsSound
<1>1. /\ \A n \in ListNames : lists[n] \in Seq(Devices) /\ distinct(lists[n])
      /\ lists \in [ListNames -> Seq(Devices)]
      /\ \A n, m \in ListNames : n # m => Range(lists[n]) \cap Range(lists[m]) = {}
  BY DEF Inv, Sound
<1>2. TypeOK
  BY <1>1, Registered DEF Inv, Types, TypeOK, ListNames, on
<1> DEFINE p == lists["prepared"]
           s == lists["suspended"]
           q == lists["noirq"]
           c == lists["completed"]
           l == lists["dpm_list"]
<1>3. /\ p \in Seq(Devices) /\ distinct(p) /\ s \in Seq(Devices) /\ distinct(s)
      /\ q \in Seq(Devices) /\ distinct(q) /\ c \in Seq(Devices) /\ distinct(c)
      /\ l \in Seq(Devices) /\ distinct(l)
  BY <1>1 DEF ListNames
<1>4. /\ Range(p) \cap Range(s) = {} /\ Range(p) \cap Range(q) = {}
      /\ Range(p) \cap Range(c) = {} /\ Range(p) \cap Range(l) = {}
      /\ Range(s) \cap Range(q) = {} /\ Range(s) \cap Range(c) = {}
      /\ Range(s) \cap Range(l) = {} /\ Range(q) \cap Range(c) = {}
      /\ Range(q) \cap Range(l) = {} /\ Range(c) \cap Range(l) = {}
  BY <1>1 DEF ListNames
<1>5. reg = Range(p) \cup Range(s) \cup Range(q) \cup Range(c) \cup Range(l)
  BY Registered DEF Inv, on
<1>6. phase = "idle" => \A d \in reg : parent[d] \in reg => before(l, parent[d], d)
  <2> SUFFICES ASSUME phase = "idle", NEW d \in reg, parent[d] \in reg
               PROVE  before(l, parent[d], d)
    OBVIOUS
  <2>1. d # root
    BY Registered, DevicesAssumption DEF Inv
  <2>2. d \in Range(l) /\ parent[d] \in Range(l)
    BY <1>5 DEF Inv, PhaseLists, on
  <2>3. Above(lists, parent[d], d) /\ Sound(lists) /\ "dpm_list" \in ListNames
    BY <2>1 DEF Inv, Family, ListNames
  <2>4. rank["dpm_list"] < rank["dpm_list"] \/ before(l, parent[d], d)
    BY <2>2, <2>3, AboveLists
  <2> QED
    BY <2>4, Ranks
<1> HIDE DEF p, s, q, c, l
<1>7. /\ p \o s \in Seq(Devices) /\ distinct(p \o s) /\ Range(p \o s) = Range(p) \cup Range(s)
  BY <1>3, <1>4, Concat
<1>8. /\ c \o l \in Seq(Devices) /\ distinct(c \o l) /\ Range(c \o l) = Range(c) \cup Range(l)
  BY <1>3, <1>4, Concat
<1>9. /\ p \o s \o q \in Seq(Devices) /\ distinct(p \o s \o q)
      /\ Range(p \o s \o q) = Range(p) \cup Range(s) \cup Range(q)
  <2> DEFINE a == p \o s
  <2>1. /\ a \in Seq(Devices) /\ distinct(a) /\ Range(a) \cap Range(q) = {}
        /\ Range(a) = Range(p) \cup Range(s)
    BY <1>4, <1>7
  <2> HIDE DEF a
  <2>2. /\ a \o q \in Seq(Devices) /\ distinct(a \o q)
        /\ Range(a \o q) = Range(p) \cup Range(s) \cup Range(q)
    BY <1>3, <2>1, Concat
  <2> QED
    BY <2>2 DEF a
<1>10. /\ distinct((p \o s \o q) \o (c \o l))
       /\ Range((p \o s \o q) \o (c \o l)) = reg
  <2> DEFINE a == p \o s \o q
             b == c \o l
  <2>1. Range(a) \cap Range(b) = {}
    BY <1>4, <1>8, <1>9
  <2>2. a \in Seq(Devices) /\ distinct(a) /\ b \in Seq(Devices) /\ distinct(b)
    BY <1>8, <1>9
  <2>3. Range(a) \cup Range(b) = reg
    BY <1>5, <1>8, <1>9
  <2> HIDE DEF a, b
  <2>4. distinct(a \o b) /\ Range(a \o b) = reg
    BY <2>1, <2>2, <2>3, Concat
  <2> QED
    BY <2>4 DEF a, b
<1>11. ListOrder
  BY <1>6, <1>10 DEF ListOrder, distinct, p, s, q, c, l
<1> QED
  BY <1>2, <1>11 DEF ListsSound

(* The lists of the device core stay sound, for every tree of devices,     *)
(* whatever fails and whichever come and go (ListsSound).                  *)
THEOREM ListsStaySound == Spec => []ListsSound
<1>1. Inv => ListsSound
  BY InvLists
<1> QED
  BY <1>1, InvariantHolds, PTL

(* The platform sleeps with every device off, and every device is on again *)
(* when the transition is over, whatever failed (HardwareFollows).         *)
THEOREM HardwareFollowsTransition == Spec => []HardwareFollows
<1>1. ASSUME Inv PROVE AsleepAllOff
  BY <1>1, Registered DEF Inv, PhaseLists, Reached, Down, AsleepAllOff
<1>2. ASSUME Inv PROVE AllBackOn
  BY <1>2, Registered DEF Inv, PhaseLists, InSuspend, Untouched, AllBackOn
<1>3. Inv => HardwareFollows
  BY <1>1, <1>2 DEF HardwareFollows
<1> QED
  BY <1>3, InvariantHolds, PTL

(* When the thread of the transition resumes a device, its parent is on,   *)
(* unless that one has a thread of its own.                                *)
LEMMA InvParents ==
  ASSUME Inv
  PROVE  ParentsUpFirst
<1> SUFFICES ASSUME NEW d \in reg \ {root}, d \notin Async, parent[d] \notin Async,
                    op[d] = "resuming"
             PROVE  hw[parent[d]] = "on"
  BY DEF ParentsUpFirst
<1> DEFINE p == parent[d]
<1>1. d \in Devices /\ p \in reg /\ p \in Devices /\ Above(lists, p, d) /\ Sound(lists)
  BY Registered DEF Inv, Family
<1>2. phase = "resume" /\ d = cur
  BY <1>1, Registered DEF Inv, Types, Phases, Current, Threads
<1>3. is_first(lists["suspended"], d)
  BY <1>2 DEF Inv, Current
<1>4. p # d
  BY <1>1, DevicesAssumption
<1>5. p \notin on("suspended")
  <2> SUFFICES ASSUME p \in on("suspended") PROVE FALSE
    OBVIOUS
  <2>1. before(lists["suspended"], d, p) /\ d \in Range(lists["suspended"])
    BY <1>3, <1>4 DEF is_first, on
  <2>2. "suspended" \in ListNames /\ lists["suspended"] \in Seq(Devices)
        /\ distinct(lists["suspended"])
    BY <1>1 DEF Sound, ListNames
  <2>3. rank["suspended"] < rank["suspended"] \/ before(lists["suspended"], p, d)
    BY <1>1, <2>1, <2>2, AboveLists DEF on
  <2> QED
    BY <2>1, <2>2, <2>3, Order, Ranks
<1>6. p \in on("prepared") \/ p \in on("dpm_list")
  BY <1>1, <1>2, <1>5, Registered DEF Inv, PhaseLists
<1>7. op[p] = "none"
  BY <1>1, <1>2, <1>4 DEF Inv, Threads
<1> QED
  BY <1>1, <1>2, <1>6, <1>7 DEF Inv, Untouched, Passed

(* No parent goes down over a child that is on, nor does a child come up   *)
(* before its parent, beyond what ChildrenDownFirst and ParentsUpFirst     *)
(* allow for (FamilyOrder).                                                *)
THEOREM FamilyOrderKept == Spec => []FamilyOrder
<1>1. ASSUME Inv PROVE ChildrenDownFirst
  BY <1>1 DEF Inv
<1>2. Inv => FamilyOrder
  BY <1>1, InvParents DEF FamilyOrder
<1> QED
  BY <1>2, InvariantHolds, PTL
=============================================================================
