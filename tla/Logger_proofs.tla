---------------------------- MODULE Logger_proofs ----------------------------
(***************************************************************************)
(* logger.c for any size of the log, any entries and any readers and       *)
(* writers, until one of the two accidents of the module Logger happens.   *)
(*                                                                         *)
(* Offsets are compared by their distance from the start of the entry that *)
(* is being written, or will be written next: going forward from there one *)
(* meets the oldest entries first and the newest last.                     *)
(***************************************************************************)
EXTENDS Logger, SequenceTheorems, FiniteSetTheorems, WellFoundedInduction, TLAPS

(* The bytes of the entry under way that are in the ring, and where the    *)
(* entry starts.                                                           *)
begun ==
  IF mutex # NONE /\ wr[mutex].pc = "payload"
    THEN Header + wr[mutex].len - wr[mutex].left ELSE 0
start == logger_offset(w_off - begun)

(* How far off is from s, the full circle for s itself.                    *)
behind(s, off) == Size - dist(off, s)

length_at(buf, off) == Header + buf[off] + Base * buf[logger_offset(off + 1)]

Entries == [off : Offsets, len : 2..MaxLen]

(* The entries W of the ring lie from m bytes after s on, one beside the   *)
(* other, and have the lengths that they were written with.                *)
Ring(buf, W, s, m) ==
  /\ W \subseteq Entries
  /\ \A e \in W : /\ m <= dist(s, e.off) /\ dist(s, e.off) + e.len <= Size
                  /\ length_at(buf, e.off) = e.len
  /\ \A e, f \in W : dist(s, e.off) < dist(s, f.off) =>
                       dist(s, e.off) + e.len <= dist(s, f.off)

(* They are all there is from q on.                                        *)
Cover(W, s, q) ==
  \A d \in q..(Size - 1) :
    \E e \in W : q <= dist(s, e.off) /\ dist(s, e.off) <= d /\ d < dist(s, e.off) + e.len

(* fix_up_readers has been at this place of the list of readers.           *)
fixed(i) ==
  \/ wr[mutex].pc \in {"header", "payload"}
  \/ \E j \in (i + 1)..Len(readers) : readers[j] = wr[mutex].at

(* The write under way will not reach off.                                 *)
Passed(off) == Header + wr[mutex].len < behind(start, off)

LogInv ==
  /\ Ring(buffer, whole, start, begun)
  /\ begun > 0 => length_at(buffer, start) = Header + wr[mutex].len
  /\ Cover(whole, start, behind(start, head))
  /\ \A e \in whole : behind(start, head) <= dist(start, e.off)
                      \/ dist(start, e.off) < 2 * MaxLen
  /\ \A r \in Range(readers) : Cover(whole, start, behind(start, r_off[r]))
  /\ mutex # NONE => /\ Passed(head)
                     /\ \A i \in 1..Len(readers) : fixed(i) => Passed(r_off[readers[i]])

WriteRecords ==
  [pc : {"idle", "lock", "fix", "header", "payload", "wake_up"}, orig : Offsets,
   len : Nat, left : Nat, at : Readers \cup {NONE}]

WriterInv ==
  /\ mutex \in Writers \cup {NONE}
  /\ wr \in [Writers -> WriteRecords]
  /\ \A w \in Writers :
       /\ wr[w].pc \in {"fix", "header", "payload"} <=> mutex = w
       /\ wr[w].pc \notin {"idle", "wake_up"} => wr[w].len \in Payloads
       /\ wr[w].pc \in {"lock", "fix", "header"} => wr[w].left = wr[w].len
       /\ wr[w].pc = "payload" => wr[w].left \in 1..wr[w].len
       /\ wr[w].pc = "fix" <=> wr[w].at # NONE
       /\ wr[w].at # NONE => wr[w].at \in Range(readers)

ReaderInv ==
  /\ readers \in Seq(Readers)
  /\ \A i, j \in 1..Len(readers) : readers[i] = readers[j] => i = j
  /\ rd \in [Readers -> {"closed", "idle", "start", "prepared", "empty", "found", "asleep"}]
  /\ sleeping \subseteq Readers
  /\ \A r \in Readers : rd[r] # "closed" <=> r \in Range(readers)
  /\ \A r \in Readers : rd[r] = "asleep" => r \in sleeping

OffsetInv ==
  /\ buffer \in [Offsets -> 0..(Base - 1)] /\ w_off \in Offsets /\ head \in Offsets
  /\ r_off \in [Readers -> Offsets]

IInv == OffsetInv /\ ReaderInv /\ WriterInv /\ LogInv

-----------------------------------------------------------------------------
(* The constants.                                                          *)

(* The least element of a nonempty set of naturals.                        *)
LEMMA LeastElement ==
  ASSUME NEW S \in SUBSET Nat, S # {}
  PROVE  \E m \in S : \A k \in S : m <= k
<1>1. PICK m \in S : \A k \in S : ~ (<<k, m>> \in OpToRel(<, Nat))
  BY NatLessThanWellFounded, WFMin
<1>2. \A k \in S : m <= k
  <2> SUFFICES ASSUME NEW k \in S, k < m PROVE FALSE
    OBVIOUS
  <2>1. OpToRel(<, Nat) = {ss \in Nat \X Nat : ss[1] < ss[2]}
    BY DEF OpToRel
  <2>2. <<k, m>> \in Nat \X Nat /\ <<k, m>>[1] < <<k, m>>[2]
    OBVIOUS
  <2>3. <<k, m>> \in OpToRel(<, Nat)
    BY <2>1, <2>2
  <2> QED
    BY <1>1, <2>3
<1> QED
  BY <1>1, <1>2

(* The greatest element of a bounded one.                                  *)
LEMMA MaxIsGreatest ==
  ASSUME NEW b \in Nat, NEW S \in SUBSET (0 .. b), S # {}
  PROVE  Max(S) \in S /\ \A k \in S : k <= Max(S)
<1> DEFINE U == {k \in Nat : b - k \in S}
<1>1. U \in SUBSET Nat /\ U # {}
  <2>1. PICK x \in S : TRUE
    OBVIOUS
  <2>2. b - x \in Nat /\ b - (b - x) = x
    BY <2>1
  <2>3. b - x \in U
    BY <2>1, <2>2
  <2> QED
    BY <2>3
<1>2. PICK m \in U : \A k \in U : m <= k
  <2> HIDE DEF U
  <2> QED
    BY <1>1, LeastElement
<1>3. b - m \in S /\ \A k \in S : k <= b - m
  <2>1. ASSUME NEW k \in S PROVE k <= b - m
    <3>1. k \in 0 .. b /\ b - k \in Nat /\ b - (b - k) = k
      OBVIOUS
    <3>2. b - k \in U
      BY <3>1
    <3>3. m <= b - k
      BY <1>2, <3>2
    <3> QED
      BY <3>1, <3>3
  <2> QED
    BY <1>2, <2>1
<1> QED
  BY <1>3 DEF Max

(* What the sizes are to each other.                                       *)
LEMMA Sizes ==
  /\ Header \in Nat /\ Header >= 2 /\ MaxLen \in Nat /\ MaxLen > Header
  /\ Size \in Nat /\ Size >= 2 * MaxLen
  /\ \A p \in Payloads : p \in Nat /\ p >= 1 /\ Header + p <= MaxLen
<1>1. Base * Base - 1 \in Nat
  BY LoggerAssumption
<1>2. \A p \in Payloads : p \in Nat /\ p >= 1
  BY LoggerAssumption
<1>3. Max(Payloads) \in Payloads /\ \A p \in Payloads : p <= Max(Payloads)
  <2> DEFINE b == Base * Base - 1
  <2>1. Payloads \in SUBSET (0 .. b) /\ Payloads # {}
    BY LoggerAssumption, <1>1
  <2> HIDE DEF b
  <2>2. b \in Nat
    BY <1>1 DEF b
  <2> QED
    BY <2>1, <2>2, MaxIsGreatest
<1> DEFINE m == Max(Payloads)
<1>4. MaxLen = Header + m /\ Size >= 2 * MaxLen /\ Size \in Nat
  BY LoggerAssumption DEF MaxLen
<1>5. Header \in Nat /\ Header >= 2
  BY LoggerAssumption
<1>6. m \in Nat /\ m >= 1 /\ \A p \in Payloads : p <= m
  BY <1>2, <1>3
<1> HIDE DEF m
<1> QED
  BY ONLY <1>2, <1>4, <1>5, <1>6

-----------------------------------------------------------------------------
(* Offsets.                                                                *)

(* logger_offset of what lies within a turn of the ring.                   *)
LEMMA OffsetIs ==
  ASSUME NEW n \in (-Size) .. (2 * Size - 1)
  PROVE  /\ logger_offset(n) = IF n < 0 THEN n + Size ELSE IF n < Size THEN n ELSE n - Size
         /\ logger_offset(n) \in Offsets
<1>1. Size \in Nat /\ Size > 0
  BY Sizes
<1>2. n % Size = IF n < 0 THEN n + Size ELSE IF n < Size THEN n ELSE n - Size
  <2>1. CASE n < 0
    BY <1>1, <2>1
  <2>2. CASE 0 <= n /\ n < Size
    BY <1>1, <2>2
  <2>3. CASE Size <= n
    BY <1>1, <2>3
  <2> QED
    BY <1>1, <2>1, <2>2, <2>3
<1> QED
  BY <1>1, <1>2 DEF logger_offset, Offsets

(* A distance within the ring.                                             *)
LEMMA DistIs ==
  ASSUME NEW a \in Offsets, NEW b \in Offsets
  PROVE  /\ dist(a, b) = IF b >= a THEN b - a ELSE b - a + Size
         /\ dist(a, b) \in Offsets /\ dist(a, b) \in Nat /\ dist(a, b) < Size
<1>1. Size \in Nat /\ Size > 0
  BY Sizes
<1>2. b - a \in (-Size) .. (2 * Size - 1)
  BY <1>1 DEF Offsets
<1> QED
  BY <1>1, <1>2, OffsetIs DEF dist, logger_offset, Offsets

(* Distances tell offsets apart.                                           *)
LEMMA SameDistance ==
  ASSUME NEW s \in Offsets, NEW a \in Offsets, NEW b \in Offsets, dist(s, a) = dist(s, b)
  PROVE  a = b
<1>1. /\ dist(s, a) = IF a >= s THEN a - s ELSE a - s + Size
      /\ dist(s, b) = IF b >= s THEN b - s ELSE b - s + Size
  BY DistIs
<1>2. Size \in Nat /\ s \in Nat /\ s < Size /\ a \in Nat /\ a < Size
      /\ b \in Nat /\ b < Size
  BY Sizes DEF Offsets
<1>3. CASE a >= s /\ b >= s
  BY ONLY <1>1, <1>2, <1>3, dist(s, a) = dist(s, b)
<1>4. CASE a >= s /\ b < s
  BY ONLY <1>1, <1>2, <1>4, dist(s, a) = dist(s, b)
<1>5. CASE a < s /\ b >= s
  BY ONLY <1>1, <1>2, <1>5, dist(s, a) = dist(s, b)
<1>6. CASE a < s /\ b < s
  BY ONLY <1>1, <1>2, <1>6, dist(s, a) = dist(s, b)
<1> QED
  BY <1>2, <1>3, <1>4, <1>5, <1>6

(* How far an offset is from s.                                            *)
LEMMA BehindIs ==
  ASSUME NEW s \in Offsets, NEW off \in Offsets
  PROVE  /\ behind(s, off) \in 1 .. Size
         /\ behind(s, off) = Size <=> off = s
         /\ off # s => dist(s, off) = behind(s, off)
<1>1. /\ dist(s, off) = IF off >= s THEN off - s ELSE off - s + Size
      /\ behind(s, off) = Size - (IF s >= off THEN s - off ELSE s - off + Size)
  BY DistIs DEF behind
<1>2. Size \in Nat /\ s \in Nat /\ s < Size /\ off \in Nat /\ off < Size
  BY Sizes DEF Offsets
<1>3. CASE off = s
  BY <1>1, <1>2, <1>3
<1>4. CASE off > s
  BY <1>1, <1>2, <1>4
<1>5. CASE off < s
  BY <1>1, <1>2, <1>5
<1> QED
  BY <1>2, <1>3, <1>4, <1>5

(* n bytes after off.                                                      *)
LEMMA BehindMoves ==
  ASSUME NEW s \in Offsets, NEW off \in Offsets, NEW n \in Nat, behind(s, off) + n <= Size
  PROVE  /\ logger_offset(off + n) \in Offsets
         /\ off # s => behind(s, logger_offset(off + n)) = behind(s, off) + n
<1>1. Size \in Nat /\ Size > 0 /\ behind(s, off) \in 1 .. Size
  BY Sizes, BehindIs
<1>2. off + n \in (-Size) .. (2 * Size - 1)
  BY <1>1 DEF Offsets
<1>3. /\ logger_offset(off + n) = IF off + n < Size THEN off + n ELSE off + n - Size
      /\ logger_offset(off + n) \in Offsets
  BY <1>1, <1>2, OffsetIs DEF Offsets
<1>4. /\ behind(s, off) = Size - (IF s >= off THEN s - off ELSE s - off + Size)
      /\ behind(s, logger_offset(off + n)) =
           Size - (IF s >= logger_offset(off + n) THEN s - logger_offset(off + n)
                   ELSE s - logger_offset(off + n) + Size)
  BY <1>3, DistIs DEF behind
<1> QED
  BY <1>1, <1>3, <1>4 DEF Offsets

(* The distance from an offset to one that is further from s.              *)
LEMMA DistFrom ==
  ASSUME NEW s \in Offsets, NEW off \in Offsets, NEW b \in Offsets, off # s
  PROVE  dist(off, b) = IF dist(s, b) >= behind(s, off) THEN dist(s, b) - behind(s, off)
                        ELSE dist(s, b) - behind(s, off) + Size
<1>1. /\ dist(s, b) = IF b >= s THEN b - s ELSE b - s + Size
      /\ dist(off, b) = IF b >= off THEN b - off ELSE b - off + Size
      /\ behind(s, off) = Size - (IF s >= off THEN s - off ELSE s - off + Size)
  BY DistIs DEF behind
<1>2. Size \in Nat /\ s \in Nat /\ s < Size /\ off \in Nat /\ off < Size
      /\ b \in Nat /\ b < Size
  BY Sizes DEF Offsets
<1>3. CASE off > s
  BY ONLY <1>1, <1>2, <1>3
<1>4. CASE off < s
  BY ONLY <1>1, <1>2, <1>4
<1> QED
  BY <1>2, <1>3, <1>4

-----------------------------------------------------------------------------
(* Walking the entries.                                                    *)

(* The fields of an entry.                                                 *)
LEMMA EntryFields ==
  ASSUME NEW buf, NEW W, NEW s \in Offsets, NEW m, Ring(buf, W, s, m), NEW e \in W
  PROVE  /\ e.off \in Offsets /\ e.len \in Nat /\ 2 <= e.len /\ e.len <= MaxLen
         /\ dist(s, e.off) \in Nat /\ dist(s, e.off) + e.len <= Size
         /\ length_at(buf, e.off) = e.len
<1>1. e \in Entries
  BY DEF Ring
<1>2. e.off \in Offsets /\ e.len \in 2 .. MaxLen /\ MaxLen \in Nat
  BY <1>1, Sizes DEF Entries
<1>3. dist(s, e.off) \in Nat
  BY <1>2, DistIs
<1> QED
  BY <1>2, <1>3 DEF Ring

(* One entry of nr bytes is passed, and no other.                          *)
OneEntry(W, s, off, nr) ==
  /\ nr \in Nat /\ 2 <= nr /\ behind(s, off) + nr <= Size
  /\ logger_offset(off + nr) \in Offsets
  /\ behind(s, logger_offset(off + nr)) = behind(s, off) + nr
  /\ Cover(W, s, behind(s, off) + nr)
  /\ \A f \in W : dist(s, f.off) < behind(s, off) + nr => dist(s, f.off) <= behind(s, off)

(* What is behind an offset from which all is covered: an entry, and then  *)
(* an offset from which all is covered.                                    *)
LEMMA EntryAt ==
  ASSUME NEW buf, NEW W, NEW s \in Offsets, NEW m, Ring(buf, W, s, m),
         NEW off \in Offsets, off # s, Cover(W, s, behind(s, off))
  PROVE  OneEntry(W, s, off, length_at(buf, off))
<1> DEFINE q == behind(s, off)
           nr == length_at(buf, off)
<1>1. q \in Nat /\ 1 <= q /\ q < Size /\ dist(s, off) = q /\ Size \in Nat
  BY BehindIs, Sizes
<1>2. PICK e \in W : q <= dist(s, e.off) /\ dist(s, e.off) <= q /\ q < dist(s, e.off) + e.len
  <2>1. q \in q .. (Size - 1)
    BY <1>1
  <2> QED
    BY <2>1 DEF Cover
<1>3. /\ e.off \in Offsets /\ e.len \in Nat /\ 2 <= e.len
      /\ dist(s, e.off) \in Nat /\ dist(s, e.off) + e.len <= Size
      /\ length_at(buf, e.off) = e.len
  BY EntryFields
<1>4. dist(s, e.off) = q
  BY <1>1, <1>2, <1>3
<1>5. e.off = off
  BY <1>1, <1>3, <1>4, SameDistance
<1>6. nr = e.len
  BY <1>3, <1>5
<1>7. nr \in Nat /\ 2 <= nr /\ q + nr <= Size
  BY <1>3, <1>4, <1>6
<1>8. logger_offset(off + nr) \in Offsets /\ behind(s, logger_offset(off + nr)) = q + nr
  BY <1>7, BehindMoves
<1> HIDE DEF q, nr
<1>9. ASSUME NEW f \in W, dist(s, f.off) > q PROVE q + nr <= dist(s, f.off)
  BY <1>4, <1>6, <1>9 DEF Ring
<1>10. ASSUME NEW f \in W, dist(s, f.off) < q + nr PROVE dist(s, f.off) <= q
  <2>1. dist(s, f.off) \in Nat
    BY EntryFields
  <2> QED
    BY <1>1, <1>7, <1>9, <1>10, <2>1
<1>11. Cover(W, s, q + nr)
  <2> SUFFICES ASSUME NEW d \in (q + nr) .. (Size - 1)
               PROVE  \E f \in W : /\ q + nr <= dist(s, f.off) /\ dist(s, f.off) <= d
                                   /\ d < dist(s, f.off) + f.len
    BY DEF Cover
  <2>1. d \in q .. (Size - 1) /\ d \in Nat /\ q + nr <= d
    BY <1>1, <1>7
  <2>2. PICK f \in W : q <= dist(s, f.off) /\ dist(s, f.off) <= d /\ d < dist(s, f.off) + f.len
    BY <2>1 DEF Cover, q
  <2>3. /\ f.off \in Offsets /\ f.len \in Nat /\ dist(s, f.off) \in Nat
        /\ length_at(buf, f.off) = f.len
    BY EntryFields
  <2>4. dist(s, f.off) # q
    <3> SUFFICES ASSUME dist(s, f.off) = q PROVE FALSE
      OBVIOUS
    <3>1. f.off = off
      BY <1>1, <2>3, SameDistance
    <3>2. f.len = nr
      BY <2>3, <3>1 DEF nr
    <3> QED
      BY <1>1, <1>7, <2>1, <2>2, <2>3, <3>2
  <2>5. dist(s, f.off) > q
    BY <1>1, <2>2, <2>3, <2>4
  <2> QED
    BY <1>9, <2>2, <2>5
<1> QED
  BY <1>7, <1>8, <1>10, <1>11 DEF q, nr, OneEntry

(* Induction over the natural numbers, as a fact about sets.               *)
LEMMA SetInduction ==
  ASSUME NEW S, 0 \in S, \A n \in Nat : n \in S => n + 1 \in S
  PROVE  Nat \subseteq S
<1> SUFFICES ASSUME Nat \ S # {} PROVE FALSE
  OBVIOUS
<1>1. PICK m \in Nat \ S : \A k \in Nat \ S : m <= k
  <2> DEFINE U == Nat \ S
  <2>1. U \in SUBSET Nat /\ U # {}
    OBVIOUS
  <2> HIDE DEF U
  <2>2. \E m \in U : \A k \in U : m <= k
    BY <2>1, LeastElement
  <2> QED
    BY <2>2 DEF U
<1>2. m \in Nat /\ m # 0
  BY <1>1
<1>3. m - 1 \in Nat /\ (m - 1) + 1 = m /\ ~ (m <= m - 1)
  BY ONLY <1>2
<1>4. m - 1 \in S
  BY <1>1, <1>3, Zenon
<1> QED
  BY <1>1, <1>3, <1>4

(* An entry has at least its header.                                       *)
LEMMA LengthIsPositive ==
  ASSUME buffer \in [Offsets -> 0 .. (Base - 1)], NEW off \in Offsets
  PROVE  get_entry_len(off) \in Nat /\ get_entry_len(off) >= 2
<1> DEFINE o == logger_offset(off + 1)
<1>1. o \in Offsets
  <2>1. off + 1 \in (-Size) .. (2 * Size - 1)
    BY Sizes DEF Offsets
  <2> QED
    BY <2>1, OffsetIs
<1> HIDE DEF o
<1>2. buffer[off] \in Nat /\ buffer[o] \in Nat /\ Base \in Nat
  BY <1>1, LoggerAssumption
<1>3. Base * buffer[o] \in Nat
  BY <1>2
<1>4. Header \in Nat /\ Header >= 2
  BY Sizes
<1>5. get_entry_len(off) = Header + buffer[off] + Base * buffer[o]
  BY DEF get_entry_len, o
<1> DEFINE h == Base * buffer[o]
<1> HIDE DEF h
<1>6. h \in Nat /\ get_entry_len(off) = Header + buffer[off] + h
  BY <1>3, <1>5 DEF h
<1> QED
  BY ONLY <1>2, <1>4, <1>6

(* get_next_entry is the function that its definition describes.           *)
LEMMA NextEntry ==
  ASSUME buffer \in [Offsets -> 0 .. (Base - 1)], NEW len \in 1 .. MaxLen, NEW off \in Offsets
  PROVE  get_next_entry[len][off] =
           IF get_entry_len(off) >= len THEN logger_offset(off + get_entry_len(off))
           ELSE get_next_entry[len - get_entry_len(off)][logger_offset(off + get_entry_len(off))]
<1> DEFINE nr(o) == get_entry_len(o)
           nx(o) == logger_offset(o + get_entry_len(o))
           G(f, m) == [o \in Offsets |-> IF nr(o) >= m THEN nx(o) ELSE f[m - nr(o)][nx(o)]]
           F(n, f) == f = [m \in 1 .. n |-> G(f, m)]
           S == {n \in Nat : \E f : F(n, f)}
<1>1. \A o \in Offsets : nr(o) \in Nat /\ nr(o) >= 2
  BY LengthIsPositive
<1>2. get_next_entry = CHOOSE f : F(MaxLen, f)
  BY DEF get_next_entry
<1> HIDE DEF nr, nx
<1>3. 0 \in S
  <2> DEFINE g == [m \in 1 .. 0 |-> 0]
  <2>1. F(0, g)
    OBVIOUS
  <2> QED
    BY <2>1
<1>4. ASSUME NEW n \in Nat, n \in S PROVE n + 1 \in S
  <2>1. PICK f : F(n, f)
    BY <1>4
  <2> DEFINE g == [m \in 1 .. n + 1 |-> IF m <= n THEN f[m] ELSE G(f, n + 1)]
  <2>2. \A k \in 1 .. n : g[k] = f[k] /\ f[k] = G(f, k)
    <3> HIDE DEF G
    <3>1. \A k \in 1 .. n : f[k] = G(f, k)
      BY <2>1
    <3> QED
      BY <3>1
  <2>3. g[n + 1] = G(f, n + 1)
    OBVIOUS
  <2>4. g = [m \in 1 .. n + 1 |-> g[m]]
    OBVIOUS
  <2> HIDE DEF g
  <2>5. ASSUME NEW m \in 1 .. n + 1 PROVE G(f, m) = G(g, m)
    <3>1. ASSUME NEW o \in Offsets, ~ (nr(o) >= m) PROVE f[m - nr(o)] = g[m - nr(o)]
      <4>1. m - nr(o) \in 1 .. n
        BY <1>1, <3>1
      <4> QED
        BY <2>2, <4>1
    <3> QED
      BY <3>1
  <2> HIDE DEF G
  <2>6. ASSUME NEW m \in 1 .. n + 1 PROVE g[m] = G(g, m)
    <3>1. CASE m \in 1 .. n
      BY <2>2, <2>5, <3>1
    <3>2. CASE m = n + 1
      BY <2>3, <2>5, <3>2
    <3> QED
      BY <3>1, <3>2
  <2>7. F(n + 1, g)
    BY <2>4, <2>6
  <2> HIDE DEF F
  <2>8. n + 1 \in Nat
    OBVIOUS
  <2> QED
    BY <2>7, <2>8
<1> HIDE DEF S
<1>5. MaxLen \in S
  BY <1>3, <1>4, SetInduction, Sizes
<1>6. \E f : F(MaxLen, f)
  BY <1>5 DEF S
<1>7. F(MaxLen, get_next_entry)
  <2> HIDE DEF F
  <2> QED
    BY <1>2, <1>6
<1>8. get_next_entry[len] = G(get_next_entry, len)
  <2> HIDE DEF G
  <2> QED
    BY <1>7
<1> QED
  BY <1>8 DEF nr, nx

(* A walk of at least len bytes, from off to to.                           *)
Walked(W, s, len, off, to) ==
  /\ to \in Offsets
  /\ behind(s, off) + len <= behind(s, to)
  /\ Cover(W, s, behind(s, to))
  /\ \A f \in W : dist(s, f.off) < behind(s, to) => dist(s, f.off) < behind(s, off) + len

(* get_next_entry stays on the boundaries of entries and skips none that   *)
(* starts beyond the len bytes.                                            *)
LEMMA Walk ==
  ASSUME buffer \in [Offsets -> 0 .. (Base - 1)],
         NEW W, NEW s \in Offsets, NEW m, Ring(buffer, W, s, m)
  PROVE  \A len \in 1 .. MaxLen, off \in Offsets :
           Cover(W, s, behind(s, off)) /\ behind(s, off) + len <= Size
             => Walked(W, s, len, off, get_next_entry[len][off])
<1> DEFINE Good(len) == \A off \in Offsets :
                          Cover(W, s, behind(s, off)) /\ behind(s, off) + len <= Size
                            => Walked(W, s, len, off, get_next_entry[len][off])
           Bad == {len \in 1 .. MaxLen : ~ Good(len)}
<1> SUFFICES ASSUME Bad # {} PROVE FALSE
  OBVIOUS
<1>1. PICK len \in Bad : \A k \in Bad : len <= k
  <2>1. Bad \in SUBSET Nat
    OBVIOUS
  <2> HIDE DEF Bad
  <2> QED
    BY <2>1, LeastElement
<1>2. len \in 1 .. MaxLen /\ len \in Nat /\ 1 <= len /\ len <= MaxLen /\ MaxLen \in Nat
  BY <1>1, Sizes
<1>3. ASSUME NEW k \in Nat, 1 <= k, k < len PROVE Good(k)
  <2>1. k \in 1 .. MaxLen /\ ~ (len <= k)
    BY <1>2, <1>3
  <2> QED
    BY <1>1, <2>1
<1>4. Good(len)
  <2> SUFFICES ASSUME NEW off \in Offsets, Cover(W, s, behind(s, off)),
                      behind(s, off) + len <= Size
               PROVE  Walked(W, s, len, off, get_next_entry[len][off])
    OBVIOUS
  <2> DEFINE nr == get_entry_len(off)
             next == logger_offset(off + nr)
             q == behind(s, off)
             to == get_next_entry[len][off]
  <2>1. q \in Nat /\ 1 <= q /\ q <= Size /\ (q = Size <=> off = s) /\ Size \in Nat
    BY BehindIs, Sizes
  <2>2. off # s
    BY <1>2, <2>1
  <2>3. nr = length_at(buffer, off)
    BY DEF get_entry_len, length_at
  <2>4. /\ nr \in Nat /\ 2 <= nr /\ q + nr <= Size
        /\ next \in Offsets /\ behind(s, next) = q + nr
        /\ Cover(W, s, q + nr)
        /\ \A f \in W : dist(s, f.off) < q + nr => dist(s, f.off) <= q
    <3>1. OneEntry(W, s, off, nr)
      BY <2>2, <2>3, EntryAt
    <3> QED
      BY <3>1 DEF OneEntry
  <2>5. to = IF nr >= len THEN next ELSE get_next_entry[len - nr][next]
    BY <1>2, NextEntry
  <2> HIDE DEF nr, next, to
  <2>6. \A f \in W : dist(s, f.off) \in Nat
    BY EntryFields
  <2>7. CASE nr >= len
    <3>1. to = next /\ behind(s, to) = q + nr
      BY <2>4, <2>5, <2>7
    <3>2. q + len <= behind(s, to)
      BY <1>2, <2>1, <2>4, <2>7, <3>1
    <3>3. ASSUME NEW f \in W, dist(s, f.off) < behind(s, to) PROVE dist(s, f.off) < q + len
      <4>1. dist(s, f.off) <= q
        BY <2>4, <3>1, <3>3
      <4> QED
        BY <1>2, <2>1, <2>6, <4>1
    <3>4. Walked(W, s, len, off, to)
      BY <2>4, <3>1, <3>2, <3>3 DEF Walked
    <3> QED
      BY <3>4 DEF to
  <2>8. CASE ~ (nr >= len)
    <3>1. len - nr \in Nat /\ 1 <= len - nr /\ len - nr < len
      BY <1>2, <2>4, <2>8
    <3>2. to = get_next_entry[len - nr][next]
      BY <2>5, <2>8
    <3>3. Cover(W, s, behind(s, next)) /\ behind(s, next) + (len - nr) <= Size
      BY <1>2, <2>1, <2>4
    <3>4. Walked(W, s, len - nr, next, to)
      BY <1>3, <2>4, <3>1, <3>2, <3>3
    <3>5. behind(s, next) + (len - nr) = q + len
      BY <1>2, <2>1, <2>4
    <3>6. Walked(W, s, len, off, to)
      BY <3>4, <3>5 DEF Walked
    <3> QED
      BY <3>6 DEF to
  <2> QED
    BY <2>7, <2>8
<1> QED
  BY <1>1, <1>4

(* clock_interval asks whether the write reaches off.                      *)
LEMMA ClockInterval ==
  ASSUME NEW s \in Offsets, NEW off \in Offsets, NEW n \in 1 .. MaxLen
  PROVE  clock_interval(s, logger_offset(s + n), off) <=> behind(s, off) <= n
<1>1. Size \in Nat /\ MaxLen \in Nat /\ Size >= 2 * MaxLen /\ n \in Nat /\ 1 <= n /\ n < Size
      /\ s \in Nat /\ s < Size /\ off \in Nat /\ off < Size
  BY Sizes DEF Offsets
<1>2. s + n \in (-Size) .. (2 * Size - 1)
  BY <1>1
<1>3. logger_offset(s + n) = IF s + n < Size THEN s + n ELSE s + n - Size
  BY <1>1, <1>2, OffsetIs
<1>4. behind(s, off) = Size - (IF s >= off THEN s - off ELSE s - off + Size)
  BY DistIs DEF behind
<1>5. CASE s >= off
  BY <1>1, <1>3, <1>4, <1>5 DEF clock_interval
<1>6. CASE s < off
  BY <1>1, <1>3, <1>4, <1>6 DEF clock_interval
<1> QED
  BY <1>1, <1>5, <1>6

(* fix_up_readers takes an offset that the write will reach to one that it *)
(* will not, and leaves the others alone.                                  *)
LEMMA FixUp ==
  ASSUME OffsetInv, NEW W, Ring(buffer, W, w_off, 0), NEW len \in 1 .. MaxLen,
         NEW off \in Offsets, Cover(W, w_off, behind(w_off, off))
  PROVE  /\ fix_up(off, len) \in Offsets
         /\ len < behind(w_off, fix_up(off, len))
         /\ Cover(W, w_off, behind(w_off, fix_up(off, len)))
         /\ \A f \in W : dist(w_off, f.off) < behind(w_off, fix_up(off, len)) =>
                           \/ dist(w_off, f.off) < behind(w_off, off)
                           \/ dist(w_off, f.off) < 2 * MaxLen
<1> DEFINE q == behind(w_off, off)
<1>1. w_off \in Offsets /\ buffer \in [Offsets -> 0 .. (Base - 1)]
  BY DEF OffsetInv
<1>2. q \in Nat /\ 1 <= q /\ q <= Size /\ len \in Nat /\ 1 <= len /\ len <= MaxLen
      /\ MaxLen \in Nat /\ Size \in Nat /\ 2 * MaxLen <= Size
  BY <1>1, BehindIs, Sizes
<1>3. clock_interval(w_off, logger_offset(w_off + len), off) <=> q <= len
  BY <1>1, ClockInterval
<1>4. CASE q <= len
  <2> DEFINE to == get_next_entry[len][off]
  <2>1. fix_up(off, len) = to
    BY <1>3, <1>4 DEF fix_up
  <2>2. q + len <= Size
    BY <1>2, <1>4
  <2>3. Walked(W, w_off, len, off, to)
    BY <1>1, <2>2, Walk
  <2> HIDE DEF to
  <2>4. behind(w_off, to) \in Nat
    BY <1>1, <2>3, BehindIs, Sizes DEF Walked
  <2>5. len < behind(w_off, to)
    BY <1>2, <2>3, <2>4 DEF Walked
  <2>6. ASSUME NEW f \in W, dist(w_off, f.off) < behind(w_off, to)
        PROVE  dist(w_off, f.off) < 2 * MaxLen
    <3>1. dist(w_off, f.off) \in Nat
      BY <1>1, EntryFields
    <3>2. dist(w_off, f.off) < q + len
      BY <2>3, <2>6 DEF Walked
    <3> QED
      BY <1>2, <1>4, <3>1, <3>2
  <2> QED
    BY <2>1, <2>3, <2>5, <2>6 DEF Walked
<1>5. CASE ~ (q <= len)
  <2>1. fix_up(off, len) = off
    BY <1>3, <1>5 DEF fix_up
  <2> QED
    BY <1>2, <1>5, <2>1
<1> QED
  BY <1>4, <1>5

-----------------------------------------------------------------------------
(* Writing.                                                                *)

(* Distances from m bytes after s.                                         *)
LEMMA DistAfter ==
  ASSUME NEW s \in Offsets, NEW m \in Nat, m <= MaxLen, NEW o \in Offsets
  PROVE  /\ logger_offset(s + m) \in Offsets
         /\ dist(logger_offset(s + m), o) =
              IF dist(s, o) >= m THEN dist(s, o) - m ELSE dist(s, o) - m + Size
<1> DEFINE at == logger_offset(s + m)
<1>1. Size \in Nat /\ MaxLen \in Nat /\ Size >= 2 * MaxLen /\ m < Size /\ m \in Nat
      /\ s \in Nat /\ s < Size /\ o \in Nat /\ o < Size
  BY Sizes DEF Offsets
<1>2. s + m \in (-Size) .. (2 * Size - 1)
  BY <1>1
<1>3. at = (IF s + m < Size THEN s + m ELSE s + m - Size) /\ at \in Offsets
  BY <1>1, <1>2, OffsetIs
<1> HIDE DEF at
<1>4. /\ dist(s, o) = IF o >= s THEN o - s ELSE o - s + Size
      /\ dist(at, o) = IF o >= at THEN o - at ELSE o - at + Size
  BY <1>3, DistIs
<1>5. dist(at, o) = IF dist(s, o) >= m THEN dist(s, o) - m ELSE dist(s, o) - m + Size
  <2>1. CASE o >= s /\ s + m < Size
    BY ONLY <1>1, <1>3, <1>4, <2>1
  <2>2. CASE o >= s /\ ~ (s + m < Size)
    BY ONLY <1>1, <1>3, <1>4, <2>2
  <2>3. CASE ~ (o >= s) /\ s + m < Size
    BY ONLY <1>1, <1>3, <1>4, <2>3
  <2>4. CASE ~ (o >= s) /\ ~ (s + m < Size)
    BY ONLY <1>1, <1>3, <1>4, <2>4
  <2> QED
    BY <2>1, <2>2, <2>3, <2>4
<1> QED
  BY <1>3, <1>5 DEF at

(* The second byte of an entry is within it.                               *)
LEMMA SecondByte ==
  ASSUME NEW s \in Offsets, NEW o \in Offsets, dist(s, o) + 2 <= Size
  PROVE  logger_offset(o + 1) \in Offsets /\ dist(s, logger_offset(o + 1)) = dist(s, o) + 1
<1> DEFINE p == logger_offset(o + 1)
<1>1. Size \in Nat /\ s \in Nat /\ s < Size /\ o \in Nat /\ o < Size
  BY Sizes DEF Offsets
<1>2. o + 1 \in (-Size) .. (2 * Size - 1)
  BY <1>1
<1>3. p = (IF o + 1 < Size THEN o + 1 ELSE o + 1 - Size) /\ p \in Offsets
  BY <1>1, <1>2, OffsetIs
<1> HIDE DEF p
<1>4. /\ dist(s, o) = IF o >= s THEN o - s ELSE o - s + Size
      /\ dist(s, p) = IF p >= s THEN p - s ELSE p - s + Size
  BY <1>3, DistIs
<1>5. dist(s, p) = dist(s, o) + 1
  <2>1. CASE o >= s
    BY ONLY <1>1, <1>3, <1>4, <2>1, dist(s, o) + 2 <= Size
  <2>2. CASE ~ (o >= s)
    BY ONLY <1>1, <1>3, <1>4, <2>2, dist(s, o) + 2 <= Size
  <2> QED
    BY <2>1, <2>2
<1> QED
  BY <1>3, <1>5 DEF p

(* n more bytes of an entry that starts at s and of which m are written.   *)
Wrote(buf, W, s, m, n, buf2, V) ==
  /\ \A o \in Offsets : dist(logger_offset(s + m), o) >= n => buf2[o] = buf[o]
  /\ V = {e \in W : /\ dist(logger_offset(s + m), e.off) >= n
                    /\ dist(logger_offset(s + m), e.off) + e.len <= Size}

(* The entries that start k bytes after s or later.                        *)
Beyond(W, s, k) == {e \in W : k <= dist(s, e.off)}

(* What they leave: the entries beyond them, and every other byte.         *)
OthersKept(buf, W, s, m, n, buf2, V) ==
  /\ Ring(buf2, V, s, m + n)
  /\ V = Beyond(W, s, m + n)
  /\ \A o \in Offsets : dist(s, o) < m \/ m + n <= dist(s, o) => buf2[o] = buf[o]

(* Bytes that are written change no entry beyond them.                     *)
LEMMA WriteKeepsRing ==
  ASSUME NEW buf, NEW W, NEW s \in Offsets, NEW m \in Nat, NEW n \in Nat, NEW buf2, NEW V,
         Wrote(buf, W, s, m, n, buf2, V), Ring(buf, W, s, m), m + n <= MaxLen
  PROVE  OthersKept(buf, W, s, m, n, buf2, V)
<1> DEFINE at == logger_offset(s + m)
<1>1. Size \in Nat /\ MaxLen \in Nat /\ Size >= 2 * MaxLen /\ m <= MaxLen
  BY Sizes
<1>2. ASSUME NEW o \in Offsets
      PROVE  /\ dist(at, o) = IF dist(s, o) >= m THEN dist(s, o) - m
                              ELSE dist(s, o) - m + Size
             /\ dist(s, o) \in Nat /\ dist(s, o) < Size
  BY <1>1, DistAfter, DistIs
<1>3. /\ \A o \in Offsets : dist(at, o) >= n => buf2[o] = buf[o]
      /\ V = {e \in W : dist(at, e.off) >= n /\ dist(at, e.off) + e.len <= Size}
  BY DEF Wrote
<1> HIDE DEF at
<1>4. ASSUME NEW o \in Offsets, dist(s, o) < m \/ m + n <= dist(s, o)
      PROVE  buf2[o] = buf[o]
  <2>1. dist(at, o) >= n
    <3>1. CASE dist(s, o) < m
      BY <1>1, <1>2, <3>1
    <3>2. CASE m + n <= dist(s, o)
      BY <1>1, <1>2, <3>2
    <3> QED
      BY <1>4, <3>1, <3>2
  <2> QED
    BY <1>3, <2>1
<1>5. ASSUME NEW e \in W
      PROVE  /\ e.off \in Offsets /\ e.len \in Nat /\ 2 <= e.len
             /\ dist(s, e.off) \in Nat /\ dist(s, e.off) + e.len <= Size
             /\ m <= dist(s, e.off) /\ length_at(buf, e.off) = e.len
  BY EntryFields DEF Ring
<1>6. ASSUME NEW e \in W
      PROVE  (dist(at, e.off) >= n /\ dist(at, e.off) + e.len <= Size)
               <=> m + n <= dist(s, e.off)
  <2>1. dist(at, e.off) = dist(s, e.off) - m
    BY <1>2, <1>5
  <2>2. /\ e.len \in Nat /\ dist(s, e.off) \in Nat /\ dist(s, e.off) + e.len <= Size
        /\ m \in Nat /\ n \in Nat /\ Size \in Nat
    BY <1>1, <1>5
  <2> QED
    BY ONLY <2>1, <2>2
<1>7. V = {e \in W : m + n <= dist(s, e.off)}
  BY <1>3, <1>6
<1>8. ASSUME NEW e \in V PROVE length_at(buf2, e.off) = e.len
  <2>1. e \in W /\ m + n <= dist(s, e.off)
    BY <1>7
  <2>2. /\ e.off \in Offsets /\ e.len \in Nat /\ 2 <= e.len
        /\ dist(s, e.off) \in Nat /\ dist(s, e.off) + e.len <= Size
        /\ length_at(buf, e.off) = e.len
    BY <1>5, <2>1
  <2>3. dist(s, e.off) + 2 <= Size
    BY <1>1, <2>2
  <2>4. logger_offset(e.off + 1) \in Offsets
        /\ dist(s, logger_offset(e.off + 1)) = dist(s, e.off) + 1
    BY <2>2, <2>3, SecondByte
  <2>5. m + n <= dist(s, logger_offset(e.off + 1))
    BY <2>1, <2>2, <2>4
  <2>6. buf2[e.off] = buf[e.off]
    BY <1>4, <2>1, <2>2
  <2>7. buf2[logger_offset(e.off + 1)] = buf[logger_offset(e.off + 1)]
    BY <1>4, <2>4, <2>5
  <2> QED
    BY <2>2, <2>6, <2>7 DEF length_at
<1>9. Ring(buf2, V, s, m + n)
  BY <1>7, <1>8 DEF Ring
<1> QED
  BY <1>4, <1>7, <1>9 DEF Beyond, OthersKept

(* What starts beyond the write stays covered.                             *)
LEMMA CoverKept ==
  ASSUME NEW W, NEW s \in Offsets, NEW k \in Nat, NEW q \in Nat, k <= q, Cover(W, s, q),
         W \subseteq Entries
  PROVE  Cover(Beyond(W, s, k), s, q)
<1> SUFFICES ASSUME NEW d \in q .. (Size - 1)
             PROVE  \E e \in W : /\ k <= dist(s, e.off)
                                 /\ q <= dist(s, e.off) /\ dist(s, e.off) <= d
                                 /\ d < dist(s, e.off) + e.len
  BY DEF Cover, Beyond
<1>1. PICK e \in W : q <= dist(s, e.off) /\ dist(s, e.off) <= d /\ d < dist(s, e.off) + e.len
  BY DEF Cover
<1>2. dist(s, e.off) \in Nat
  BY DistIs DEF Entries
<1>3. k <= dist(s, e.off)
  BY <1>1, <1>2
<1> QED
  BY <1>1, <1>3

(* All seen from the end, to, of an entry of t bytes at s.                 *)
SeenFromEnd(buf, W, s, t, V, to) ==
  /\ to \in Offsets
  /\ Ring(buf, V, to, 0)
  /\ \A e \in V : e.off # s => dist(to, e.off) = dist(s, e.off) - t
  /\ \A off \in Offsets : t < behind(s, off) => behind(to, off) = behind(s, off) - t
  /\ \A q \in Nat : t <= q /\ q <= Size /\ Cover(W, s, q) => Cover(V, to, q - t)

(* An entry of t bytes is complete.                                        *)
LEMMA EntryEnds ==
  ASSUME NEW buf, NEW W, NEW s \in Offsets, NEW t \in 2 .. MaxLen,
         Ring(buf, W, s, t), length_at(buf, s) = t
  PROVE  SeenFromEnd(buf, W, s, t, W \cup {[off |-> s, len |-> t]}, logger_offset(s + t))
<1> DEFINE V == W \cup {[off |-> s, len |-> t]}
           to == logger_offset(s + t)
<1> DEFINE new == [off |-> s, len |-> t]
<1>1. Size \in Nat /\ MaxLen \in Nat /\ Size >= 2 * MaxLen /\ t \in Nat /\ 2 <= t /\ t <= MaxLen
      /\ 2 * t <= Size
  BY Sizes
<1>2. to \in Offsets
  BY <1>1, DistAfter
<1>3. ASSUME NEW o \in Offsets
      PROVE  /\ dist(to, o) = IF dist(s, o) >= t THEN dist(s, o) - t
                              ELSE dist(s, o) - t + Size
             /\ dist(s, o) \in Nat /\ dist(s, o) < Size
  BY <1>1, DistAfter, DistIs
<1>4. ASSUME NEW e \in W
      PROVE  /\ e.off \in Offsets /\ e.len \in Nat /\ 2 <= e.len
             /\ dist(s, e.off) \in Nat /\ dist(s, e.off) + e.len <= Size
             /\ t <= dist(s, e.off) /\ length_at(buf, e.off) = e.len
             /\ dist(to, e.off) = dist(s, e.off) - t
  <2>1. /\ e.off \in Offsets /\ e.len \in Nat /\ 2 <= e.len
        /\ dist(s, e.off) \in Nat /\ dist(s, e.off) + e.len <= Size
        /\ t <= dist(s, e.off) /\ length_at(buf, e.off) = e.len
    BY EntryFields DEF Ring
  <2> QED
    BY <1>3, <2>1
<1>5. dist(s, s) = 0 /\ dist(to, s) = Size - t
  <2>1. dist(s, s) = 0
    BY <1>1, DistIs DEF Offsets
  <2> QED
    BY <1>1, <1>3, <2>1
<1>6. new.off = s /\ new.len = t /\ new \in Entries
  BY <1>1 DEF Entries
<1>7. V = W \cup {new}
  OBVIOUS
<1> HIDE DEF new, V, to
<1>8. ASSUME NEW e \in V
      PROVE  /\ 0 <= dist(to, e.off) /\ dist(to, e.off) + e.len <= Size
             /\ length_at(buf, e.off) = e.len
  <2>1. CASE e \in W
    BY <1>1, <1>4, <2>1
  <2>2. CASE e = new
    BY <1>1, <1>5, <1>6, <2>2
  <2> QED
    BY <1>7, <2>1, <2>2
<1>9. ASSUME NEW e \in V, NEW f \in V, dist(to, e.off) < dist(to, f.off)
      PROVE  dist(to, e.off) + e.len <= dist(to, f.off)
  <2>1. CASE e \in W /\ f \in W
    <3>1. dist(s, e.off) < dist(s, f.off)
      BY <1>1, <1>4, <1>9, <2>1
    <3>2. dist(s, e.off) + e.len <= dist(s, f.off)
      BY <2>1, <3>1 DEF Ring
    <3> QED
      BY <1>1, <1>4, <2>1, <3>2
  <2>2. CASE e \in W /\ f = new
    BY <1>1, <1>4, <1>5, <1>6, <2>2
  <2>3. CASE e = new
    <3>1. CASE f \in W
      BY <1>1, <1>4, <1>5, <1>6, <1>9, <2>3, <3>1
    <3>2. CASE f = new
      BY <1>1, <1>5, <1>6, <1>9, <2>3, <3>2
    <3> QED
      BY <1>7, <3>1, <3>2
  <2> QED
    BY <1>7, <2>1, <2>2, <2>3
<1>10. Ring(buf, V, to, 0)
  <2>1. V \subseteq Entries
    BY <1>6, <1>7 DEF Ring
  <2> QED
    BY <1>8, <1>9, <2>1 DEF Ring
<1>11. ASSUME NEW e \in V, e.off # s PROVE dist(to, e.off) = dist(s, e.off) - t
  BY <1>4, <1>6, <1>7, <1>11
<1>12. ASSUME NEW off \in Offsets, t < behind(s, off)
       PROVE  behind(to, off) = behind(s, off) - t
  <2>1. /\ behind(s, off) \in Nat /\ 1 <= behind(s, off) /\ behind(s, off) <= Size
        /\ (behind(s, off) = Size <=> off = s)
        /\ (off # s => dist(s, off) = behind(s, off))
    BY <1>1, BehindIs
  <2>2. /\ behind(to, off) \in Nat
        /\ (behind(to, off) = Size <=> off = to)
        /\ (off # to => dist(to, off) = behind(to, off))
    BY <1>1, <1>2, BehindIs
  <2>3. dist(to, to) = 0
    BY <1>1, <1>2, DistIs DEF Offsets
  <2>4. CASE off = s
    <3>1. off # to
      BY <1>1, <1>5, <2>3, <2>4
    <3> QED
      BY <1>1, <1>5, <2>1, <2>2, <2>4, <3>1
  <2>5. CASE off # s
    <3>1. dist(to, off) = behind(s, off) - t /\ dist(to, off) # 0
      BY <1>1, <1>3, <1>12, <2>1, <2>5
    <3>2. off # to
      BY <2>3, <3>1
    <3> QED
      BY <2>2, <3>1, <3>2
  <2> QED
    BY <2>4, <2>5
<1>13. ASSUME NEW q \in Nat, t <= q, q <= Size, Cover(W, s, q)
       PROVE  Cover(V, to, q - t)
  <2> SUFFICES ASSUME NEW d \in (q - t) .. (Size - 1)
               PROVE  \E e \in V : /\ q - t <= dist(to, e.off) /\ dist(to, e.off) <= d
                                   /\ d < dist(to, e.off) + e.len
    BY DEF Cover
  <2>1. d \in Nat /\ q - t <= d /\ d < Size
    BY <1>1, <1>13
  <2>2. CASE d < Size - t
    <3>1. d + t \in q .. (Size - 1)
      BY <1>1, <1>13, <2>1, <2>2
    <3>2. PICK e \in W : /\ q <= dist(s, e.off) /\ dist(s, e.off) <= d + t
                         /\ d + t < dist(s, e.off) + e.len
      BY <1>13, <3>1 DEF Cover
    <3>3. e \in V
      BY <1>7
    <3>4. /\ q - t <= dist(to, e.off) /\ dist(to, e.off) <= d
          /\ d < dist(to, e.off) + e.len
      BY <1>1, <1>4, <2>1, <3>2
    <3> QED
      BY <3>3, <3>4
  <2>3. CASE ~ (d < Size - t)
    <3>1. new \in V
      BY <1>7
    <3>2. /\ q - t <= dist(to, new.off) /\ dist(to, new.off) <= d
          /\ d < dist(to, new.off) + new.len
      BY <1>1, <1>5, <1>6, <1>13, <2>1, <2>3
    <3> QED
      BY <3>1, <3>2
  <2> QED
    BY <2>2, <2>3
<1> QED
  BY <1>2, <1>10, <1>11, <1>12, <1>13 DEF SeenFromEnd, V, to

-----------------------------------------------------------------------------
(* The list of readers.                                                    *)

Distinct(l) == \A i, j \in 1 .. Len(l) : l[i] = l[j] => i = j

(* The readers of a list are what stands at its positions.                 *)
LEMMA RangeOf ==
  ASSUME NEW l \in Seq(Readers)
  PROVE  Range(l) = {l[i] : i \in 1 .. Len(l)} /\ Range(l) \subseteq Readers
BY DEF Range

(* list_add_tail.                                                          *)
LEMMA Added ==
  ASSUME NEW l \in Seq(Readers), Distinct(l), NEW r \in Readers, r \notin Range(l)
  PROVE  /\ Append(l, r) \in Seq(Readers) /\ Distinct(Append(l, r))
         /\ Range(Append(l, r)) = Range(l) \cup {r}
<1> DEFINE m == Append(l, r)
<1>1. /\ m \in Seq(Readers) /\ Len(m) = Len(l) + 1 /\ m[Len(l) + 1] = r
      /\ \A i \in 1 .. Len(l) : m[i] = l[i]
  OBVIOUS
<1> HIDE DEF m
<1>2. Len(l) \in Nat /\ \A i \in 1 .. Len(l) : l[i] # r
  BY RangeOf
<1>3. Distinct(m)
  <2> SUFFICES ASSUME NEW i \in 1 .. Len(m), NEW j \in 1 .. Len(m), m[i] = m[j]
               PROVE  i = j
    BY DEF Distinct
  <2>1. CASE i \in 1 .. Len(l) /\ j \in 1 .. Len(l)
    BY <1>1, <2>1 DEF Distinct
  <2>2. CASE i = Len(l) + 1
    BY <1>1, <1>2, <2>2
  <2>3. CASE j = Len(l) + 1
    BY <1>1, <1>2, <2>3
  <2> QED
    BY <1>1, <1>2, <2>1, <2>2, <2>3
<1>4. Range(m) = Range(l) \cup {r}
  <2>1. ASSUME NEW i \in 1 .. Len(m) PROVE m[i] \in Range(l) \cup {r}
    <3>1. i \in 1 .. Len(l) \/ i = Len(l) + 1
      BY <1>1, <1>2
    <3> QED
      BY <1>1, <3>1, RangeOf
  <2>2. ASSUME NEW i \in 1 .. Len(l) PROVE l[i] \in Range(m)
    <3>1. i \in 1 .. Len(m)
      BY <1>1, <1>2
    <3>2. m[i] \in Range(m)
      BY <1>1, <3>1, RangeOf
    <3> QED
      BY <1>1, <3>2
  <2>3. r \in Range(m)
    <3>1. Len(l) + 1 \in 1 .. Len(m)
      BY <1>1, <1>2
    <3>2. m[Len(l) + 1] \in Range(m)
      BY <1>1, <3>1, RangeOf
    <3> QED
      BY <1>1, <3>2
  <2>4. Range(m) \subseteq Range(l) \cup {r}
    BY <1>1, <2>1, RangeOf
  <2>5. Range(l) \subseteq Range(m)
    BY <2>2, RangeOf
  <2> QED
    BY <2>3, <2>4, <2>5
<1> QED
  BY <1>1, <1>3, <1>4 DEF m

(* RemoveAt moves what comes after the position.                           *)
LEMMA RemoveAtPositions ==
  ASSUME NEW S, NEW s \in Seq(S), NEW p \in 1 .. Len(s)
  PROVE  /\ RemoveAt(s, p) \in Seq(S)
         /\ Len(RemoveAt(s, p)) = Len(s) - 1
         /\ \A i \in 1 .. Len(s) - 1 :
              RemoveAt(s, p)[i] = IF i < p THEN s[i] ELSE s[i + 1]
<1> DEFINE a == SubSeq(s, 1, p - 1)
           b == SubSeq(s, p + 1, Len(s))
<1>1. a \in Seq(S) /\ Len(a) = p - 1 /\ \A i \in 1 .. p - 1 : a[i] = s[i]
  OBVIOUS
<1>2. b \in Seq(S) /\ Len(b) = Len(s) - p
      /\ \A i \in 1 .. Len(s) - p : b[i] = s[p + i]
  OBVIOUS
<1>3. RemoveAt(s, p) = a \o b
  BY DEF RemoveAt
<1> HIDE DEF a, b
<1>4. Len(s) \in Nat /\ p \in Int /\ 1 <= p /\ p <= Len(s)
  OBVIOUS
<1>5. a \o b \in Seq(S) /\ Len(a \o b) = Len(s) - 1
  <2>1. a \o b \in Seq(S) /\ Len(a \o b) = Len(a) + Len(b)
    BY <1>1, <1>2, ConcatProperties
  <2> QED
    BY <1>1, <1>2, <1>4, <2>1
<1>6. \A i \in 1 .. Len(s) - 1 : (a \o b)[i] = IF i <= p - 1 THEN a[i] ELSE b[i - (p - 1)]
  BY <1>1, <1>2, <1>4, ConcatProperties
<1>7. ASSUME NEW i \in 1 .. Len(s) - 1
      PROVE  (a \o b)[i] = IF i < p THEN s[i] ELSE s[i + 1]
  <2>0. i \in Int /\ 1 <= i /\ i <= Len(s) - 1
    BY <1>4
  <2>1. ASSUME i < p PROVE (a \o b)[i] = s[i]
    <3>1. i \in 1 .. p - 1 /\ i <= p - 1
      BY <1>4, <2>0, <2>1
    <3>2. (a \o b)[i] = a[i]
      BY <1>6, <3>1
    <3> QED
      BY <1>1, <3>1, <3>2
  <2>2. ASSUME ~ (i < p) PROVE (a \o b)[i] = s[i + 1]
    <3> DEFINE k == i - (p - 1)
    <3>1. k \in 1 .. Len(s) - p /\ p + k = i + 1 /\ ~ (i <= p - 1)
      BY <1>4, <2>0, <2>2
    <3>2. (a \o b)[i] = b[k]
      BY <1>6, <3>1
    <3> HIDE DEF k
    <3>3. b[k] = s[p + k]
      BY <1>2, <3>1
    <3> QED
      BY <3>1, <3>2, <3>3
  <2> QED
    BY <2>1, <2>2
<1> QED
  BY <1>3, <1>5, <1>7

(* list_del: the other readers keep their order.                           *)
LEMMA Removed ==
  ASSUME NEW l \in Seq(Readers), Distinct(l), NEW r \in Range(l),
         NEW m, m = RemoveFirst(l, r)
  PROVE  /\ m \in Seq(Readers) /\ Distinct(m) /\ Range(m) = Range(l) \ {r}
         /\ \E up \in [1 .. Len(m) -> 1 .. Len(l)] :
              /\ \A i \in 1 .. Len(m) : m[i] = l[up[i]]
              /\ \A i, j \in 1 .. Len(m) : i < j => up[i] < up[j]
<1>1. PICK p \in 1 .. Len(l) : l[p] = r
  BY RangeOf
<1>2. {i \in 1 .. Len(l) : l[i] = r} = {p}
  BY <1>1 DEF Distinct
<1>3. SelectInSeq(l, LAMBDA v : v = r) = p
  BY <1>2 DEF SelectInSeq, Min
<1>4. m = RemoveAt(l, p)
  BY <1>1, <1>3 DEF RemoveFirst
<1>5. /\ m \in Seq(Readers) /\ Len(m) = Len(l) - 1
      /\ \A i \in 1 .. Len(l) - 1 : m[i] = IF i < p THEN l[i] ELSE l[i + 1]
  BY <1>4, RemoveAtPositions
<1>6. Len(l) \in Nat /\ p \in Int /\ 1 <= p /\ p <= Len(l)
  OBVIOUS
<1> DEFINE up == [i \in 1 .. Len(m) |-> IF i < p THEN i ELSE i + 1]
           down(i) == IF i < p THEN i ELSE i - 1
<1>7. \A i \in 1 .. Len(m) : up[i] \in 1 .. Len(l) /\ up[i] # p /\ m[i] = l[up[i]]
  BY <1>5, <1>6
<1>8. up \in [1 .. Len(m) -> 1 .. Len(l)]
  BY <1>7
<1>9. \A i, j \in 1 .. Len(m) : (i < j => up[i] < up[j]) /\ (up[i] = up[j] => i = j)
  BY <1>5, <1>6
<1>10. \A i \in 1 .. Len(l) : i # p => down(i) \in 1 .. Len(m) /\ up[down(i)] = i
  BY <1>5, <1>6
<1> HIDE DEF up, down
<1>11. \A i \in 1 .. Len(l) : l[i] = r <=> i = p
  BY <1>1 DEF Distinct
<1>12. Distinct(m)
  BY <1>7, <1>9 DEF Distinct
<1>13. Range(m) = Range(l) \ {r}
  <2>1. Range(m) \subseteq Range(l) \ {r}
    BY <1>5, <1>7, <1>11, RangeOf
  <2>2. ASSUME NEW i \in 1 .. Len(l), l[i] # r PROVE l[i] \in Range(m)
    <3>1. down(i) \in 1 .. Len(m) /\ m[down(i)] = l[i]
      BY <1>7, <1>10, <1>11, <2>2
    <3> QED
      BY <1>5, <3>1, RangeOf
  <2> QED
    BY <2>1, <2>2, RangeOf
<1> QED
  BY <1>5, <1>7, <1>8, <1>9, <1>12, <1>13

-----------------------------------------------------------------------------
(* The steps.                                                              *)

(* Where the entry under way starts and how far it is.                     *)
LEMMA StartIs ==
  ASSUME OffsetInv, WriterInv
  PROVE  /\ start \in Offsets /\ begun \in Nat /\ begun < MaxLen
         /\ w_off = logger_offset(start + begun)
         /\ begun = 0 => start = w_off
         /\ mutex = NONE => begun = 0
         /\ mutex # NONE =>
              /\ mutex \in Writers /\ wr[mutex].pc \in {"fix", "header", "payload"}
              /\ wr[mutex].len \in Payloads
              /\ wr[mutex].pc # "payload" => begun = 0
              /\ wr[mutex].pc = "payload" =>
                   /\ begun = Header + wr[mutex].len - wr[mutex].left
                   /\ begun > 0 /\ wr[mutex].left \in 1 .. wr[mutex].len
<1>1. Size \in Nat /\ Size >= 2 * MaxLen /\ MaxLen \in Nat /\ MaxLen > Header /\ Header \in Nat
      /\ Header >= 2
  BY Sizes
<1>2. w_off \in Nat /\ w_off < Size
  BY <1>1 DEF OffsetInv, Offsets
<1>3. ASSUME mutex # NONE
      PROVE  /\ mutex \in Writers /\ wr[mutex].pc \in {"fix", "header", "payload"}
             /\ wr[mutex].len \in Payloads
             /\ wr[mutex].pc = "payload" => wr[mutex].left \in 1 .. wr[mutex].len
  BY <1>3 DEF WriterInv
<1>4. ASSUME mutex # NONE, wr[mutex].pc = "payload"
      PROVE  /\ begun = Header + wr[mutex].len - wr[mutex].left
             /\ begun \in Nat /\ begun > 0 /\ begun < MaxLen
  <2>1. /\ wr[mutex].len \in Nat /\ Header + wr[mutex].len <= MaxLen
        /\ wr[mutex].left \in Nat /\ 1 <= wr[mutex].left /\ wr[mutex].left <= wr[mutex].len
    BY <1>3, <1>4, Sizes
  <2>2. begun = Header + wr[mutex].len - wr[mutex].left
    BY <1>4 DEF begun
  <2> QED
    BY <1>1, <2>1, <2>2
<1>5. ~ (mutex # NONE /\ wr[mutex].pc = "payload") => begun = 0
  BY DEF begun
<1>6. begun \in Nat /\ begun < MaxLen
  BY <1>1, <1>4, <1>5
<1>7. w_off - begun \in (-Size) .. (2 * Size - 1)
  BY <1>1, <1>2, <1>6
<1>8. start = (IF w_off - begun < 0 THEN w_off - begun + Size ELSE w_off - begun)
      /\ start \in Offsets
  BY <1>1, <1>2, <1>6, <1>7, OffsetIs DEF start
<1>9. begun = 0 => start = w_off
  BY <1>2, <1>8
<1>10. start + begun \in (-Size) .. (2 * Size - 1)
  BY <1>1, <1>2, <1>6, <1>8
<1>11. logger_offset(start + begun) = w_off
  BY <1>1, <1>2, <1>6, <1>8, <1>10, OffsetIs
<1> QED
  BY <1>3, <1>4, <1>5, <1>6, <1>8, <1>9, <1>11

(* Steps that neither touch the log nor the offsets.                       *)
LEMMA LogKept ==
  ASSUME OffsetInv, LogInv, UNCHANGED <<logVars, readers, r_off, mutex>>,
         mutex # NONE => wr'[mutex] = wr[mutex]
  PROVE  OffsetInv' /\ LogInv'
<1>1. buffer' = buffer /\ w_off' = w_off /\ head' = head /\ whole' = whole
      /\ readers' = readers /\ r_off' = r_off /\ mutex' = mutex
  BY DEF logVars
<1>2. begun' = begun
  BY <1>1 DEF begun
<1>3. start' = start
  BY <1>1, <1>2 DEF start
<1>4. OffsetInv'
  BY <1>1 DEF OffsetInv
<1>5. mutex # NONE => wr'[mutex'] = wr[mutex]
  BY <1>1
<1>6. begun > 0 => mutex # NONE
  BY DEF begun
<1>7. LogInv'
  BY <1>1, <1>2, <1>3, <1>5, <1>6 DEF LogInv, Passed, fixed
<1> QED
  BY <1>4, <1>7

(* A write that begins touches nothing but its own record.                 *)
LEMMA WriteKept ==
  ASSUME IInv, NEW w \in Writers, logger_aio_write(w)
  PROVE  IInv'
<1>1. PICK len \in Payloads :
        wr' = [wr EXCEPT ![w] = [pc |-> "lock", orig |-> w_off, len |-> len, left |-> len,
                                 at |-> NONE]]
  BY DEF logger_aio_write
<1>2. wr[w].pc = "idle" /\ UNCHANGED <<logVars, readers, r_off, mutex, rd, sleeping>>
  BY DEF logger_aio_write
<1>3. mutex # w /\ wr \in [Writers -> WriteRecords] /\ w_off \in Offsets
  BY <1>2 DEF IInv, WriterInv, OffsetInv
<1>4. mutex # NONE => wr'[mutex] = wr[mutex]
  BY <1>1, <1>3 DEF IInv, WriterInv
<1>5. OffsetInv' /\ LogInv'
  BY <1>2, <1>4, LogKept DEF IInv
<1>6. ReaderInv'
  BY <1>2 DEF IInv, ReaderInv
<1>7. [pc |-> "lock", orig |-> w_off, len |-> len, left |-> len, at |-> NONE] \in WriteRecords
  BY <1>3, Sizes DEF WriteRecords
<1>8. WriterInv'
  <2>1. wr' \in [Writers -> WriteRecords]
    BY <1>1, <1>3, <1>7
  <2>2. mutex' = mutex /\ readers' = readers
    BY <1>2
  <2>3. wr'[w].pc = "lock" /\ wr'[w].len = len /\ wr'[w].left = len /\ wr'[w].at = NONE
    BY <1>1, <1>3
  <2>4. \A v \in Writers : v # w => wr'[v] = wr[v]
    BY <1>1, <1>3
  <2> QED
    BY <1>3, <2>1, <2>2, <2>3, <2>4 DEF IInv, WriterInv
<1> QED
  BY <1>5, <1>6, <1>8 DEF IInv

(* What a writer is when it is done.                                       *)
LEMMA IdleRecord ==
  OffsetInv => idle \in WriteRecords /\ idle.pc = "idle" /\ idle.at = NONE
<1> SUFFICES ASSUME OffsetInv PROVE idle \in WriteRecords /\ idle.pc = "idle" /\ idle.at = NONE
  OBVIOUS
<1>1. 0 \in Offsets
  BY Sizes DEF Offsets
<1> QED
  BY <1>1 DEF idle, WriteRecords

(* A writer that holds nothing becomes idle.                               *)
LEMMA BecomesIdle ==
  ASSUME OffsetInv, WriterInv, NEW w \in Writers, wr' = [wr EXCEPT ![w] = idle],
         readers' = readers,
         \/ mutex' = mutex /\ mutex # w
         \/ mutex' = NONE /\ mutex = w
  PROVE  WriterInv'
<1>1. idle \in WriteRecords /\ idle.pc = "idle" /\ idle.at = NONE
  BY IdleRecord
<1>2. wr \in [Writers -> WriteRecords] /\ mutex \in Writers \cup {NONE} /\ NONE \notin Writers
  BY LoggerAssumption DEF WriterInv
<1>3. wr' \in [Writers -> WriteRecords] /\ wr'[w] = idle
      /\ \A v \in Writers : v # w => wr'[v] = wr[v]
  BY <1>1, <1>2
<1>4. mutex' \in Writers \cup {NONE} /\ mutex' # w /\ \A v \in Writers : v # w => (mutex' = v <=> mutex = v)
  BY <1>2
<1> QED
  BY <1>1, <1>3, <1>4 DEF WriterInv

(* The wake-up after a write.                                              *)
LEMMA WakeKept ==
  ASSUME IInv, NEW w \in Writers, wake_up(w)
  PROVE  IInv'
<1>1. /\ wr[w].pc = "wake_up" /\ wr' = [wr EXCEPT ![w] = idle] /\ sleeping' = {}
      /\ rd' = [r \in Readers |-> IF rd[r] = "asleep" THEN "start" ELSE rd[r]]
      /\ UNCHANGED <<logVars, readers, r_off, mutex>>
  BY DEF wake_up
<1>2. mutex # w
  BY <1>1 DEF IInv, WriterInv
<1>3. mutex # NONE => wr'[mutex] = wr[mutex]
  BY <1>1, <1>2 DEF IInv, WriterInv
<1>4. OffsetInv' /\ LogInv'
  BY <1>1, <1>3, LogKept DEF IInv
<1>5. WriterInv'
  BY <1>1, <1>2, BecomesIdle DEF IInv
<1>6. ReaderInv'
  BY <1>1 DEF IInv, ReaderInv
<1> QED
  BY <1>4, <1>5, <1>6 DEF IInv

(* The steps of a reader that leave its offset alone.                      *)
LEMMA ReadKept ==
  ASSUME IInv, NEW r \in Readers,
         \/ logger_read(r) \/ prepare_to_wait(r) \/ lock_contended(r) \/ check_log(r)
         \/ read_gives_up(r) \/ schedule(r) \/ signal(r)
  PROVE  IInv'
<1>1. UNCHANGED <<logVars, readers, r_off, mutex, wr>>
  BY DEF logger_read, prepare_to_wait, lock_contended, check_log, read_gives_up, schedule, signal
<1>2. OffsetInv' /\ LogInv'
  BY <1>1, LogKept DEF IInv
<1>3. WriterInv'
  BY <1>1 DEF IInv, WriterInv
<1>4. ReaderInv
  BY DEF IInv
<1>5. /\ rd[r] # "closed" /\ sleeping' \subseteq sleeping \cup {r}
      /\ \A q \in Readers : q # r => (q \in sleeping => q \in sleeping')
      /\ \/ rd' = rd /\ rd[r] = "prepared"
         \/ \E pc \in {"idle", "start", "prepared", "empty", "found"} : goto(r, pc)
         \/ goto(r, "asleep") /\ r \in sleeping'
  <2>1. CASE logger_read(r)
    BY <2>1 DEF logger_read
  <2>2. CASE prepare_to_wait(r)
    BY <2>2 DEF prepare_to_wait
  <2>3. CASE lock_contended(r)
    BY <2>3 DEF lock_contended
  <2>4. CASE check_log(r)
    BY <2>4 DEF check_log
  <2>5. CASE read_gives_up(r)
    BY <2>5 DEF read_gives_up
  <2>6. CASE schedule(r)
    BY <2>6 DEF schedule
  <2>7. CASE signal(r)
    BY <2>7 DEF signal
  <2> QED
    BY <2>1, <2>2, <2>3, <2>4, <2>5, <2>6, <2>7
<1>6. ReaderInv'
  <2>1. readers' = readers
    BY <1>1
  <2>2. CASE rd' = rd /\ rd[r] = "prepared"
    BY <1>4, <1>5, <2>1, <2>2 DEF ReaderInv
  <2>3. ASSUME NEW pc \in {"idle", "start", "prepared", "empty", "found"}, goto(r, pc)
        PROVE  ReaderInv'
    BY <1>4, <1>5, <2>1, <2>3 DEF ReaderInv, goto
  <2>4. CASE goto(r, "asleep") /\ r \in sleeping'
    BY <1>4, <1>5, <2>1, <2>4 DEF ReaderInv, goto
  <2> QED
    BY <1>5, <2>2, <2>3, <2>4
<1> QED
  BY <1>2, <1>3, <1>6 DEF IInv

(* A reader's offset alone, or its place in the list, is changed while     *)
(* nobody writes.                                                          *)
LEMMA OffsetsMoved ==
  ASSUME OffsetInv, WriterInv, LogInv, mutex = NONE,
         UNCHANGED <<logVars, mutex>>, r_off' \in [Readers -> Offsets],
         \A r \in Range(readers') : Cover(whole, w_off, behind(w_off, r_off'[r]))
  PROVE  OffsetInv' /\ LogInv'
<1>1. buffer' = buffer /\ w_off' = w_off /\ head' = head /\ whole' = whole /\ mutex' = NONE
  BY DEF logVars
<1>2. OffsetInv'
  BY <1>1 DEF OffsetInv
<1>3. begun = 0 /\ begun' = 0
  BY <1>1 DEF begun
<1>4. start' = start
  BY <1>1, <1>3 DEF start
<1>5. start = w_off
  BY <1>3, StartIs
<1>6. LogInv'
  BY <1>1, <1>3, <1>4, <1>5 DEF LogInv
<1> QED
  BY <1>2, <1>6

(* logger_read takes one entry.                                            *)
LEMMA ReadEntryKept ==
  ASSUME IInv, NEW r \in Readers, read_entry(r)
  PROVE  IInv'
<1>1. /\ rd[r] = "found" /\ mutex = NONE
      /\ goto(r, "start") \/ goto(r, "idle")
      /\ \/ r_off' = r_off
         \/ w_off # r_off[r] /\ r_off' = [r_off EXCEPT ![r] = logger_offset(@ + get_entry_len(@))]
      /\ UNCHANGED <<logVars, readers, mutex, wr, sleeping>>
  BY DEF read_entry
<1>2. OffsetInv /\ ReaderInv /\ WriterInv /\ LogInv
  BY DEF IInv
<1>3. begun = 0 /\ start = w_off
  BY <1>1, <1>2, StartIs
<1>4. w_off \in Offsets /\ r_off \in [Readers -> Offsets]
  BY <1>2 DEF OffsetInv
<1>5. r \in Range(readers) /\ Range(readers) \subseteq Readers
  BY <1>1, <1>2, RangeOf DEF ReaderInv
<1>6. \A q \in Range(readers) : Cover(whole, w_off, behind(w_off, r_off[q]))
  BY <1>2, <1>3 DEF LogInv
<1>7. /\ r_off' \in [Readers -> Offsets]
      /\ \A q \in Range(readers') : Cover(whole, w_off, behind(w_off, r_off'[q]))
  <2>1. CASE r_off' = r_off
    BY <1>1, <1>4, <1>6, <2>1
  <2>2. CASE /\ w_off # r_off[r]
             /\ r_off' = [r_off EXCEPT ![r] = logger_offset(@ + get_entry_len(@))]
    <3> DEFINE nr == length_at(buffer, r_off[r])
               to == logger_offset(r_off[r] + nr)
    <3>1. Ring(buffer, whole, w_off, 0)
      BY <1>2, <1>3 DEF LogInv
    <3>2. r_off[r] \in Offsets /\ Cover(whole, w_off, behind(w_off, r_off[r]))
      BY <1>4, <1>5, <1>6
    <3>3. OneEntry(whole, w_off, r_off[r], nr)
      BY <1>4, <2>2, <3>1, <3>2, EntryAt
    <3>4. to \in Offsets /\ Cover(whole, w_off, behind(w_off, to))
      BY <3>3 DEF OneEntry
    <3>5. r_off' = [r_off EXCEPT ![r] = to]
      BY <2>2 DEF get_entry_len, length_at
    <3> HIDE DEF to
    <3> QED
      BY <1>1, <1>4, <1>5, <1>6, <3>4, <3>5
  <2> QED
    BY <1>1, <2>1, <2>2
<1>8. OffsetInv' /\ LogInv'
  BY <1>1, <1>2, <1>7, OffsetsMoved
<1>9. WriterInv'
  BY <1>1, <1>2 DEF WriterInv
<1>10. ReaderInv'
  BY <1>1, <1>2 DEF ReaderInv, goto
<1> QED
  BY <1>8, <1>9, <1>10 DEF IInv

(* A new reader starts at the head.                                        *)
LEMMA OpenKept ==
  ASSUME IInv, NEW r \in Readers, logger_open(r)
  PROVE  IInv'
<1>1. /\ rd[r] = "closed" /\ mutex = NONE /\ rd' = [rd EXCEPT ![r] = "idle"]
      /\ readers' = Append(readers, r) /\ r_off' = [r_off EXCEPT ![r] = head]
      /\ UNCHANGED <<logVars, mutex, wr, sleeping>>
  BY DEF logger_open, goto
<1>2. OffsetInv /\ ReaderInv /\ WriterInv /\ LogInv
  BY DEF IInv
<1>3. begun = 0 /\ start = w_off
  BY <1>1, <1>2, StartIs
<1>4. head \in Offsets /\ r_off \in [Readers -> Offsets]
  BY <1>2 DEF OffsetInv
<1>5. /\ readers \in Seq(Readers) /\ Distinct(readers) /\ r \notin Range(readers)
      /\ rd \in [Readers -> {"closed", "idle", "start", "prepared", "empty", "found", "asleep"}]
  BY <1>1, <1>2 DEF ReaderInv, Distinct
<1>6. /\ readers' \in Seq(Readers) /\ Distinct(readers')
      /\ Range(readers') = Range(readers) \cup {r} /\ Range(readers) \subseteq Readers
  BY <1>1, <1>5, Added, RangeOf
<1>7. r_off' \in [Readers -> Offsets] /\ \A q \in Range(readers') :
          Cover(whole, w_off, behind(w_off, r_off'[q]))
  BY <1>1, <1>2, <1>3, <1>4, <1>5, <1>6 DEF LogInv
<1>8. OffsetInv' /\ LogInv'
  BY <1>1, <1>2, <1>7, OffsetsMoved
<1>9. WriterInv'
  BY <1>1, <1>2, <1>6 DEF WriterInv
<1>10. ReaderInv'
  <2>1. \A q \in Readers : rd'[q] # "closed" <=> q \in Range(readers')
    BY <1>1, <1>2, <1>5, <1>6 DEF ReaderInv
  <2>2. \A q \in Readers : rd'[q] = "asleep" => q \in sleeping'
    BY <1>1, <1>2, <1>5 DEF ReaderInv
  <2>3. /\ rd' \in [Readers -> {"closed", "idle", "start", "prepared", "empty", "found", "asleep"}]
        /\ sleeping' \subseteq Readers
    BY <1>1, <1>2, <1>5 DEF ReaderInv
  <2> QED
    BY <1>6, <2>1, <2>2, <2>3 DEF ReaderInv, Distinct
<1> QED
  BY <1>8, <1>9, <1>10 DEF IInv

(* The flush takes everybody to w_off.                                     *)
LEMMA FlushKept ==
  ASSUME IInv, logger_flush
  PROVE  IInv'
<1>1. /\ mutex = NONE /\ head' = w_off /\ whole' = {}
      /\ r_off' = [r \in Readers |-> IF r \in Range(readers) THEN w_off ELSE r_off[r]]
      /\ UNCHANGED <<buffer, w_off, readers, mutex, wr, rd, sleeping>>
  BY DEF logger_flush
<1>2. OffsetInv /\ ReaderInv /\ WriterInv /\ LogInv
  BY DEF IInv
<1>3. OffsetInv'
  BY <1>1, <1>2 DEF OffsetInv
<1>4. ReaderInv'
  BY <1>1, <1>2 DEF ReaderInv
<1>5. WriterInv'
  BY <1>1, <1>2 DEF WriterInv
<1>6. begun' = 0 /\ start' = w_off /\ w_off \in Offsets /\ mutex' = NONE /\ readers' = readers
  <2>1. begun = 0 /\ start = w_off
    BY <1>1, <1>2, StartIs
  <2>2. begun' = 0
    BY <1>1 DEF begun
  <2> QED
    BY <1>1, <1>2, <2>1, <2>2 DEF start, OffsetInv
<1>7. Ring(buffer', whole', start', begun')
  BY <1>1 DEF Ring
<1>8. behind(w_off, w_off) = Size /\ Cover({}, w_off, Size)
  <2>1. behind(w_off, w_off) = Size
    BY <1>6, BehindIs
  <2>2. Size \in Nat /\ Size .. (Size - 1) = {}
    BY Sizes
  <2> QED
    BY <2>1, <2>2 DEF Cover
<1>9. \A r \in Range(readers') : r_off'[r] = w_off
  BY <1>1, <1>2, RangeOf DEF ReaderInv
<1>10. LogInv'
  BY <1>1, <1>6, <1>7, <1>8, <1>9 DEF LogInv
<1> QED
  BY <1>3, <1>4, <1>5, <1>10 DEF IInv

(* logger_release takes no mutex: it may come during a write.              *)
LEMMA ReleaseKept ==
  ASSUME IInv, NEW r \in Readers, logger_release(r), ~ damaged'
  PROVE  IInv'
<1>1. /\ rd[r] = "idle" /\ rd' = [rd EXCEPT ![r] = "closed"]
      /\ \A w \in Writers : wr[w].at # r
      /\ readers' = RemoveFirst(readers, r) /\ r_off' = [r_off EXCEPT ![r] = 0]
      /\ UNCHANGED <<buffer, w_off, head, whole, mutex, sleeping>>
  BY DEF logger_release, goto
<1>2. OffsetInv /\ ReaderInv /\ WriterInv /\ LogInv
  BY DEF IInv
<1>3. /\ readers \in Seq(Readers) /\ Distinct(readers) /\ r \in Range(readers)
      /\ rd \in [Readers -> {"closed", "idle", "start", "prepared", "empty", "found", "asleep"}]
      /\ r_off \in [Readers -> Offsets]
  BY <1>1, <1>2 DEF ReaderInv, Distinct, OffsetInv
<1>4. /\ readers' \in Seq(Readers) /\ Distinct(readers')
      /\ Range(readers') = Range(readers) \ {r}
      /\ \E up \in [1 .. Len(readers') -> 1 .. Len(readers)] :
           /\ \A i \in 1 .. Len(readers') : readers'[i] = readers[up[i]]
           /\ \A i, j \in 1 .. Len(readers') : i < j => up[i] < up[j]
  <2> DEFINE m == RemoveFirst(readers, r)
  <2>1. /\ m \in Seq(Readers) /\ Distinct(m) /\ Range(m) = Range(readers) \ {r}
        /\ \E up \in [1 .. Len(m) -> 1 .. Len(readers)] :
             /\ \A i \in 1 .. Len(m) : m[i] = readers[up[i]]
             /\ \A i, j \in 1 .. Len(m) : i < j => up[i] < up[j]
    BY <1>3, Removed
  <2>2. readers' = m
    BY <1>1
  <2> HIDE DEF m
  <2> QED
    BY <2>1, <2>2
<1>5. PICK up \in [1 .. Len(readers') -> 1 .. Len(readers)] :
           /\ \A i \in 1 .. Len(readers') : readers'[i] = readers[up[i]]
           /\ \A i, j \in 1 .. Len(readers') : i < j => up[i] < up[j]
  BY <1>4
<1>6. buffer' = buffer /\ w_off' = w_off /\ head' = head /\ whole' = whole /\ mutex' = mutex
      /\ wr' = wr /\ sleeping' = sleeping
  <2>1. wr' = [w \in Writers |-> wr[w]]
    BY <1>1 DEF logger_release
  <2>2. wr = [w \in Writers |-> wr[w]]
    BY <1>2 DEF WriterInv
  <2> QED
    BY <1>1, <2>1, <2>2
<1>7. OffsetInv'
  <2>1. 0 \in Offsets
    BY Sizes DEF Offsets
  <2> QED
    BY <1>1, <1>2, <1>6, <2>1 DEF OffsetInv
<1>8. ReaderInv'
  <2>1. \A q \in Readers : rd'[q] # "closed" <=> q \in Range(readers')
    BY <1>1, <1>2, <1>3, <1>4 DEF ReaderInv
  <2>2. \A q \in Readers : rd'[q] = "asleep" => q \in sleeping'
    BY <1>1, <1>2, <1>3 DEF ReaderInv
  <2>3. /\ rd' \in [Readers -> {"closed", "idle", "start", "prepared", "empty", "found", "asleep"}]
        /\ sleeping' \subseteq Readers
    BY <1>1, <1>2, <1>3 DEF ReaderInv
  <2> QED
    BY <1>4, <2>1, <2>2, <2>3 DEF ReaderInv, Distinct
<1>9. WriterInv'
  BY <1>1, <1>2, <1>4, <1>6 DEF WriterInv
<1>10. begun' = begun
  BY <1>6 DEF begun
<1>11. start' = start
  BY <1>6, <1>10 DEF start
<1>12. \A q \in Range(readers') : q \in Range(readers) /\ r_off'[q] = r_off[q]
  BY <1>1, <1>3, <1>4, RangeOf
<1>13. ASSUME mutex # NONE, NEW i \in 1 .. Len(readers'), fixed(i)'
       PROVE  Passed(r_off[readers'[i]])
  <2>1. up[i] \in 1 .. Len(readers) /\ readers'[i] = readers[up[i]]
    BY <1>5
  <2>2. fixed(up[i])
    <3>1. CASE wr[mutex].pc \in {"header", "payload"}
      BY <3>1 DEF fixed
    <3>2. CASE \E j \in (i + 1) .. Len(readers') : readers'[j] = wr[mutex].at
      <4>1. PICK j \in (i + 1) .. Len(readers') : readers'[j] = wr[mutex].at
        BY <3>2
      <4>2. j \in 1 .. Len(readers') /\ i < j
        BY <1>4, <4>1
      <4>3. up[j] \in 1 .. Len(readers) /\ up[i] < up[j] /\ readers[up[j]] = wr[mutex].at
        BY <1>5, <4>1, <4>2
      <4>4. up[j] \in (up[i] + 1) .. Len(readers)
        BY <1>3, <2>1, <4>3
      <4> QED
        BY <4>3, <4>4 DEF fixed
    <3> QED
      BY <1>6, <1>13, <3>1, <3>2 DEF fixed
  <2> QED
    BY <1>2, <1>13, <2>1, <2>2 DEF LogInv
<1>14. LogInv'
  <2>1. \A q \in Range(readers') : Cover(whole, start, behind(start, r_off'[q]))
    BY <1>2, <1>12 DEF LogInv
  <2>2. ASSUME mutex # NONE, NEW i \in 1 .. Len(readers'), fixed(i)'
        PROVE  Header + wr[mutex].len < behind(start, r_off'[readers'[i]])
    <3> DEFINE m == readers'
    <3>1. m[i] \in Range(m)
      <4>1. m \in Seq(Readers) /\ i \in 1 .. Len(m)
        BY <1>4
      <4> HIDE DEF m
      <4>2. Range(m) = {m[j] : j \in 1 .. Len(m)}
        BY <4>1, RangeOf
      <4> QED
        BY <4>1, <4>2
    <3> QED
      BY <1>12, <1>13, <2>2, <3>1 DEF Passed
  <2> QED
    BY <1>2, <1>6, <1>10, <1>11, <2>1, <2>2 DEF LogInv, Passed
<1> QED
  BY <1>7, <1>8, <1>9, <1>14 DEF IInv

(* What write_at does to the record of the writer.                         *)
LEMMA WriteAt ==
  ASSUME WriterInv, NEW w \in Writers, NEW r \in Readers \cup {NONE}, write_at(w, r)
  PROVE  /\ wr' \in [Writers -> WriteRecords]
         /\ wr'[w].pc = (IF r = NONE THEN "header" ELSE "fix") /\ wr'[w].at = r
         /\ wr'[w].len = wr[w].len /\ wr'[w].left = wr[w].left
         /\ \A v \in Writers : v # w => wr'[v] = wr[v]
<1>1. wr \in [Writers -> WriteRecords]
  BY DEF WriterInv
<1>2. wr' = [wr EXCEPT ![w].pc = IF r = NONE THEN "header" ELSE "fix", ![w].at = r]
  BY DEF write_at
<1> QED
  BY <1>1, <1>2 DEF WriteRecords

(* The writer goes on to r, or to the header behind the last reader.       *)
LEMMA WriterGoesOn ==
  ASSUME WriterInv, NEW w \in Writers, NEW r \in Readers \cup {NONE}, write_at(w, r),
         wr[w].pc \in {"lock", "fix"}, mutex' = w, mutex \in {NONE, w}, readers' = readers,
         r # NONE => r \in Range(readers), NONE \notin Readers
  PROVE  WriterInv'
<1>1. /\ wr' \in [Writers -> WriteRecords]
      /\ wr'[w].pc = (IF r = NONE THEN "header" ELSE "fix") /\ wr'[w].at = r
      /\ wr'[w].len = wr[w].len /\ wr'[w].left = wr[w].left
      /\ \A v \in Writers : v # w => wr'[v] = wr[v]
  BY WriteAt
<1>2. NONE \notin Writers
  BY LoggerAssumption
<1>3. \A v \in Writers : v # w => mutex # v /\ mutex' # v
  BY <1>2
<1> QED
  BY <1>1, <1>3 DEF WriterInv

(* fix_up_readers starts with the head.                                    *)
LEMMA FixUpHeadKept ==
  ASSUME IInv, NEW w \in Writers, fix_up_head(w)
  PROVE  IInv' /\ start' = start
<1> DEFINE first == IF readers = <<>> THEN NONE ELSE Head(readers)
           len == Header + wr[w].len
<1>1. /\ wr[w].pc = "lock" /\ mutex = NONE /\ mutex' = w /\ head' = fix_up(head, len)
      /\ write_at(w, first)
      /\ UNCHANGED <<buffer, w_off, whole, readers, r_off, rd, sleeping>>
  BY DEF fix_up_head
<1>2. OffsetInv /\ ReaderInv /\ WriterInv /\ LogInv
  BY DEF IInv
<1>3. begun = 0 /\ start = w_off /\ w_off \in Offsets /\ head \in Offsets
  BY <1>1, <1>2, StartIs DEF OffsetInv
<1>4. wr[w].len \in Payloads /\ NONE \notin Readers /\ NONE \notin Writers
      /\ readers \in Seq(Readers) /\ Distinct(readers)
  BY <1>1, <1>2, LoggerAssumption DEF WriterInv, ReaderInv, Distinct
<1>5. len \in 1 .. MaxLen
  BY <1>4, Sizes
<1>6. /\ fix_up(head, len) \in Offsets
      /\ len < behind(w_off, fix_up(head, len))
      /\ Cover(whole, w_off, behind(w_off, fix_up(head, len)))
      /\ \A f \in whole : dist(w_off, f.off) < behind(w_off, fix_up(head, len)) =>
                        \/ dist(w_off, f.off) < behind(w_off, head)
                        \/ dist(w_off, f.off) < 2 * MaxLen
  <2>1. Ring(buffer, whole, w_off, 0) /\ Cover(whole, w_off, behind(w_off, head))
    BY <1>2, <1>3 DEF LogInv
  <2> QED
    BY <1>2, <1>3, <1>5, <2>1, FixUp
<1> HIDE DEF len
<1>7. first \in Readers \cup {NONE} /\ (first # NONE => first \in Range(readers))
      /\ (first = NONE <=> Len(readers) = 0) /\ (first # NONE => first = readers[1])
  <2>1. CASE readers = <<>>
    BY <2>1
  <2>2. CASE readers # <<>>
    <3>1. Len(readers) \in Nat /\ Len(readers) > 0 /\ first = readers[1] /\ readers[1] \in Readers
      BY <1>4, <2>2
    <3>2. 1 \in 1 .. Len(readers)
      BY <3>1
    <3> QED
      BY <1>4, <3>1, <3>2, RangeOf
  <2> QED
    BY <2>1, <2>2
<1> HIDE DEF first
<1>8. /\ wr' \in [Writers -> WriteRecords]
      /\ wr'[w].pc = (IF first = NONE THEN "header" ELSE "fix") /\ wr'[w].at = first
      /\ wr'[w].len = wr[w].len /\ wr'[w].left = wr[w].left
      /\ \A v \in Writers : v # w => wr'[v] = wr[v]
  BY <1>1, <1>2, <1>7, WriteAt
<1>9. WriterInv'
  BY <1>1, <1>2, <1>4, <1>7, WriterGoesOn
<1>10. OffsetInv'
  BY <1>1, <1>2, <1>6 DEF OffsetInv
<1>11. ReaderInv'
  BY <1>1, <1>2 DEF ReaderInv
<1>12. begun' = 0
  BY <1>1, <1>8 DEF begun
<1>13. start' = w_off
  BY <1>1, <1>3, <1>12 DEF start
<1>14. \A i \in 1 .. Len(readers) : ~ fixed(i)'
  <2> SUFFICES ASSUME NEW i \in 1 .. Len(readers), fixed(i)' PROVE FALSE
    OBVIOUS
  <2>1. Len(readers) \in Nat /\ Len(readers) > 0
    BY <1>4
  <2>2. first # NONE
    BY <1>7, <2>1
  <2>3. PICK j \in (i + 1) .. Len(readers) : readers[j] = first
    BY <1>1, <1>8, <2>2 DEF fixed
  <2>4. j \in 1 .. Len(readers) /\ 1 \in 1 .. Len(readers) /\ j # 1
    BY <2>1
  <2> QED
    BY <1>4, <1>7, <2>2, <2>3, <2>4 DEF Distinct
<1>15. \A e \in whole : behind(w_off, fix_up(head, len)) <= dist(w_off, e.off)
                         \/ dist(w_off, e.off) < 2 * MaxLen
  <2> SUFFICES ASSUME NEW e \in whole, ~ (dist(w_off, e.off) < 2 * MaxLen)
               PROVE  behind(w_off, fix_up(head, len)) <= dist(w_off, e.off)
    OBVIOUS
  <2>1. Ring(buffer, whole, w_off, 0)
    BY <1>2, <1>3 DEF LogInv
  <2>2. dist(w_off, e.off) \in Nat /\ behind(w_off, head) \in Nat
        /\ behind(w_off, fix_up(head, len)) \in Nat
    BY <1>3, <1>6, <2>1, EntryFields, BehindIs
  <2>3. behind(w_off, head) <= dist(w_off, e.off)
    BY <1>2, <1>3 DEF LogInv
  <2>4. ~ (dist(w_off, e.off) < behind(w_off, fix_up(head, len)))
    BY <1>6, <2>2, <2>3
  <2> QED
    BY <2>2, <2>4
<1>16. LogInv'
  <2>1. buffer' = buffer /\ whole' = whole /\ readers' = readers /\ r_off' = r_off /\ mutex' = w
        /\ head' = fix_up(head, len)
    BY <1>1
  <2>2. Ring(buffer, whole, w_off, 0)
        /\ \A r \in Range(readers) : Cover(whole, w_off, behind(w_off, r_off[r]))
    BY <1>2, <1>3 DEF LogInv
  <2>3. Header + wr'[w].len = len
    BY <1>8 DEF len
  <2>4. \A i \in 1 .. Len(readers') : ~ fixed(i)'
    BY <1>14, <2>1
  <2> QED
    BY <1>6, <1>12, <1>13, <1>15, <2>1, <2>2, <2>3, <2>4 DEF LogInv, Passed
<1> QED
  BY <1>3, <1>9, <1>10, <1>11, <1>13, <1>16 DEF IInv

(* The list is walked position by position.                                *)
LEMMA NextReader ==
  ASSUME readers \in Seq(Readers), Distinct(readers), NEW p \in 1 .. Len(readers)
  PROVE  next_reader(readers[p]) = IF p = Len(readers) THEN NONE ELSE readers[p + 1]
<1>1. DOMAIN readers = 1 .. Len(readers)
  OBVIOUS
<1> DEFINE i == CHOOSE j \in DOMAIN readers : readers[j] = readers[p]
<1>2. i = p
  BY <1>1 DEF Distinct
<1>3. next_reader(readers[p]) = IF i = Len(readers) THEN NONE ELSE readers[i + 1]
  BY Zenon DEF next_reader
<1> HIDE DEF i
<1> QED
  BY <1>2, <1>3

(* One reader of the list is fixed up.                                     *)
LEMMA FixUpReaderKept ==
  ASSUME IInv, NEW w \in Writers, fix_up_reader(w)
  PROVE  IInv' /\ start' = start
<1> DEFINE len == Header + wr[w].len
           r == wr[w].at
           to == fix_up(r_off[r], len)
           next == next_reader(r)
<1>1. /\ wr[w].pc = "fix" /\ r \in Range(readers)
      /\ write_at(w, next) /\ UNCHANGED <<logVars, readers, mutex, rd, sleeping>>
  BY DEF fix_up_reader
<1>2. OffsetInv /\ ReaderInv /\ WriterInv /\ LogInv
  BY DEF IInv
<1>3. mutex = w /\ wr[w].len \in Payloads /\ NONE \notin Readers /\ NONE \notin Writers
      /\ readers \in Seq(Readers) /\ Distinct(readers) /\ r_off \in [Readers -> Offsets]
  BY <1>1, <1>2, LoggerAssumption DEF WriterInv, ReaderInv, Distinct, OffsetInv
<1>4. begun = 0 /\ start = w_off /\ w_off \in Offsets /\ mutex # NONE
  BY <1>1, <1>2, <1>3, StartIs DEF OffsetInv
<1>5. len \in 1 .. MaxLen
  BY <1>3, Sizes
<1>6. PICK p \in 1 .. Len(readers) : readers[p] = r
  BY <1>1, <1>3, RangeOf
<1>7. next = (IF p = Len(readers) THEN NONE ELSE readers[p + 1])
  BY <1>3, <1>6, NextReader
<1>8. r \in Readers /\ Len(readers) \in Nat
  BY <1>1, <1>3, RangeOf
<1>9. to \in Offsets /\ len < behind(w_off, to) /\ Cover(whole, w_off, behind(w_off, to))
  <2>1. Ring(buffer, whole, w_off, 0) /\ Cover(whole, w_off, behind(w_off, r_off[r]))
    BY <1>1, <1>2, <1>4 DEF LogInv
  <2>2. r_off[r] \in Offsets
    BY <1>3, <1>8
  <2> QED
    BY <1>2, <1>5, <2>1, <2>2, FixUp
<1>10. r_off' = [r_off EXCEPT ![r] = to]
  BY DEF fix_up_reader
<1> HIDE DEF len, to, next, r
<1>11. next \in Readers \cup {NONE} /\ (next # NONE => next \in Range(readers))
       /\ (next = NONE <=> p = Len(readers))
  <2>1. CASE p = Len(readers)
    BY <1>7, <2>1
  <2>2. CASE p # Len(readers)
    <3>1. p + 1 \in 1 .. Len(readers)
      BY <1>8, <2>2
    <3>2. readers[p + 1] \in Range(readers) /\ Range(readers) \subseteq Readers
      BY <1>3, <3>1, RangeOf
    <3> QED
      BY <1>3, <1>7, <2>2, <3>2
  <2> QED
    BY <2>1, <2>2
<1>12. /\ wr' \in [Writers -> WriteRecords]
       /\ wr'[w].pc = (IF next = NONE THEN "header" ELSE "fix") /\ wr'[w].at = next
       /\ wr'[w].len = wr[w].len /\ wr'[w].left = wr[w].left
       /\ \A v \in Writers : v # w => wr'[v] = wr[v]
  BY <1>1, <1>2, <1>11, WriteAt
<1>13. buffer' = buffer /\ w_off' = w_off /\ head' = head /\ whole' = whole /\ mutex' = w
       /\ readers' = readers /\ rd' = rd /\ sleeping' = sleeping
  BY <1>1, <1>3 DEF logVars
<1>14. WriterInv'
  BY <1>1, <1>2, <1>3, <1>11, <1>13, WriterGoesOn
<1>15. OffsetInv'
  BY <1>2, <1>3, <1>8, <1>9, <1>10, <1>13 DEF OffsetInv
<1>16. ReaderInv'
  BY <1>2, <1>13 DEF ReaderInv
<1>17. begun' = 0
  BY <1>12, <1>13 DEF begun
<1>18. start' = w_off
  BY <1>4, <1>13, <1>17 DEF start
<1>19. ASSUME NEW i \in 1 .. Len(readers), fixed(i)'
       PROVE  len < behind(w_off, r_off'[readers[i]])
  <2>1. i <= p
    <3>1. CASE p = Len(readers)
      BY <1>8, <3>1
    <3>2. CASE p # Len(readers)
      <4>1. PICK j \in (i + 1) .. Len(readers) : readers[j] = readers[p + 1]
        BY <1>7, <1>11, <1>12, <1>13, <1>19, <3>2 DEF fixed
      <4>2. j \in 1 .. Len(readers) /\ p + 1 \in 1 .. Len(readers)
        BY <1>8, <3>2
      <4>3. j = p + 1
        BY <1>3, <4>1, <4>2 DEF Distinct
      <4> QED
        BY <1>8, <4>1, <4>3
    <3> QED
      BY <3>1, <3>2
  <2>2. readers[i] \in Readers
    BY <1>3
  <2>3. CASE i = p
    BY <1>3, <1>6, <1>8, <1>9, <1>10, <2>3
  <2>4. CASE i # p
    <3>1. p \in (i + 1) .. Len(readers)
      BY <1>8, <2>1, <2>4
    <3>2. fixed(i)
      BY <1>3, <1>6, <3>1 DEF fixed, r
    <3>3. Passed(r_off[readers[i]])
      BY <1>2, <1>4, <3>2 DEF LogInv
    <3>4. readers[i] # r
      BY <1>3, <1>6, <2>4 DEF Distinct
    <3>5. r_off'[readers[i]] = r_off[readers[i]]
      BY <1>3, <1>10, <2>2, <3>4
    <3> QED
      BY <1>3, <1>4, <3>3, <3>5 DEF Passed, len
  <2> QED
    BY <2>3, <2>4
<1>20. \A q \in Range(readers) : Cover(whole, w_off, behind(w_off, r_off'[q]))
  <2> SUFFICES ASSUME NEW q \in Range(readers)
               PROVE  Cover(whole, w_off, behind(w_off, r_off'[q]))
    OBVIOUS
  <2>1. q \in Readers /\ Cover(whole, w_off, behind(w_off, r_off[q]))
    BY <1>2, <1>3, <1>4, RangeOf DEF LogInv
  <2>2. r_off'[q] = IF q = r THEN to ELSE r_off[q]
    BY <1>3, <1>10, <2>1
  <2> QED
    BY <1>9, <2>1, <2>2
<1>21. LogInv'
  <2>1. Header + wr'[w].len = len /\ Header + wr[mutex].len = len
    BY <1>3, <1>12 DEF len
  <2>2. Ring(buffer, whole, w_off, 0) /\ len < behind(w_off, head)
        /\ Cover(whole, w_off, behind(w_off, head))
        /\ \A e \in whole : behind(w_off, head) <= dist(w_off, e.off)
                            \/ dist(w_off, e.off) < 2 * MaxLen
    BY <1>2, <1>4, <2>1 DEF LogInv, Passed
  <2>3. \A i \in 1 .. Len(readers') : fixed(i)' => len < behind(w_off, r_off'[readers'[i]])
    BY <1>13, <1>19
  <2> QED
    BY <1>13, <1>17, <1>18, <1>20, <2>1, <2>2, <2>3 DEF LogInv, Passed
<1> QED
  BY <1>4, <1>14, <1>15, <1>16, <1>18, <1>21 DEF IInv

(* m bytes and then n more; and back again.                                *)
LEMMA OffsetsAdd ==
  ASSUME NEW s \in Offsets, NEW m \in Nat, NEW n \in Nat, m + n <= MaxLen
  PROVE  /\ logger_offset(logger_offset(s + m) + n) = logger_offset(s + (m + n))
         /\ logger_offset(logger_offset(s + m) - m) = s
<1> DEFINE at == logger_offset(s + m)
<1>1. Size \in Nat /\ MaxLen \in Nat /\ Size >= 2 * MaxLen /\ s \in Nat /\ s < Size
      /\ MaxLen > 0 /\ m + n < Size
  BY Sizes DEF Offsets
<1>2. s + m \in (-Size) .. (2 * Size - 1) /\ s + (m + n) \in (-Size) .. (2 * Size - 1)
  BY <1>1
<1>3. at = (IF s + m < Size THEN s + m ELSE s + m - Size) /\ at \in Offsets
      /\ logger_offset(s + (m + n)) =
           IF s + (m + n) < Size THEN s + (m + n) ELSE s + (m + n) - Size
  BY <1>1, <1>2, OffsetIs
<1> HIDE DEF at
<1>4. at \in Nat /\ at < Size
  BY <1>1, <1>3 DEF Offsets
<1>5. at + n \in (-Size) .. (2 * Size - 1) /\ at - m \in (-Size) .. (2 * Size - 1)
  BY <1>1, <1>4
<1>6. /\ logger_offset(at + n) = IF at + n < Size THEN at + n ELSE at + n - Size
      /\ logger_offset(at - m) = IF at - m < 0 THEN at - m + Size ELSE at - m
  BY <1>1, <1>4, <1>5, OffsetIs
<1>7. logger_offset(at + n) = logger_offset(s + (m + n))
  BY <1>1, <1>3, <1>4, <1>6
<1>8. logger_offset(at - m) = s
  BY <1>1, <1>3, <1>4, <1>6
<1> QED
  BY <1>7, <1>8 DEF at

(* do_write_log puts n bytes of f into the buffer.                         *)
Put(f, n) ==
  [o \in Offsets |-> IF dist(w_off, o) < n THEN f[dist(w_off, o) + 1] ELSE buffer[o]]

(* n more bytes of the entry under way: what was written of it stays, and  *)
(* so does everything that head and the readers have before them.          *)
LEMMA WriteBytes ==
  ASSUME IInv, NEW w \in Writers, mutex = w, wr[w].pc \in {"header", "payload"},
         NEW n \in Nat, begun + n <= Header + wr[w].len,
         NEW f, \A i \in 1 .. n : f[i] \in 0 .. (Base - 1)
  PROVE  /\ Put(f, n) \in [Offsets -> 0 .. (Base - 1)]
         /\ begun + n <= MaxLen
         /\ Ring(Put(f, n), untouched(n), start, begun + n)
         /\ untouched(n) \subseteq whole
         /\ begun + n < behind(start, head)
         /\ Cover(untouched(n), start, behind(start, head))
         /\ \A r \in Range(readers) : /\ begun + n < behind(start, r_off[r])
                                      /\ Cover(untouched(n), start, behind(start, r_off[r]))
         /\ \A o \in Offsets : dist(start, o) < begun => Put(f, n)[o] = buffer[o]
<1>1. OffsetInv /\ ReaderInv /\ WriterInv /\ LogInv
  BY DEF IInv
<1>2. /\ start \in Offsets /\ begun \in Nat /\ w_off = logger_offset(start + begun)
      /\ wr[w].len \in Payloads /\ w_off \in Offsets /\ mutex # NONE
      /\ buffer \in [Offsets -> 0 .. (Base - 1)] /\ head \in Offsets
      /\ readers \in Seq(Readers) /\ r_off \in [Readers -> Offsets]
  BY <1>1, StartIs, LoggerAssumption DEF OffsetInv, ReaderInv
<1>3. wr[w].len \in Nat /\ Header \in Nat /\ MaxLen \in Nat /\ Header + wr[w].len <= MaxLen
      /\ Size \in Nat
  BY <1>2, Sizes
<1>4. begun + n <= MaxLen
  BY <1>2, <1>3
<1>5. Put(f, n) \in [Offsets -> 0 .. (Base - 1)]
  <2> SUFFICES ASSUME NEW o \in Offsets
               PROVE  (IF dist(w_off, o) < n THEN f[dist(w_off, o) + 1] ELSE buffer[o])
                        \in 0 .. (Base - 1)
    BY DEF Put
  <2>1. dist(w_off, o) \in Nat
    BY <1>2, DistIs
  <2>2. CASE dist(w_off, o) < n
    <3>1. dist(w_off, o) + 1 \in 1 .. n
      BY <2>1, <2>2
    <3> QED
      BY <2>2, <3>1
  <2>3. CASE ~ (dist(w_off, o) < n)
    BY <1>2, <2>3
  <2> QED
    BY <2>2, <2>3
<1>6. Wrote(buffer, whole, start, begun, n, Put(f, n), untouched(n))
  <2>1. \A o \in Offsets : dist(w_off, o) >= n => Put(f, n)[o] = buffer[o]
    <3> SUFFICES ASSUME NEW o \in Offsets, dist(w_off, o) >= n PROVE Put(f, n)[o] = buffer[o]
      OBVIOUS
    <3>1. dist(w_off, o) \in Nat
      BY <1>2, DistIs
    <3>2. ~ (dist(w_off, o) < n)
      BY <3>1
    <3> QED
      BY <3>2 DEF Put
  <2> QED
    BY <1>2, <2>1 DEF Wrote, untouched
<1>7. Ring(buffer, whole, start, begun)
  BY <1>1 DEF LogInv
<1>8. /\ Ring(Put(f, n), untouched(n), start, begun + n)
      /\ untouched(n) = Beyond(whole, start, begun + n)
      /\ \A o \in Offsets : dist(start, o) < begun \/ begun + n <= dist(start, o) =>
                              Put(f, n)[o] = buffer[o]
  <2> DEFINE b == Put(f, n)
             u == untouched(n)
             k == begun
             s == start
  <2>1. k \in Nat /\ k + n <= MaxLen /\ Ring(buffer, whole, s, k)
        /\ Wrote(buffer, whole, s, k, n, b, u) /\ s \in Offsets
    BY <1>2, <1>4, <1>6, <1>7
  <2> HIDE DEF b, u, k, s
  <2>2. /\ Ring(b, u, s, k + n)
        /\ u = Beyond(whole, s, k + n)
        /\ \A o \in Offsets : dist(s, o) < k \/ k + n <= dist(s, o) => b[o] = buffer[o]
    <3>1. OthersKept(buffer, whole, s, k, n, b, u)
      BY <2>1, WriteKeepsRing
    <3> QED
      BY <3>1 DEF OthersKept
  <2> QED
    BY <2>2 DEF b, u, k, s
<1>9. ASSUME NEW off \in Offsets, Cover(whole, start, behind(start, off)), Passed(off)
      PROVE  /\ begun + n < behind(start, off)
             /\ Cover(untouched(n), start, behind(start, off))
  <2>1. behind(start, off) \in Nat
    <3>1. behind(start, off) \in 1 .. Size
      BY <1>2, BehindIs
    <3> QED
      BY <1>3, <3>1
  <2>2. begun + n < behind(start, off)
    <3>1. Header + wr[w].len < behind(start, off)
      BY <1>9 DEF Passed
    <3>2. begun + n \in Nat /\ Header + wr[w].len \in Nat
      BY <1>2, <1>3
    <3> QED
      BY <2>1, <3>1, <3>2
  <2>3. begun + n \in Nat /\ begun + n <= behind(start, off) /\ whole \subseteq Entries
    <3>1. begun + n \in Nat
      BY <1>2
    <3>2. whole \subseteq Entries
      BY <1>7 DEF Ring
    <3> QED
      BY <2>1, <2>2, <3>1, <3>2
  <2>4. Cover(Beyond(whole, start, begun + n), start, behind(start, off))
    BY <1>2, <1>9, <2>1, <2>3, CoverKept
  <2> QED
    BY <1>8, <2>2, <2>4
<1>10. begun + n < behind(start, head) /\ Cover(untouched(n), start, behind(start, head))
  BY <1>1, <1>2, <1>9 DEF LogInv
<1>11. ASSUME NEW r \in Range(readers)
       PROVE  /\ begun + n < behind(start, r_off[r])
              /\ Cover(untouched(n), start, behind(start, r_off[r]))
  <2>1. r \in Readers
    BY <1>2, RangeOf
  <2>2. PICK i \in 1 .. Len(readers) : readers[i] = r
    BY <1>2, RangeOf
  <2>3. fixed(i)
    BY DEF fixed
  <2>4. Passed(r_off[r]) /\ Cover(whole, start, behind(start, r_off[r]))
    BY <1>1, <1>2, <2>2, <2>3 DEF LogInv
  <2>5. r_off[r] \in Offsets
    BY <1>2, <2>1
  <2> QED
    BY <1>9, <2>4, <2>5
<1>12. untouched(n) \subseteq whole
  BY DEF untouched
<1> QED
  BY <1>4, <1>5, <1>8, <1>10, <1>11, <1>12

(* The first two bytes of an entry.                                        *)
LEMMA FirstBytes ==
  ASSUME NEW s \in Offsets
  PROVE  /\ dist(s, s) = 0 /\ logger_offset(s + 1) \in Offsets
         /\ dist(s, logger_offset(s + 1)) = 1
<1>1. Size \in Nat /\ Size >= 2
  BY Sizes
<1>2. dist(s, s) = 0
  BY <1>1, DistIs DEF Offsets
<1> QED
  BY <1>1, <1>2, SecondByte

(* Two bytes hold a length.                                                *)
LEMMA TwoBytes ==
  ASSUME NEW n \in Payloads
  PROVE  /\ n % Base \in 0 .. (Base - 1) /\ n \div Base \in 0 .. (Base - 1)
         /\ (n % Base) + Base * (n \div Base) = n
<1>1. Base \in Nat /\ Base >= 2 /\ n \in Nat /\ n <= Base * Base - 1
  BY LoggerAssumption
<1>2. /\ n % Base \in 0 .. (Base - 1) /\ n \div Base \in Int
      /\ n = Base * (n \div Base) + (n % Base)
  <2>1. n \div Base \in Int
    BY <1>1
  <2>2. n % Base \in 0 .. (Base - 1)
    BY <1>1
  <2>3. n = Base * (n \div Base) + (n % Base)
    BY <1>1
  <2> QED
    BY <2>1, <2>2, <2>3
<1> DEFINE q == n \div Base
           r == n % Base
<1>3. q \in Int /\ r \in Int /\ 0 <= r /\ r < Base /\ n = Base * q + r
  BY <1>1, <1>2
<1> HIDE DEF q, r
<1>4. 0 <= q
  <2> SUFFICES ASSUME q <= -1 PROVE FALSE
    BY <1>3
  <2>1. Base * q <= Base * (-1)
    BY <1>1, <1>3
  <2> QED
    BY <1>1, <1>3, <2>1
<1>5. q <= Base - 1
  <2> SUFFICES ASSUME q >= Base PROVE FALSE
    BY <1>1, <1>3
  <2>1. Base * q >= Base * Base
    BY <1>1, <1>3
  <2> QED
    BY <1>1, <1>3, <2>1
<1>6. r + Base * q = n
  BY <1>1, <1>3
<1> QED
  BY <1>1, <1>3, <1>4, <1>5, <1>6 DEF q, r

(* The header goes into the ring and the length with it.                   *)
LEMMA HeaderKept ==
  ASSUME IInv, NEW w \in Writers, write_header(w)
  PROVE  IInv' /\ start' = start
<1> DEFINE f == [i \in 1..Header |-> CASE i = 1 -> wr[w].len % Base
                                       [] i = 2 -> wr[w].len \div Base
                                       [] OTHER -> 0]
<1>1. /\ wr[w].pc = "header" /\ buffer' = Put(f, Header)
      /\ w_off' = logger_offset(w_off + Header) /\ whole' = untouched(Header)
      /\ wr' = [wr EXCEPT ![w].pc = "payload"]
      /\ UNCHANGED <<head, readers, r_off, mutex, rd, sleeping>>
  BY DEF write_header, do_write_log, Put
<1>2. OffsetInv /\ ReaderInv /\ WriterInv /\ LogInv
  BY DEF IInv
<1>3. mutex = w /\ wr[w].len \in Payloads /\ wr[w].left = wr[w].len /\ NONE \notin Writers
      /\ wr \in [Writers -> WriteRecords] /\ wr[w].at = NONE
  BY <1>1, <1>2, LoggerAssumption DEF WriterInv
<1>4. begun = 0 /\ start = w_off /\ w_off \in Offsets /\ mutex # NONE
  BY <1>1, <1>2, <1>3, StartIs DEF OffsetInv
<1>5. Header \in Nat /\ Header >= 2 /\ wr[w].len \in Nat /\ wr[w].len >= 1 /\ MaxLen \in Nat
      /\ Header + wr[w].len <= MaxLen
  BY <1>3, Sizes
<1>6. \A i \in 1 .. Header : f[i] \in 0 .. (Base - 1)
  <2>1. 0 \in 0 .. (Base - 1)
    BY LoggerAssumption
  <2>2. wr[w].len % Base \in 0 .. (Base - 1) /\ wr[w].len \div Base \in 0 .. (Base - 1)
    BY <1>3, TwoBytes
  <2> DEFINE low == wr[w].len % Base
             high == wr[w].len \div Base
  <2>3. \A i \in 1 .. Header : f[i] = CASE i = 1 -> low [] i = 2 -> high [] OTHER -> 0
    OBVIOUS
  <2>4. low \in 0 .. (Base - 1) /\ high \in 0 .. (Base - 1)
    BY <2>2
  <2> HIDE DEF f, low, high
  <2> QED
    BY <2>1, <2>3, <2>4
<1>7. f[1] = wr[w].len % Base /\ f[2] = wr[w].len \div Base
  <2>1. 1 \in 1 .. Header /\ 2 \in 1 .. Header
    BY <1>5
  <2> QED
    BY <2>1
<1> HIDE DEF f
<1>8. /\ Put(f, Header) \in [Offsets -> 0 .. (Base - 1)]
      /\ Ring(Put(f, Header), untouched(Header), w_off, Header)
      /\ untouched(Header) \subseteq whole
      /\ Cover(untouched(Header), w_off, behind(w_off, head))
      /\ \A r \in Range(readers) : Cover(untouched(Header), w_off, behind(w_off, r_off[r]))
  <2>1. begun + Header <= Header + wr[w].len /\ begun + Header = Header
    BY <1>4, <1>5
  <2> QED
    BY <1>1, <1>3, <1>4, <1>5, <1>6, <2>1, WriteBytes
<1>9. /\ wr' \in [Writers -> WriteRecords] /\ wr'[w].pc = "payload" /\ wr'[w].at = NONE
      /\ wr'[w].len = wr[w].len /\ wr'[w].left = wr[w].len
      /\ \A v \in Writers : v # w => wr'[v] = wr[v]
  BY <1>1, <1>3 DEF WriteRecords
<1>10. WriterInv'
  <2>1. wr'[w].left \in 1 .. wr'[w].len
    BY <1>5, <1>9
  <2>2. mutex' = w /\ readers' = readers
    BY <1>1, <1>3
  <2> QED
    BY <1>2, <1>3, <1>9, <2>1, <2>2 DEF WriterInv
<1>11. ReaderInv'
  BY <1>1, <1>2 DEF ReaderInv
<1>12. w_off' \in Offsets /\ logger_offset(w_off' - Header) = w_off
  <2>1. Header + 0 <= MaxLen /\ Header <= MaxLen
    BY <1>5
  <2> QED
    BY <1>1, <1>4, <1>5, <2>1, OffsetsAdd, DistAfter
<1>13. OffsetInv'
  BY <1>1, <1>2, <1>8, <1>12 DEF OffsetInv
<1>14. begun' = Header
  <2>1. begun' = Header + wr[w].len - wr[w].len
    BY <1>1, <1>3, <1>4, <1>9 DEF begun
  <2> QED
    BY <1>5, <2>1
<1>15. start' = w_off
  BY <1>12, <1>14 DEF start
<1>16. length_at(buffer', w_off) = Header + wr[w].len
  <2>1. dist(w_off, w_off) = 0 /\ logger_offset(w_off + 1) \in Offsets
        /\ dist(w_off, logger_offset(w_off + 1)) = 1
    BY <1>4, FirstBytes
  <2>2. buffer'[w_off] = f[1] /\ buffer'[logger_offset(w_off + 1)] = f[2]
    BY <1>1, <1>4, <1>5, <2>1 DEF Put
  <2>3. (wr[w].len % Base) + Base * (wr[w].len \div Base) = wr[w].len
        /\ wr[w].len % Base \in 0 .. (Base - 1) /\ wr[w].len \div Base \in 0 .. (Base - 1)
    BY <1>3, TwoBytes
  <2> DEFINE low == wr[w].len % Base
             high == Base * (wr[w].len \div Base)
  <2>4. length_at(buffer', w_off) = Header + low + high
    BY <1>7, <2>2 DEF length_at
  <2>5. low \in Int /\ high \in Int /\ low + high = wr[w].len
    BY <2>3, LoggerAssumption
  <2> HIDE DEF low, high
  <2> QED
    BY <1>5, <2>4, <2>5
<1>17. LogInv'
  <2>1. head' = head /\ readers' = readers /\ r_off' = r_off /\ mutex' = w
        /\ buffer' = Put(f, Header) /\ whole' = untouched(Header)
    BY <1>1, <1>3
  <2>2. \A e \in whole' : behind(w_off, head) <= dist(w_off, e.off)
                          \/ dist(w_off, e.off) < 2 * MaxLen
    BY <1>2, <1>4, <1>8, <2>1 DEF LogInv
  <2>3. Header + wr'[w].len < behind(w_off, head)
        /\ \A i \in 1 .. Len(readers) : Header + wr'[w].len < behind(w_off, r_off[readers[i]])
    BY <1>1, <1>2, <1>3, <1>4, <1>9 DEF LogInv, Passed, fixed
  <2> QED
    BY <1>8, <1>9, <1>14, <1>15, <1>16, <2>1, <2>2, <2>3 DEF LogInv, Passed
<1> QED
  BY <1>4, <1>10, <1>11, <1>13, <1>15, <1>17 DEF IInv

(* What a segment of n bytes finds.                                        *)
LEMMA InPayload ==
  ASSUME IInv, NEW w \in Writers, wr[w].pc = "payload", NEW n \in 1 .. wr[w].left
  PROVE  /\ mutex = w /\ mutex # NONE /\ wr \in [Writers -> WriteRecords]
         /\ wr[w].len \in Payloads /\ wr[w].at = NONE /\ NONE \notin Writers
         /\ wr[w].len \in Nat /\ wr[w].left \in Nat /\ n \in Nat /\ 1 <= n
         /\ n <= wr[w].left /\ wr[w].left <= wr[w].len
         /\ Header \in Nat /\ 2 <= Header /\ MaxLen \in Nat /\ Header + wr[w].len <= MaxLen
         /\ begun = Header + wr[w].len - wr[w].left /\ begun \in Nat /\ Header <= begun
         /\ begun + n <= Header + wr[w].len
         /\ start \in Offsets /\ w_off = logger_offset(start + begun) /\ w_off \in Offsets
         /\ length_at(buffer, start) = Header + wr[w].len
<1>1. OffsetInv /\ ReaderInv /\ WriterInv /\ LogInv
  BY DEF IInv
<1>2. /\ mutex = w /\ mutex # NONE /\ wr \in [Writers -> WriteRecords]
      /\ wr[w].len \in Payloads /\ wr[w].at = NONE /\ NONE \notin Writers
      /\ wr[w].left \in 1 .. wr[w].len
  BY <1>1, LoggerAssumption DEF WriterInv
<1>3. /\ wr[w].len \in Nat /\ wr[w].left \in Nat /\ n \in Nat /\ 1 <= n
      /\ n <= wr[w].left /\ wr[w].left <= wr[w].len
      /\ Header \in Nat /\ 2 <= Header /\ MaxLen \in Nat /\ Header + wr[w].len <= MaxLen
  BY <1>2, Sizes
<1>4. /\ begun = Header + wr[w].len - wr[w].left /\ begun > 0
      /\ start \in Offsets /\ w_off = logger_offset(start + begun) /\ w_off \in Offsets
  BY <1>1, <1>2, StartIs DEF OffsetInv
<1>5. length_at(buffer, start) = Header + wr[w].len
  BY <1>1, <1>2, <1>4 DEF LogInv
<1> QED
  BY <1>2, <1>3, <1>4, <1>5

(* A segment leaves the header of its entry alone.                         *)
LEMMA LengthKept ==
  ASSUME NEW buf, NEW buf2, NEW s \in Offsets, NEW m \in Nat, 2 <= m,
         \A o \in Offsets : dist(s, o) < m => buf2[o] = buf[o]
  PROVE  length_at(buf2, s) = length_at(buf, s)
<1>1. dist(s, s) = 0 /\ logger_offset(s + 1) \in Offsets /\ dist(s, logger_offset(s + 1)) = 1
  BY FirstBytes
<1>2. buf2[s] = buf[s] /\ buf2[logger_offset(s + 1)] = buf[logger_offset(s + 1)]
  BY <1>1
<1> QED
  BY <1>2 DEF length_at

(* A segment that is not the last.                                         *)
LEMMA SegmentKept ==
  ASSUME IInv, NEW w \in Writers, wr[w].pc = "payload", NEW n \in 1 .. wr[w].left,
         n < wr[w].left, NEW f, \A i \in 1 .. n : f[i] \in 0 .. (Base - 1),
         buffer' = Put(f, n), w_off' = logger_offset(w_off + n), whole' = untouched(n),
         wr' = [wr EXCEPT ![w].left = @ - n],
         UNCHANGED <<mutex, head, readers, r_off, rd, sleeping>>
  PROVE  IInv' /\ start' = start
<1>1. OffsetInv /\ ReaderInv /\ WriterInv /\ LogInv
  BY DEF IInv
<1>2. /\ mutex = w /\ mutex # NONE /\ wr \in [Writers -> WriteRecords]
      /\ wr[w].len \in Payloads /\ wr[w].at = NONE /\ NONE \notin Writers
      /\ wr[w].len \in Nat /\ wr[w].left \in Nat /\ n \in Nat /\ 1 <= n
      /\ n <= wr[w].left /\ wr[w].left <= wr[w].len
      /\ Header \in Nat /\ 2 <= Header /\ MaxLen \in Nat /\ Header + wr[w].len <= MaxLen
      /\ begun = Header + wr[w].len - wr[w].left /\ begun \in Nat /\ Header <= begun
      /\ begun + n <= Header + wr[w].len
      /\ start \in Offsets /\ w_off = logger_offset(start + begun) /\ w_off \in Offsets
      /\ length_at(buffer, start) = Header + wr[w].len
  BY InPayload
<1>3. /\ Put(f, n) \in [Offsets -> 0 .. (Base - 1)]
      /\ begun + n <= MaxLen
      /\ Ring(Put(f, n), untouched(n), start, begun + n)
      /\ untouched(n) \subseteq whole
      /\ Cover(untouched(n), start, behind(start, head))
      /\ \A r \in Range(readers) : Cover(untouched(n), start, behind(start, r_off[r]))
      /\ \A o \in Offsets : dist(start, o) < begun => Put(f, n)[o] = buffer[o]
  BY <1>2, WriteBytes
<1>4. /\ wr' \in [Writers -> WriteRecords] /\ wr'[w].pc = "payload" /\ wr'[w].at = NONE
      /\ wr'[w].len = wr[w].len /\ wr'[w].left = wr[w].left - n
      /\ \A v \in Writers : v # w => wr'[v] = wr[v]
  <2>1. wr[w].left - n \in Nat
    BY <1>2
  <2>2. wr[w] \in WriteRecords
    BY <1>2
  <2>3. wr'[w] = [wr[w] EXCEPT !.left = wr[w].left - n]
    BY <1>2
  <2>4. [wr[w] EXCEPT !.left = wr[w].left - n] \in WriteRecords
    BY <2>1, <2>2 DEF WriteRecords
  <2>5. wr' \in [Writers -> WriteRecords]
    BY <1>2, <2>3, <2>4
  <2>6. wr'[w].pc = "payload" /\ wr'[w].at = NONE
        /\ wr'[w].len = wr[w].len /\ wr'[w].left = wr[w].left - n
    BY <1>2, <2>2, <2>3 DEF WriteRecords
  <2> QED
    BY <1>2, <2>5, <2>6
<1>5. mutex' = w /\ readers' = readers /\ head' = head /\ r_off' = r_off
  BY <1>2
<1>6. WriterInv'
  <2>1. wr'[w].left \in 1 .. wr'[w].len
    BY <1>2, <1>4
  <2> QED
    BY <1>1, <1>2, <1>4, <1>5, <2>1 DEF WriterInv
<1>7. ReaderInv'
  BY <1>1 DEF ReaderInv
<1>8. w_off' = logger_offset(start + (begun + n)) /\ w_off' \in Offsets
      /\ logger_offset(w_off' - (begun + n)) = start
  <2> DEFINE k == begun + n
  <2>1. w_off' = logger_offset(start + k)
    BY <1>2, <1>3, OffsetsAdd
  <2>2. k \in Nat /\ k <= MaxLen /\ k + 0 <= MaxLen
    BY <1>2, <1>3
  <2> HIDE DEF k
  <2>3. logger_offset(start + k) \in Offsets /\ logger_offset(logger_offset(start + k) - k) = start
    BY <1>2, <2>2, OffsetsAdd, DistAfter
  <2> QED
    BY <2>1, <2>3 DEF k
<1>9. OffsetInv'
  BY <1>1, <1>3, <1>5, <1>8 DEF OffsetInv
<1>10. begun' = begun + n
  <2>1. begun' = Header + wr[w].len - (wr[w].left - n)
    BY <1>2, <1>4, <1>5 DEF begun
  <2> QED
    BY <1>2, <2>1
<1>11. start' = start
  BY <1>8, <1>10 DEF start
<1>12. length_at(buffer', start) = Header + wr[w].len
  <2>1. 2 <= begun
    BY <1>2
  <2> QED
    BY <1>2, <1>3, <2>1, LengthKept
<1>13. LogInv'
  <2>1. \A e \in whole' : behind(start, head) <= dist(start, e.off)
                          \/ dist(start, e.off) < 2 * MaxLen
    BY <1>1, <1>3 DEF LogInv
  <2>2. Header + wr'[w].len < behind(start, head)
        /\ \A i \in 1 .. Len(readers) : Header + wr'[w].len < behind(start, r_off[readers[i]])
    BY <1>1, <1>2, <1>4 DEF LogInv, Passed, fixed
  <2> QED
    BY <1>3, <1>4, <1>5, <1>10, <1>11, <1>12, <2>1, <2>2 DEF LogInv, Passed
<1> QED
  BY <1>6, <1>7, <1>9, <1>11, <1>13 DEF IInv

(* The last segment: the entry is whole and the log ends behind it.        *)
LEMMA LastSegmentKept ==
  ASSUME IInv, NEW w \in Writers, wr[w].pc = "payload", NEW n \in 1 .. wr[w].left,
         n = wr[w].left, NEW f, \A i \in 1 .. n : f[i] \in 0 .. (Base - 1),
         buffer' = Put(f, n), w_off' = logger_offset(w_off + n),
         whole' = untouched(n) \cup {[off |-> logger_offset(w_off + n - (Header + wr[w].len)),
                                      len |-> Header + wr[w].len]},
         wr' = [wr EXCEPT ![w].pc = "wake_up"], mutex' = NONE,
         UNCHANGED <<head, readers, r_off, rd, sleeping>>
  PROVE  IInv'
<1> DEFINE t == Header + wr[w].len
           u == untouched(n)
<1>1. OffsetInv /\ ReaderInv /\ WriterInv /\ LogInv
  BY DEF IInv
<1>2. /\ mutex = w /\ mutex # NONE /\ wr \in [Writers -> WriteRecords]
      /\ wr[w].len \in Payloads /\ wr[w].at = NONE /\ NONE \notin Writers
      /\ wr[w].len \in Nat /\ wr[w].left \in Nat /\ n \in Nat /\ 1 <= n
      /\ n <= wr[w].left /\ wr[w].left <= wr[w].len
      /\ Header \in Nat /\ 2 <= Header /\ MaxLen \in Nat /\ Header + wr[w].len <= MaxLen
      /\ begun = Header + wr[w].len - wr[w].left /\ begun \in Nat /\ Header <= begun
      /\ begun + n <= Header + wr[w].len
      /\ start \in Offsets /\ w_off = logger_offset(start + begun) /\ w_off \in Offsets
      /\ length_at(buffer, start) = Header + wr[w].len
  BY InPayload
<1>3. /\ Put(f, n) \in [Offsets -> 0 .. (Base - 1)]
      /\ begun + n <= MaxLen
      /\ Ring(Put(f, n), u, start, begun + n)
      /\ u \subseteq whole
      /\ begun + n < behind(start, head)
      /\ Cover(u, start, behind(start, head))
      /\ \A r \in Range(readers) : /\ begun + n < behind(start, r_off[r])
                                   /\ Cover(u, start, behind(start, r_off[r]))
      /\ \A o \in Offsets : dist(start, o) < begun => Put(f, n)[o] = buffer[o]
  BY <1>2, WriteBytes
<1>4. begun + n = t /\ t \in 2 .. MaxLen /\ t \in Nat /\ w_off + n - t = w_off - begun
  <2>1. w_off \in Int
    BY <1>2, Sizes DEF Offsets
  <2> QED
    BY <1>2, <2>1
<1>5. w_off' = logger_offset(start + t)
  BY <1>2, <1>3, <1>4, OffsetsAdd
<1>6. length_at(buffer', start) = t
  <2>1. 2 <= begun
    BY <1>2
  <2> QED
    BY <1>2, <1>3, <2>1, LengthKept
<1>7. whole' = u \cup {[off |-> start, len |-> t]}
  BY <1>4 DEF start
<1> HIDE DEF t, u
<1>8. Ring(buffer', u, start, t)
  BY <1>3, <1>4
<1>9. /\ w_off' \in Offsets
      /\ Ring(buffer', whole', w_off', 0)
      /\ \A e \in whole' : e.off # start => dist(w_off', e.off) = dist(start, e.off) - t
      /\ \A off \in Offsets :
           t < behind(start, off) => behind(w_off', off) = behind(start, off) - t
      /\ \A q \in Nat : t <= q /\ q <= Size /\ Cover(u, start, q) => Cover(whole', w_off', q - t)
  <2>1. SeenFromEnd(buffer', u, start, t, u \cup {[off |-> start, len |-> t]},
                    logger_offset(start + t))
    BY <1>2, <1>4, <1>6, <1>8, EntryEnds
  <2> QED
    BY <1>5, <1>7, <2>1 DEF SeenFromEnd
<1>10. Size \in Nat /\ head \in Offsets /\ r_off \in [Readers -> Offsets]
       /\ readers \in Seq(Readers)
  BY <1>1, Sizes DEF OffsetInv, ReaderInv
<1>11. ASSUME NEW off \in Offsets, t < behind(start, off), Cover(u, start, behind(start, off))
       PROVE  Cover(whole', w_off', behind(w_off', off))
  <2>1. behind(start, off) \in Nat /\ behind(start, off) <= Size
    BY <1>2, <1>10, BehindIs
  <2>2. t <= behind(start, off)
    BY <1>4, <1>11, <2>1
  <2>3. Cover(whole', w_off', behind(start, off) - t)
    BY <1>9, <1>11, <2>1, <2>2
  <2> QED
    BY <1>9, <1>11, <2>3
<1>12. Cover(whole', w_off', behind(w_off', head))
  BY <1>3, <1>4, <1>10, <1>11
<1>13. \A r \in Range(readers) : Cover(whole', w_off', behind(w_off', r_off[r]))
  BY <1>3, <1>4, <1>10, <1>11, RangeOf
<1>14. ASSUME NEW e \in whole'
       PROVE  behind(w_off', head) <= dist(w_off', e.off) \/ dist(w_off', e.off) < 2 * MaxLen
  <2>1. behind(start, head) \in Nat /\ behind(start, head) <= Size
        /\ behind(w_off', head) = behind(start, head) - t
    BY <1>2, <1>3, <1>4, <1>9, <1>10, BehindIs
  <2>2. CASE e.off = start
    <3>1. dist(start, start) = 0
      BY <1>2, FirstBytes
    <3>2. t <= MaxLen /\ 0 < t
      BY <1>4
    <3>3. dist(w_off', start) = Size - t
      BY <1>2, <1>4, <1>5, <1>10, <3>1, <3>2, DistAfter
    <3> QED
      BY <1>4, <1>10, <2>1, <2>2, <3>3
  <2>3. CASE e.off # start
    <3>1. e \in u
      BY <1>7, <2>3
    <3>2. dist(w_off', e.off) = dist(start, e.off) - t
      BY <1>9, <2>3
    <3>3. behind(start, head) <= dist(start, e.off) \/ dist(start, e.off) < 2 * MaxLen
      BY <1>1, <1>3, <3>1 DEF LogInv
    <3>4. dist(start, e.off) \in Nat
      BY <1>2, <1>8, <3>1, EntryFields
    <3> QED
      BY <1>2, <1>4, <2>1, <3>2, <3>3, <3>4
  <2> QED
    BY <2>2, <2>3
<1>15. begun' = 0
  BY DEF begun
<1>16. start' = w_off'
  <2>1. w_off' \in Nat /\ w_off' < Size /\ w_off' - 0 = w_off'
    BY <1>9, <1>10 DEF Offsets
  <2>2. w_off' \in (-Size) .. (2 * Size - 1)
    BY <1>10, <2>1
  <2>3. logger_offset(w_off') = w_off'
    BY <2>1, <2>2, OffsetIs
  <2> QED
    BY <1>15, <2>1, <2>3 DEF start
<1>17. LogInv'
  <2>1. head' = head /\ readers' = readers /\ r_off' = r_off /\ ~ (begun' > 0)
    BY <1>15
  <2> QED
    BY <1>9, <1>12, <1>13, <1>14, <1>15, <1>16, <2>1 DEF LogInv
<1>18. OffsetInv'
  BY <1>1, <1>3, <1>9 DEF OffsetInv
<1>19. ReaderInv'
  BY <1>1 DEF ReaderInv
<1>20. WriterInv'
  <2>1. /\ wr' \in [Writers -> WriteRecords] /\ wr'[w].pc = "wake_up" /\ wr'[w].at = NONE
        /\ \A v \in Writers : v # w => wr'[v] = wr[v]
    BY <1>2 DEF WriteRecords
  <2> QED
    BY <1>1, <1>2, <2>1 DEF WriterInv
<1> QED
  BY <1>17, <1>18, <1>19, <1>20 DEF IInv

(* The segments of a payload.                                              *)
LEMMA PayloadKept ==
  ASSUME IInv, NEW w \in Writers, do_write_log_from_user(w)
  PROVE  IInv' /\ (wr'[w].pc # "wake_up" => start' = start /\ wr'[w].orig = wr[w].orig)
<1>0. wr \in [Writers -> WriteRecords]
  BY DEF IInv, WriterInv
<1>1. wr[w].pc = "payload" /\ UNCHANGED <<head, readers, r_off, rd, sleeping>>
  BY DEF do_write_log_from_user
<1>2. PICK n \in 1..wr[w].left, b \in Bytes :
       /\ do_write_log([i \in 1..n |-> b], n)
       /\ \/ /\ n < wr[w].left
             /\ wr' = [wr EXCEPT ![w].left = @ - n]
             /\ whole' = untouched(n)
             /\ UNCHANGED mutex
          \/ /\ n = wr[w].left
             /\ wr' = [wr EXCEPT ![w].pc = "wake_up"]
             /\ LET len == Header + wr[w].len
                IN  whole' = untouched(n) \cup {[off |-> logger_offset(w_off + n - len), len |-> len]}
             /\ mutex' = NONE
  BY DEF do_write_log_from_user
<1> DEFINE f == [i \in 1..n |-> b]
<1>3. \A i \in 1 .. n : f[i] \in 0 .. (Base - 1)
  BY LoggerAssumption
<1>4. buffer' = Put(f, n) /\ w_off' = logger_offset(w_off + n)
  BY <1>2 DEF do_write_log, Put
<1> HIDE DEF f
<1>5. CASE /\ n < wr[w].left
           /\ wr' = [wr EXCEPT ![w].left = @ - n]
           /\ whole' = untouched(n)
           /\ UNCHANGED mutex
  <2>1. IInv' /\ start' = start
    BY <1>1, <1>3, <1>4, <1>5, SegmentKept
  <2>2. wr'[w].orig = wr[w].orig
    BY <1>0, <1>5 DEF WriteRecords
  <2> QED
    BY <2>1, <2>2
<1>6. CASE /\ n = wr[w].left
           /\ wr' = [wr EXCEPT ![w].pc = "wake_up"]
           /\ LET len == Header + wr[w].len
              IN  whole' = untouched(n) \cup {[off |-> logger_offset(w_off + n - len), len |-> len]}
           /\ mutex' = NONE
  <2>1. IInv'
    BY <1>1, <1>3, <1>4, <1>6, LastSegmentKept
  <2>2. wr'[w].pc = "wake_up"
    BY <1>0, <1>6 DEF WriteRecords
  <2> QED
    BY <2>1, <2>2
<1> QED
  BY <1>2, <1>5, <1>6

(* A write that fails gives its place back.                                *)
LEMMA FaultKept ==
  ASSUME IInv, NEW w \in Writers, write_fault(w), wr[w].orig = start
  PROVE  IInv'
<1>1. /\ wr[w].pc = "payload" /\ w_off' = wr[w].orig /\ mutex' = NONE
      /\ wr' = [wr EXCEPT ![w] = idle] /\ UNCHANGED <<head, readers, r_off, rd, sleeping>>
  BY DEF write_fault
<1>2. PICK n \in 1..wr[w].left : \E f \in [1..n -> Bytes] :
        buffer' = Put(f, n) /\ whole' = untouched(n)
  BY DEF write_fault, Put
<1>3. PICK f \in [1..n -> Bytes] : buffer' = Put(f, n) /\ whole' = untouched(n)
  BY <1>2
<1>4. OffsetInv /\ ReaderInv /\ WriterInv /\ LogInv
  BY DEF IInv
<1>5. /\ mutex = w /\ n \in Nat /\ begun \in Nat /\ begun + n <= Header + wr[w].len
      /\ start \in Offsets
  BY <1>1, InPayload
<1>6. \A i \in 1 .. n : f[i] \in 0 .. (Base - 1)
  BY LoggerAssumption
<1>7. /\ buffer' \in [Offsets -> 0 .. (Base - 1)]
      /\ Ring(buffer', whole', start, begun + n)
      /\ whole' \subseteq whole
      /\ Cover(whole', start, behind(start, head))
      /\ \A r \in Range(readers) : Cover(whole', start, behind(start, r_off[r]))
  BY <1>1, <1>3, <1>5, <1>6, WriteBytes
<1>8. Ring(buffer', whole', start, 0)
  <2>1. \A e \in whole' : 0 <= dist(start, e.off)
    BY <1>5, <1>7, EntryFields
  <2> QED
    BY <1>7, <2>1 DEF Ring
<1>9. begun' = 0
  BY <1>1 DEF begun
<1>10. start' = start
  <2>1. w_off' \in Nat /\ w_off' < Size /\ w_off' - 0 = w_off' /\ w_off' = start /\ Size \in Nat
    BY <1>1, <1>5, Sizes DEF Offsets
  <2>2. w_off' \in (-Size) .. (2 * Size - 1)
    BY <2>1
  <2>3. logger_offset(w_off') = w_off'
    BY <2>1, <2>2, OffsetIs
  <2>4. start' = logger_offset(w_off' - begun')
    BY DEF start
  <2>5. start' = w_off'
    BY <1>9, <2>1, <2>3, <2>4
  <2> QED
    BY <2>1, <2>5
<1>11. LogInv'
  <2>1. \A e \in whole' : behind(start, head) <= dist(start, e.off)
                          \/ dist(start, e.off) < 2 * MaxLen
    BY <1>4, <1>7 DEF LogInv
  <2> QED
    BY <1>1, <1>7, <1>8, <1>9, <1>10, <2>1 DEF LogInv
<1>12. OffsetInv'
  BY <1>1, <1>4, <1>5, <1>7 DEF OffsetInv
<1>13. ReaderInv'
  BY <1>1, <1>4 DEF ReaderInv
<1>14. WriterInv'
  BY <1>1, <1>4, <1>5, BecomesIdle
<1> QED
  BY <1>11, <1>12, <1>13, <1>14 DEF IInv

-----------------------------------------------------------------------------
(* The log is sound.                                                       *)

(* The empty log.                                                          *)
LEMMA InitHolds == Init => IInv
<1> SUFFICES ASSUME Init PROVE IInv
  OBVIOUS
<1>1. 0 \in Offsets /\ 0 \in 0 .. (Base - 1) /\ Size \in Nat /\ Size > 0
  BY Sizes, LoggerAssumption DEF Offsets
<1>2. OffsetInv
  BY <1>1 DEF Init, OffsetInv
<1>3. Range(readers) = {} /\ readers \in Seq(Readers) /\ Len(readers) = 0
  BY DEF Init, Range
<1>4. ReaderInv
  <2>1. 1 .. Len(readers) = {}
    BY <1>3
  <2>2. \A r \in Readers : rd[r] = "closed"
    BY DEF Init
  <2>3. rd \in [Readers -> {"closed"}] /\ sleeping = {}
    BY DEF Init
  <2> QED
    BY <1>3, <2>1, <2>2, <2>3 DEF ReaderInv
<1>5. WriterInv
  <2>1. idle \in WriteRecords /\ idle.pc = "idle" /\ idle.at = NONE
    BY <1>2, IdleRecord
  <2> QED
    BY <2>1, LoggerAssumption DEF Init, WriterInv
<1>6. begun = 0 /\ start = 0 /\ w_off = 0 /\ head = 0 /\ whole = {} /\ mutex = NONE
  <2>1. w_off = 0 /\ head = 0 /\ whole = {} /\ mutex = NONE
    BY DEF Init
  <2>2. begun = 0
    BY <2>1 DEF begun
  <2> QED
    BY <1>2, <1>5, <2>1, <2>2, StartIs
<1>7. LogInv
  <2>1. behind(0, 0) = Size
    BY <1>1, BehindIs
  <2>2. Size .. (Size - 1) = {}
    BY <1>1
  <2>3. Cover({}, 0, Size)
    BY <2>2 DEF Cover
  <2>4. Ring(buffer, {}, 0, 0)
    BY DEF Ring
  <2> QED
    BY <1>3, <1>6, <2>1, <2>3, <2>4 DEF LogInv
<1> QED
  BY <1>2, <1>4, <1>5, <1>7 DEF IInv

(* What happened stays known.                                              *)
LEMMA DamageStays ==
  ASSUME damaged, [Next]_vars
  PROVE  damaged'
  BY DEF Next, vars, logVars, writeStep, readStep, logger_aio_write, fix_up_head, fix_up_reader,
     write_header, do_write_log_from_user, write_fault, wake_up, logger_read, prepare_to_wait,
     lock_contended, check_log, read_gives_up, schedule, signal, read_entry, logger_open,
     logger_release, logger_flush

(* Every step that is not an accident keeps the invariant.                 *)
LEMMA StepKept ==
  ASSUME IInv, [Next]_vars, ~ damaged'
  PROVE  IInv'
<1>1. CASE UNCHANGED vars
  <2>1. UNCHANGED <<logVars, readers, r_off, mutex, wr, rd, sleeping>>
    BY <1>1 DEF vars
  <2>2. OffsetInv' /\ LogInv'
    BY <2>1, LogKept DEF IInv
  <2>3. ReaderInv' /\ WriterInv'
    BY <2>1 DEF IInv, ReaderInv, WriterInv
  <2> QED
    BY <2>2, <2>3 DEF IInv
<1>2. CASE Next
  <2>1. ASSUME NEW w \in Writers, logger_aio_write(w) PROVE IInv'
    BY <2>1, WriteKept
  <2>2. ASSUME NEW w \in Writers, fix_up_head(w) PROVE IInv'
    BY <2>2, FixUpHeadKept
  <2>3. ASSUME NEW w \in Writers, fix_up_reader(w) PROVE IInv'
    BY <2>3, FixUpReaderKept
  <2>4. ASSUME NEW w \in Writers, write_header(w) PROVE IInv'
    BY <2>4, HeaderKept
  <2>5. ASSUME NEW w \in Writers, do_write_log_from_user(w) PROVE IInv'
    BY <2>5, PayloadKept
  <2>6. ASSUME NEW w \in Writers, write_fault(w) PROVE IInv'
    <3>1. wr[w].orig = start
      <4>1. wr[w].pc = "payload" /\ wr[w].orig = entry_start(w) /\ mutex = w /\ mutex # NONE
        BY <2>6, LoggerAssumption DEF write_fault, IInv, WriterInv
      <4> QED
        BY <4>1 DEF entry_start, start, begun
    <3> QED
      BY <2>6, <3>1, FaultKept
  <2>7. ASSUME NEW w \in Writers, wake_up(w) PROVE IInv'
    BY <2>7, WakeKept
  <2>8. ASSUME NEW r \in Readers,
               \/ logger_read(r) \/ prepare_to_wait(r) \/ lock_contended(r) \/ check_log(r)
               \/ read_gives_up(r) \/ schedule(r) \/ signal(r)
        PROVE  IInv'
    BY <2>8, ReadKept
  <2>9. ASSUME NEW r \in Readers, read_entry(r) PROVE IInv'
    BY <2>9, ReadEntryKept
  <2>10. ASSUME NEW r \in Readers, logger_open(r) PROVE IInv'
    BY <2>10, OpenKept
  <2>11. ASSUME NEW r \in Readers, logger_release(r) PROVE IInv'
    BY <2>11, ReleaseKept
  <2>12. CASE logger_flush
    BY <2>12, FlushKept
  <2> QED
    BY <1>2, <2>1, <2>2, <2>3, <2>4, <2>5, <2>6, <2>7, <2>8, <2>9, <2>10, <2>11, <2>12
    DEF Next, writeStep, readStep
<1> QED
  BY <1>1, <1>2

(* Covered from off to the end of the log is intact from off.              *)
LEMMA CoveredIsIntact ==
  ASSUME w_off \in Offsets, NEW off \in Offsets, Ring(buffer, whole, w_off, 0),
         Cover(whole, w_off, behind(w_off, off))
  PROVE  intact(off)
<1> DEFINE q == behind(w_off, off)
<1>1. q \in Nat /\ 1 <= q /\ q <= Size /\ Size \in Nat /\ dist(off, w_off) \in Nat
      /\ dist(off, w_off) = Size - q /\ (q = Size <=> off = w_off)
  <2>1. q \in 1 .. Size /\ Size \in Nat /\ dist(off, w_off) \in Nat
        /\ (q = Size <=> off = w_off)
    BY Sizes, BehindIs, DistIs
  <2>2. q = Size - dist(off, w_off)
    BY DEF behind
  <2> QED
    BY <2>1, <2>2
<1> SUFFICES ASSUME NEW d \in 0 .. (dist(off, w_off) - 1)
             PROVE  \E e \in whole : /\ dist(off, e.off) <= d /\ d < dist(off, e.off) + e.len
                                     /\ dist(off, e.off) + e.len <= dist(off, w_off)
  BY DEF intact
<1> HIDE DEF q
<1>2. off # w_off /\ d \in Nat /\ d + q \in q .. (Size - 1)
  BY <1>1
<1>3. PICK e \in whole : /\ q <= dist(w_off, e.off) /\ dist(w_off, e.off) <= d + q
                         /\ d + q < dist(w_off, e.off) + e.len
  BY <1>2 DEF Cover, q
<1>4. e.off \in Offsets /\ e.len \in Nat /\ dist(w_off, e.off) \in Nat
      /\ dist(w_off, e.off) + e.len <= Size
  BY EntryFields
<1>5. dist(off, e.off) = dist(w_off, e.off) - q
  BY <1>2, <1>3, <1>4, DistFrom DEF q
<1>6. /\ dist(off, e.off) <= d /\ d < dist(off, e.off) + e.len
      /\ dist(off, e.off) + e.len <= dist(off, w_off)
  BY <1>1, <1>2, <1>3, <1>4, <1>5
<1> QED
  BY <1>6

(* The invariant gives what a reader relies on.                            *)
LEMMA InvariantIsEnough ==
  ASSUME IInv
  PROVE  LogSound
<1>1. OffsetInv /\ ReaderInv /\ WriterInv /\ LogInv
  BY DEF IInv
<1>2. LoggerTypeOK
  BY <1>1 DEF LoggerTypeOK, OffsetInv, ReaderInv, WriterInv
<1>3. ASSUME mutex = NONE
      PROVE  /\ w_off \in Offsets /\ head \in Offsets /\ r_off \in [Readers -> Offsets]
             /\ Range(readers) \subseteq Readers
             /\ Ring(buffer, whole, w_off, 0)
             /\ Cover(whole, w_off, behind(w_off, head))
             /\ \A r \in Range(readers) : Cover(whole, w_off, behind(w_off, r_off[r]))
             /\ \A e \in whole : behind(w_off, head) <= dist(w_off, e.off)
                                 \/ dist(w_off, e.off) < 2 * MaxLen
  <2>1. begun = 0 /\ start = w_off
    BY <1>1, <1>3, StartIs
  <2> QED
    BY <1>1, <2>1, RangeOf DEF LogInv, OffsetInv, ReaderInv
<1>4. EntriesIntact
  <2> SUFFICES ASSUME mutex = NONE
               PROVE  /\ \A off \in {head} \cup {r_off[r] : r \in Range(readers)} : intact(off)
                      /\ \A e \in whole : get_entry_len(e.off) = e.len
    BY DEF EntriesIntact
  <2>1. intact(head)
    BY <1>3, CoveredIsIntact
  <2>2. ASSUME NEW r \in Range(readers) PROVE intact(r_off[r])
    BY <1>3, CoveredIsIntact
  <2>3. \A e \in whole : get_entry_len(e.off) = e.len
    BY <1>3 DEF Ring, length_at, get_entry_len
  <2> QED
    BY <2>1, <2>2, <2>3
<1>5. OnlyOldestDropped
  <2> SUFFICES ASSUME mutex = NONE, NEW e \in whole, ~ (dist(w_off, e.off) < 2 * MaxLen)
               PROVE  dist(head, e.off) < dist(head, w_off)
    BY DEF OnlyOldestDropped
  <2> DEFINE q == behind(w_off, head)
  <2>1. q <= dist(w_off, e.off)
    BY <1>3
  <2>2. e.off \in Offsets /\ dist(w_off, e.off) \in Nat /\ dist(w_off, e.off) < Size
        /\ Size \in Nat /\ dist(head, w_off) \in Nat /\ q = Size - dist(head, w_off)
    <3>1. e.off \in Offsets
      BY <1>3, EntryFields
    <3> QED
      BY <1>3, <3>1, DistIs, Sizes DEF behind
  <2>3. head # w_off
    <3>1. head = w_off => q = Size
      BY <1>3, BehindIs
    <3> QED
      BY <2>1, <2>2, <3>1
  <2>4. dist(head, e.off) = dist(w_off, e.off) - q
    BY <1>3, <2>1, <2>2, <2>3, DistFrom
  <2> HIDE DEF q
  <2> QED
    BY <2>1, <2>2, <2>4
<1> QED
  BY <1>2, <1>4, <1>5 DEF LogSound

(* logger.c keeps its log sound for any number of readers and writers, any *)
(* size of the log and any lengths of the entries that two bytes hold,     *)
(* until a write whose copy_from_user fails sets w_off back over another   *)
(* write, or a file is closed under a writer: whoever gets the mutex finds *)
(* whole entries, with their lengths, before every reader, and a new       *)
(* reader misses no complete entry but those the writer is about to reach. *)
THEOREM LogStaysSound == Spec => []LogSound
<1>1. Init => damaged \/ IInv
  BY InitHolds
<1>2. (damaged \/ IInv) /\ [Next]_vars => (damaged \/ IInv)'
  BY DamageStays, StepKept
<1>3. damaged \/ IInv => LogSound
  BY InvariantIsEnough DEF LogSound
<1> QED
  BY <1>1, <1>2, <1>3, PTL DEF Spec
=============================================================================
