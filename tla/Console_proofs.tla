---------------------------- MODULE Console_proofs ----------------------------
(***************************************************************************)
(* The log buffer's entries are the last ones written, for every capacity  *)
(* and every sequence of writes; and what the console's page shows of them *)
(* is faithful, for any limit, cap, number of polls and runs.              *)
(***************************************************************************)
EXTENDS Console, FiniteSetTheorems, WellFoundedInduction, TLAPS

Entry == [id : Nat, level : Level]

BufferTypeOK ==
  /\ entries \in Seq(Entry)
  /\ nextID \in Nat
  /\ partial \in Text

BufferInv == BufferTypeOK /\ EntriesAreNewest

(* What Newest returns: a suffix of the sequence, of length n at most.     *)
LEMMA NewestSuffix ==
  ASSUME NEW S, NEW s \in Seq(S), NEW n \in Nat \ {0}
  PROVE  /\ Newest(s, n) \in Seq(S)
         /\ Len(Newest(s, n)) = IF Len(s) <= n THEN Len(s) ELSE n
         /\ \A i \in 1..Len(Newest(s, n)) :
              Newest(s, n)[i] = s[Len(s) - Len(Newest(s, n)) + i]
<1>1. CASE Len(s) <= n
  BY <1>1 DEF Newest
<1>2. CASE ~(Len(s) <= n)
  <2> DEFINE t == SubSeq(s, Len(s) - n + 1, Len(s))
  <2>1. Newest(s, n) = t
    BY <1>2 DEF Newest
  <2>2. Len(s) \in Nat /\ Len(s) > n
    BY <1>2
  <2>3. t \in Seq(S) /\ Len(t) = n /\ \A i \in 1..n : t[i] = s[Len(s) - n + i]
    BY <2>2
  <2> QED
    BY <1>2, <2>1, <2>2, <2>3
<1> QED
  BY <1>1, <1>2

LEMMA ClassifyText ==
  ASSUME NEW s \in Text, NEW t \in Text
  PROVE  Classify(s, t) \in Text
BY DEF Classify, Text, Level

(* Appending the entries of a write keeps the ids in a row, and what is    *)
(* new comes after the last id.                                            *)
LEMMA AppendKeeps ==
  ASSUME entries \in Seq(Entry), nextID \in Nat, EntriesAreNewest,
         NEW lines \in Seq(Level), AppendLocked(lines)
  PROVE  /\ entries' \in Seq(Entry) /\ nextID' \in Nat /\ EntriesAreNewest'
         /\ nextID <= nextID'
         /\ \A i \in 1..Len(entries') :
              entries'[i].id > nextID \/ \E k \in 1..Len(entries) : entries'[i] = entries[k]
<1> DEFINE new == [i \in 1..Len(lines) |-> [id |-> nextID + i, level |-> lines[i]]]
           all == entries \o new
<1>1. Capacity \in Nat \ {0}
  BY CapacityAssumption
<1>2. new \in Seq(Entry) /\ Len(new) = Len(lines) /\ Len(lines) \in Nat
  <2>1. Len(lines) \in Nat
    OBVIOUS
  <2>2. \A i \in 1..Len(lines) : [id |-> nextID + i, level |-> lines[i]] \in Entry
    BY DEF Entry
  <2> QED
    BY <2>1, <2>2
<1>3. /\ all \in Seq(Entry)
      /\ Len(all) = Len(entries) + Len(lines)
      /\ \A i \in 1..Len(all) : all[i] = IF i <= Len(entries) THEN entries[i]
                                         ELSE new[i - Len(entries)]
  BY <1>2
<1>4. \A i \in 1..Len(all) : all[i].id = nextID - Len(entries) + i
  <2> SUFFICES ASSUME NEW i \in 1..Len(all)
               PROVE  all[i].id = nextID - Len(entries) + i
    OBVIOUS
  <2>1. Len(entries) \in Nat /\ Len(lines) \in Nat
    BY <1>2
  <2>2. CASE i <= Len(entries)
    BY <1>3, <2>1, <2>2 DEF EntriesAreNewest
  <2>3. CASE ~(i <= Len(entries))
    <3>1. i - Len(entries) \in 1..Len(lines)
      BY <1>3, <2>1, <2>3
    <3>2. all[i] = new[i - Len(entries)]
      BY <1>3, <2>3
    <3>3. new[i - Len(entries)].id = nextID + (i - Len(entries))
      BY <3>1
    <3> QED
      BY <2>1, <3>1, <3>2, <3>3
  <2> QED
    BY <2>2, <2>3
<1>5. entries' = Newest(all, Capacity) /\ nextID' = nextID + Len(lines)
  BY DEF AppendLocked
<1>6. /\ entries' \in Seq(Entry)
      /\ Len(entries') = IF Len(all) <= Capacity THEN Len(all) ELSE Capacity
      /\ \A i \in 1..Len(entries') : entries'[i] = all[Len(all) - Len(entries') + i]
  <2>1. /\ Newest(all, Capacity) \in Seq(Entry)
        /\ Len(Newest(all, Capacity)) = IF Len(all) <= Capacity THEN Len(all) ELSE Capacity
        /\ \A i \in 1..Len(Newest(all, Capacity)) :
             Newest(all, Capacity)[i] = all[Len(all) - Len(Newest(all, Capacity)) + i]
    <3>1. \A a \in Seq(Entry) :
            /\ Newest(a, Capacity) \in Seq(Entry)
            /\ Len(Newest(a, Capacity)) = IF Len(a) <= Capacity THEN Len(a) ELSE Capacity
            /\ \A i \in 1..Len(Newest(a, Capacity)) :
                 Newest(a, Capacity)[i] = a[Len(a) - Len(Newest(a, Capacity)) + i]
      BY <1>1, NewestSuffix
    <3> HIDE DEF all
    <3> QED
      BY <1>3, <3>1
  <2> QED
    BY <1>5, <2>1
<1>7. /\ Len(entries) \in Nat /\ Len(entries) <= nextID /\ Len(entries) <= Capacity
      /\ nextID > Len(entries) => Len(entries) = Capacity
  BY DEF EntriesAreNewest
<1>8. Len(entries') <= Capacity /\ Len(entries') <= nextID'
  BY <1>1, <1>2, <1>3, <1>5, <1>6, <1>7
<1>9. nextID' > Len(entries') => Len(entries') = Capacity
  BY <1>1, <1>2, <1>3, <1>5, <1>6, <1>7
<1>10. \A i \in 1..Len(entries') : entries'[i].id = nextID' - Len(entries') + i
  <2> SUFFICES ASSUME NEW i \in 1..Len(entries')
               PROVE  entries'[i].id = nextID' - Len(entries') + i
    OBVIOUS
  <2>1. Len(entries') \in Nat /\ Len(entries') <= Len(all) /\ Len(all) \in Nat
    BY <1>1, <1>3, <1>6
  <2>2. Len(all) - Len(entries') + i \in 1..Len(all)
    BY <2>1
  <2>3. entries'[i].id = nextID - Len(entries) + (Len(all) - Len(entries') + i)
    BY <1>4, <1>6, <2>2
  <2> QED
    BY <1>2, <1>3, <1>5, <1>7, <2>1, <2>3
<1>11. ASSUME NEW i \in 1..Len(entries')
       PROVE  entries'[i].id > nextID \/ \E k \in 1..Len(entries) : entries'[i] = entries[k]
  <2> DEFINE k == Len(all) - Len(entries') + i
  <2> HIDE DEF all
  <2>1. Len(entries') \in Nat /\ Len(entries') <= Len(all) /\ Len(all) \in Nat
    BY <1>1, <1>3, <1>6
  <2>2. k \in 1..Len(all) /\ entries'[i] = all[k]
    BY <1>6, <2>1
  <2> HIDE DEF k
  <2>3. CASE k <= Len(entries)
    <3>1. k \in 1..Len(entries)
      BY <1>7, <2>1, <2>2, <2>3
    <3>2. all[k] = entries[k]
      BY <1>3, <2>2, <2>3
    <3> QED
      BY <2>2, <3>1, <3>2
  <2>4. CASE ~(k <= Len(entries))
    <3>1. all[k].id = nextID - Len(entries) + k
      BY <1>4, <2>2
    <3>2. k > Len(entries) /\ k \in Nat
      BY <1>7, <2>1, <2>2, <2>4
    <3>3. nextID - Len(entries) + k > nextID
      BY <1>7, <3>2
    <3> QED
      BY <2>2, <3>1, <3>3
  <2> QED
    BY <2>3, <2>4
<1>12. EntriesAreNewest'
  BY <1>8, <1>9, <1>10 DEF EntriesAreNewest
<1>13. nextID' \in Nat /\ nextID <= nextID'
  BY <1>2, <1>5
<1> QED
  BY <1>6, <1>11, <1>12, <1>13

LEMMA BufferInit == LogInit => BufferInv
BY CapacityAssumption DEF LogInit, BufferInv, BufferTypeOK, EntriesAreNewest, Text

LEMMA BufferStep == BufferInv /\ [LogNext]_logVars => BufferInv'
<1> SUFFICES ASSUME BufferInv, [LogNext]_logVars
             PROVE  BufferInv'
  OBVIOUS
<1> USE DEF BufferInv
<1>1. ASSUME NEW t \in Text, WritePiece(t)
      PROVE  BufferInv'
  <2>1. partial' \in Text
    BY <1>1, ClassifyText DEF WritePiece, BufferTypeOK
  <2> QED
    BY <1>1, <2>1 DEF WritePiece, BufferTypeOK, EntriesAreNewest
<1>2. ASSUME NEW t \in Text, NEW rest \in Text, NEW more \in Seq(Level),
             WriteLines(t, more, rest)
      PROVE  BufferInv'
  <2> DEFINE first == Classify(partial, t)
             lines == (IF first = "blank" THEN <<>> ELSE <<first>>) \o more
  <2>1. first \in Text
    BY ClassifyText DEF BufferTypeOK
  <2>2. (IF first = "blank" THEN <<>> ELSE <<first>>) \in Seq(Level)
    BY <2>1 DEF Text
  <2>3. lines \in Seq(Level)
    BY <2>2
  <2>4. AppendLocked(lines)
    BY <1>2 DEF WriteLines
  <2>5. entries' \in Seq(Entry) /\ nextID' \in Nat /\ EntriesAreNewest'
    BY <2>3, <2>4, AppendKeeps DEF BufferTypeOK
  <2>6. partial' \in Text
    BY <1>2 DEF WriteLines
  <2> QED
    BY <2>5, <2>6 DEF BufferTypeOK
<1>3. CASE UNCHANGED logVars
  BY <1>3 DEF logVars, BufferTypeOK, EntriesAreNewest
<1> QED
  BY <1>1, <1>2, <1>3 DEF LogNext

(* However lines are written, the buffer holds the newest of them, with    *)
(* consecutive ids that end at nextID: a reader that has seen the entry of *)
(* an id can ask for what comes after it.                                  *)
THEOREM BufferIsNewest == LogSpec => []EntriesAreNewest
<1>1. BufferInv => EntriesAreNewest
  BY DEF BufferInv
<1> QED
  BY BufferInit, BufferStep, <1>1, PTL DEF LogSpec

---------------------------------------------------------------------------
(* The positions that a query picks                                        *)

(* A set of positions can be put in order.                                 *)
Ordering(p, I) ==
  /\ p \in [1..Cardinality(I) -> I]
  /\ \A a, b \in 1..Cardinality(I) : a < b => p[a] < p[b]

LEMMA LeastNumber ==
  ASSUME NEW C, C \subseteq Nat, C # {}
  PROVE  \E n \in C : \A k \in Nat : k < n => k \notin C
  <1>1. IsWellFoundedOn(OpToRel(<, Nat), Nat)
    BY NatLessThanWellFounded
  <1>2. \E n \in C : \A k \in Nat : ~(<<k, n>> \in OpToRel(<, Nat) /\ k \in C)
    BY <1>1, WFMin, Zenon
  <1> QED
    BY <1>2 DEF OpToRel

LEMMA OrderExists ==
  ASSUME NEW N \in Nat, NEW I, I \subseteq 1..N
  PROVE  \E p : Ordering(p, I)
  <1> DEFINE C == {n \in Nat : \E J : J \subseteq 1..n /\ ~(\E p : Ordering(p, J))}
  <1> SUFFICES C = {}
    OBVIOUS
  <1> SUFFICES ASSUME C # {}
               PROVE  FALSE
    OBVIOUS
  <1>1. PICK n \in C : \A k \in Nat : k < n => k \notin C
    <2>1. C \subseteq Nat
      OBVIOUS
    <2> HIDE DEF C
    <2> QED
      BY <2>1, LeastNumber
  <1>2. n \in Nat
    OBVIOUS
  <1>3. PICK J : J \subseteq 1..n /\ ~(\E p : Ordering(p, J))
    OBVIOUS
  <1>4. CASE n = 0
    <2>1. J = {}
      BY <1>3, <1>4
    <2>2. Cardinality(J) = 0
      BY <2>1, FS_EmptySet
    <2>3. Ordering([i \in 1..0 |-> 0], J)
      BY <2>1, <2>2 DEF Ordering
    <2> QED
      BY <1>3, <2>3
  <1>5. CASE n # 0 /\ n \notin J
    <2>1. n - 1 \in Nat /\ n - 1 < n /\ J \subseteq 1..(n - 1)
      BY <1>2, <1>3, <1>5
    <2>2. n - 1 \in C
      BY <1>3, <2>1
    <2> QED
      BY <1>1, <2>1, <2>2
  <1>6. CASE n # 0 /\ n \in J
    <2> DEFINE K == J \ {n}
               c == Cardinality(K)
    <2>1. n - 1 \in Nat /\ n - 1 < n /\ K \subseteq 1..(n - 1)
      BY <1>2, <1>3, <1>6
    <2>2. n - 1 \notin C
      BY <1>1, <2>1
    <2>3. PICK p : Ordering(p, K)
      BY <2>1, <2>2
    <2>4. IsFiniteSet(J)
      <3>1. IsFiniteSet(1..n)
        BY <1>2, FS_Interval
      <3> QED
        BY <1>3, <3>1, FS_Subset
    <2>5. c \in Nat /\ Cardinality(J) = c + 1
      <3>1. IsFiniteSet(K) /\ c = Cardinality(J) - 1
        BY <1>6, <2>4, FS_RemoveElement
      <3>2. c \in Nat /\ Cardinality(J) \in Nat
        BY <2>4, <3>1, FS_CardinalityType
      <3> QED
        BY <3>1, <3>2
    <2> DEFINE q == [a \in 1..(c + 1) |-> IF a = c + 1 THEN n ELSE p[a]]
    <2> HIDE DEF c
    <2>6. \A a \in 1..c : p[a] \in K
      BY <2>3 DEF Ordering, c
    <2>7. \A a, b \in 1..c : a < b => p[a] < p[b]
      BY <2>3 DEF Ordering, c
    <2>8. q \in [1..(c + 1) -> J]
      BY <1>6, <2>5, <2>6
    <2>9. \A a, b \in 1..(c + 1) : a < b => q[a] < q[b]
      <3> SUFFICES ASSUME NEW a \in 1..(c + 1), NEW b \in 1..(c + 1), a < b
                   PROVE  q[a] < q[b]
        OBVIOUS
      <3>1. a \in 1..c /\ q[a] = p[a]
        BY <2>5
      <3>2. CASE b = c + 1
        <4>1. p[a] \in 1..(n - 1) /\ q[b] = n
          BY <2>1, <2>5, <2>6, <3>1, <3>2
        <4> QED
          BY <1>2, <3>1, <4>1
      <3>3. CASE b # c + 1
        <4>1. b \in 1..c /\ q[b] = p[b]
          BY <2>5, <3>3
        <4> QED
          BY <2>7, <3>1, <4>1
      <3> QED
        BY <3>2, <3>3
    <2>10. Ordering(q, J)
      BY <2>5, <2>8, <2>9 DEF Ordering
    <2> QED
      BY <1>3, <2>10
  <1> QED
    BY <1>2, <1>4, <1>5, <1>6

(* r, of length n, has the elements of s at the positions I, in their order. *)
InOrder(r, n, s, I) ==
  \E p \in [1..n -> I] :
    /\ \A a \in 1..n : r[a] = s[p[a]]
    /\ \A a, b \in 1..n : a < b => p[a] < p[b]
    /\ \A i \in I : \E a \in 1..n : p[a] = i

LEMMA PickedInOrder ==
  ASSUME NEW S, NEW s \in Seq(S), NEW I, I \subseteq 1..Len(s)
  PROVE  /\ Picked(s, I) \in Seq(S)
         /\ Len(Picked(s, I)) <= Len(s)
         /\ InOrder(Picked(s, I), Len(Picked(s, I)), s, I)
  <1> DEFINE n == Cardinality(I)
             p == CHOOSE p \in [1..n -> I] : \A a, b \in 1..n : a < b => p[a] < p[b]
  <1>1. Len(s) \in Nat
    OBVIOUS
  <1>2. IsFiniteSet(I) /\ n \in Nat /\ n <= Len(s)
    <2>1. IsFiniteSet(1..Len(s)) /\ Cardinality(1..Len(s)) = Len(s)
      <3>1. \A a, b \in Int : /\ IsFiniteSet(a..b)
                              /\ Cardinality(a..b) = IF a > b THEN 0 ELSE b - a + 1
        BY FS_Interval
      <3>2. Len(s) \in Int /\ 1 \in Int /\ Len(s) >= 0
        BY <1>1
      <3>3. /\ IsFiniteSet(1..Len(s))
            /\ Cardinality(1..Len(s)) = IF 1 > Len(s) THEN 0 ELSE Len(s) - 1 + 1
        BY <3>1, <3>2
      <3> QED
        BY <3>2, <3>3
    <2>2. IsFiniteSet(I) /\ n <= Len(s)
      BY <2>1, FS_Subset
    <2> QED
      BY <2>2, FS_CardinalityType
  <1>3. \E q \in [1..n -> I] : \A a, b \in 1..n : a < b => q[a] < q[b]
    BY <1>1, OrderExists DEF Ordering
  <1>4. p \in [1..n -> I] /\ \A a, b \in 1..n : a < b => p[a] < p[b]
    <2> HIDE DEF n
    <2> QED
      BY <1>3
  <1>5. Picked(s, I) = [k \in 1..n |-> s[p[k]]]
    BY DEF Picked
  <1> HIDE DEF n, p
  <1>6. \A k \in 1..n : p[k] \in I /\ p[k] \in 1..Len(s) /\ s[p[k]] \in S
    <2> SUFFICES ASSUME NEW k \in 1..n
                 PROVE  p[k] \in I /\ p[k] \in 1..Len(s) /\ s[p[k]] \in S
      OBVIOUS
    <2>1. p[k] \in I
      BY <1>4
    <2>2. p[k] \in 1..Len(s)
      BY <2>1
    <2> QED
      BY <2>1, <2>2
  <1>7. Picked(s, I) \in Seq(S) /\ Len(Picked(s, I)) = n
    BY <1>2, <1>5, <1>6
  <1>8. \A i \in I : \E a \in 1..n : p[a] = i
    <2>1. p \in Injection(1..n, I)
      <3>1. \A a, b \in 1..n : p[a] = p[b] => a = b
        <4> SUFFICES ASSUME NEW a \in 1..n, NEW b \in 1..n, a # b
                     PROVE  p[a] # p[b]
          OBVIOUS
        <4>1. p[a] \in Nat /\ p[b] \in Nat
          BY <1>1, <1>6
        <4>2. a < b \/ b < a
          BY <1>2
        <4> QED
          BY <1>4, <4>1, <4>2
      <3> QED
        BY <1>4, <3>1 DEF Injection, IsInjective
    <2>2. Cardinality(1..n) = n
      BY <1>2, FS_Interval
    <2>3. n = Cardinality(I)
      BY DEF n
    <2>4. p \in Surjection(1..n, I)
      BY <1>2, <2>1, <2>2, <2>3, FS_Injection
    <2> QED
      BY <2>4 DEF Surjection
  <1>9. \A a \in 1..n : Picked(s, I)[a] = s[p[a]]
    BY <1>5
  <1>10. \E q \in [1..n -> I] :
           /\ \A a \in 1..n : Picked(s, I)[a] = s[q[a]]
           /\ \A a, b \in 1..n : a < b => q[a] < q[b]
           /\ \A i \in I : \E a \in 1..n : q[a] = i
    BY <1>4, <1>8, <1>9
  <1>11. InOrder(Picked(s, I), Len(Picked(s, I)), s, I)
    <2>1. InOrder(Picked(s, I), n, s, I)
      BY <1>10 DEF InOrder
    <2> QED
      BY <1>7, <2>1
  <1> QED
    BY <1>2, <1>7, <1>11

---------------------------------------------------------------------------
(* The feed                                                                *)

Rising(r) == \A i, j \in 1..Len(r) : i < j => r[i].id < r[j].id

(* r has whatever of es passes the filter and lies between two ids.        *)
Covers(es, r, f, from, to) ==
  \A i \in 1..Len(es) :
    /\ Passes(es[i], f)
    /\ from <= es[i].id
    /\ es[i].id <= to
    => \E j \in 1..Len(r) : r[j] = es[i]

(* The entries of a filter after one id and up to another, in order.       *)
Extract(r, f, after, to) ==
  /\ Rising(r)
  /\ \A i \in 1..Len(r) : Passes(r[i], f) /\ after < r[i].id /\ r[i].id <= to

RequestType ==
  [pc : {"idle", "sent", "answered"}, filter : Level \cup {"all"}, since : Nat,
   reply : Seq(Entry), cut : BOOLEAN]

FeedTypeOK ==
  /\ cursor \in Nat
  /\ shown \in Seq(Entry)
  /\ filter \in Level \cup {"all"}
  /\ {calm, behind} \subseteq BOOLEAN
  /\ request \in [Request -> RequestType]

(* The page ends at its cursor.                                            *)
PageInv ==
  /\ cursor <= nextID
  /\ Extract(shown, filter, 0, cursor)
  /\ shown = <<>> => cursor = 0
  /\ shown # <<>> => cursor = shown[Len(shown)].id
  /\ ~behind /\ shown # <<>> => Covers(entries, shown, filter, shown[1].id, cursor)

(* The one request there is asks for what the page does not have, and its  *)
(* answer, unless it was cut, has it up to the answer's last entry.        *)
AnswerInv(q) ==
  /\ request[q].filter = filter
  /\ request[q].since = cursor
  /\ request[q].pc = "answered" =>
       LET r == request[q].reply IN
         /\ Extract(r, filter, cursor, nextID)
         /\ r # <<>> => /\ Covers(entries, r, filter, r[1].id, r[Len(r)].id)
                        /\ ~request[q].cut => Covers(entries, r, filter, cursor + 1, r[Len(r)].id)

RequestInv ==
  /\ \A q, u \in Request : request[q].pc # "idle" /\ request[u].pc # "idle" => q = u
  /\ \A q \in Request : request[q].pc # "idle" => AnswerInv(q)

ConsoleInv ==
  /\ BufferInv
  /\ FeedTypeOK
  /\ calm => PageInv /\ RequestInv

---------------------------------------------------------------------------
(* Rising sequences and their ends                                         *)

(* r is the rising end of s: all of it from the first entry of r on.       *)
EndOf(r, s) ==
  /\ Rising(r)
  /\ \A i \in 1..Len(r) : \E k \in 1..Len(s) : r[i] = s[k]
  /\ r = <<>> <=> s = <<>>
  /\ r # <<>> => /\ r[Len(r)] = s[Len(s)]
                 /\ \A k \in 1..Len(s) : r[1].id <= s[k].id
                      => \E j \in 1..Len(r) : r[j] = s[k]

LEMMA NewestOfRising ==
  ASSUME NEW s \in Seq(Entry), Rising(s), NEW n \in Nat \ {0},
         NEW r, r = Newest(s, n)
  PROVE  r \in Seq(Entry) /\ EndOf(r, s)
  <1> DEFINE m == Len(r)
             d == Len(s) - m
  <1>1. /\ r \in Seq(Entry)
        /\ m = IF Len(s) <= n THEN Len(s) ELSE n
        /\ \A i \in 1..m : r[i] = s[d + i]
    BY NewestSuffix
  <1>2. Len(s) \in Nat /\ m \in Nat /\ d \in Nat /\ d + m = Len(s) /\ (m = 0 <=> Len(s) = 0)
    BY <1>1
  <1>3. \A i \in 1..m : d + i \in 1..Len(s)
    BY <1>2
  <1>4. \A k \in 1..Len(s) : s[k].id \in Nat
    <2> SUFFICES ASSUME NEW k \in 1..Len(s)
                 PROVE  s[k].id \in Nat
      OBVIOUS
    <2>1. s[k] \in Entry
      OBVIOUS
    <2> QED
      BY <2>1 DEF Entry
  <1>5. r = <<>> <=> s = <<>>
    <2>1. (r = <<>> <=> m = 0) /\ (s = <<>> <=> Len(s) = 0)
      BY <1>1
    <2> QED
      BY <1>2, <2>1
  <1>6. Rising(r)
    <2> SUFFICES ASSUME NEW i \in 1..m, NEW j \in 1..m, i < j
                 PROVE  r[i].id < r[j].id
      BY DEF Rising
    <2>1. d + i \in 1..Len(s) /\ d + j \in 1..Len(s)
      BY <1>3
    <2>2. d + i < d + j
      BY <1>2
    <2>3. s[d + i].id < s[d + j].id
      BY <2>1, <2>2 DEF Rising
    <2> QED
      BY <1>1, <2>3
  <1>7. \A i \in 1..m : \E k \in 1..Len(s) : r[i] = s[k]
    BY <1>1, <1>3
  <1>8. ASSUME r # <<>>
        PROVE  r[m] = s[Len(s)]
    <2>1. m \in 1..m /\ d + m = Len(s)
      BY <1>1, <1>2, <1>8
    <2> QED
      BY <1>1, <2>1
  <1>9. ASSUME r # <<>>, NEW k \in 1..Len(s), r[1].id <= s[k].id
        PROVE  \E j \in 1..m : r[j] = s[k]
    <2>1. 1 \in 1..m /\ r[1] = s[d + 1] /\ d + 1 \in 1..Len(s)
      <3>1. m # 0
        BY <1>1, <1>9
      <3> HIDE DEF m, d
      <3>2. 1 \in 1..m /\ d + 1 \in 1..Len(s)
        BY <1>2, <3>1
      <3> QED
        BY <1>1, <3>2
    <2>2. k >= d + 1
      <3> SUFFICES ASSUME k < d + 1
                   PROVE  FALSE
        BY <1>2
      <3>1. s[k].id < s[d + 1].id
        BY <2>1 DEF Rising
      <3>2. s[k].id \in Nat /\ s[d + 1].id \in Nat
        BY <1>4, <2>1
      <3> QED
        BY <1>9, <2>1, <3>1, <3>2
    <2>3. k - d \in 1..m /\ d + (k - d) = k
      BY <1>2, <2>2
    <2> QED
      BY <1>1, <2>3
  <1> QED
    BY <1>1, <1>5, <1>6, <1>7, <1>8, <1>9 DEF EndOf

(* What a query without a limit picks from the buffer.                     *)
Wanted(f, since) ==
  Picked(entries, {i \in 1..Len(entries) : /\ entries[i].id > since
                                           /\ Passes(entries[i], f)})

LEMMA WantedEntries ==
  ASSUME BufferInv, NEW f, NEW since \in Nat
  PROVE  /\ Wanted(f, since) \in Seq(Entry)
         /\ Len(Wanted(f, since)) <= Capacity
         /\ Extract(Wanted(f, since), f, since, nextID)
         /\ \A i \in 1..Len(entries) : Passes(entries[i], f) /\ since < entries[i].id
              => \E j \in 1..Len(Wanted(f, since)) : Wanted(f, since)[j] = entries[i]
  <1> DEFINE I == {i \in 1..Len(entries) : /\ entries[i].id > since
                                           /\ Passes(entries[i], f)}
             w == Wanted(f, since)
  <1>1. entries \in Seq(Entry) /\ I \subseteq 1..Len(entries) /\ w = Picked(entries, I)
    BY DEF BufferInv, BufferTypeOK, Wanted
  <1>2. Capacity \in Nat /\ Len(entries) \in Nat /\ Len(entries) <= Capacity /\ nextID \in Nat
    BY CapacityAssumption DEF BufferInv, BufferTypeOK, EntriesAreNewest
  <1> HIDE DEF I
  <1>3. /\ w \in Seq(Entry)
        /\ Len(w) <= Len(entries)
        /\ InOrder(w, Len(w), entries, I)
    <2>1. /\ Picked(entries, I) \in Seq(Entry)
          /\ Len(Picked(entries, I)) <= Len(entries)
          /\ InOrder(Picked(entries, I), Len(Picked(entries, I)), entries, I)
      BY <1>1, PickedInOrder
    <2> HIDE DEF w
    <2> QED
      BY <1>1, <2>1
  <1> HIDE DEF w
  <1>4. PICK p \in [1..Len(w) -> I] :
          /\ \A a \in 1..Len(w) : w[a] = entries[p[a]]
          /\ \A a, b \in 1..Len(w) : a < b => p[a] < p[b]
          /\ \A i \in I : \E a \in 1..Len(w) : p[a] = i
    BY <1>3 DEF InOrder
  <1>5. Len(w) \in Nat /\ Len(w) <= Capacity
    BY <1>2, <1>3
  <1>6. \A i \in 1..Len(entries) : entries[i].id = nextID - Len(entries) + i
    BY DEF BufferInv, EntriesAreNewest
  <1>7. \A a \in 1..Len(w) : p[a] \in I /\ p[a] \in 1..Len(entries)
    BY <1>1, <1>4
  <1>8. \A i \in I : since < entries[i].id /\ Passes(entries[i], f)
    <2> SUFFICES ASSUME NEW i \in I
                 PROVE  since < entries[i].id /\ Passes(entries[i], f)
      OBVIOUS
    <2>1. i \in 1..Len(entries) /\ entries[i].id > since /\ Passes(entries[i], f)
      BY DEF I
    <2>2. entries[i].id \in Int
      BY <1>2, <1>6, <2>1
    <2> QED
      BY <2>1, <2>2
  <1>9. Rising(w)
    <2> SUFFICES ASSUME NEW a \in 1..Len(w), NEW b \in 1..Len(w), a < b
                 PROVE  w[a].id < w[b].id
      BY DEF Rising
    <2>1. p[a] < p[b] /\ p[a] \in 1..Len(entries) /\ p[b] \in 1..Len(entries)
      BY <1>4, <1>7
    <2>2. w[a] = entries[p[a]] /\ w[b] = entries[p[b]]
      BY <1>4
    <2>3. /\ entries[p[a]].id = nextID - Len(entries) + p[a]
          /\ entries[p[b]].id = nextID - Len(entries) + p[b]
      BY <1>6, <2>1
    <2> QED
      BY <1>2, <2>1, <2>2, <2>3
  <1>10. \A a \in 1..Len(w) : Passes(w[a], f) /\ since < w[a].id /\ w[a].id <= nextID
    <2> SUFFICES ASSUME NEW a \in 1..Len(w)
                 PROVE  Passes(w[a], f) /\ since < w[a].id /\ w[a].id <= nextID
      OBVIOUS
    <2>1. p[a] \in I /\ p[a] \in 1..Len(entries) /\ w[a] = entries[p[a]]
      BY <1>4, <1>7
    <2>2. Passes(w[a], f) /\ since < w[a].id
      BY <1>8, <2>1
    <2>3. w[a].id <= nextID
      BY <1>2, <1>6, <2>1
    <2> QED
      BY <2>2, <2>3
  <1>11. ASSUME NEW i \in 1..Len(entries), Passes(entries[i], f), since < entries[i].id
         PROVE  \E j \in 1..Len(w) : w[j] = entries[i]
    <2>1. entries[i].id \in Int
      BY <1>2, <1>6
    <2>2. i \in I
      BY <1>11, <2>1 DEF I
    <2> QED
      BY <1>4, <2>2
  <1>12. Extract(w, f, since, nextID)
    BY <1>9, <1>10 DEF Extract
  <1> QED
    BY <1>3, <1>5, <1>11, <1>12 DEF w

(* An answer has the newest of what is wanted, and if it was not cut all   *)
(* of it.                                                                  *)
LEMMA QueryAnswers ==
  ASSUME BufferInv, NEW f, NEW since \in Nat, NEW limit \in Nat \ {0},
         NEW r, r = Query(f, since, limit)
  PROVE  /\ r \in Seq(Entry)
         /\ Extract(r, f, since, nextID)
         /\ r # <<>> =>
              /\ Covers(entries, r, f, r[1].id, r[Len(r)].id)
              /\ r = Query(f, since, Capacity) => Covers(entries, r, f, since + 1, r[Len(r)].id)
  <1> DEFINE w == Wanted(f, since)
  <1>1. /\ w \in Seq(Entry)
        /\ Len(w) <= Capacity
        /\ Extract(w, f, since, nextID)
        /\ \A i \in 1..Len(entries) : Passes(entries[i], f) /\ since < entries[i].id
             => \E j \in 1..Len(w) : w[j] = entries[i]
    BY WantedEntries
  <1>2. r = Newest(w, limit) /\ Query(f, since, Capacity) = Newest(w, Capacity)
    BY DEF Query, Wanted
  <1>3. Query(f, since, Capacity) = w
    BY <1>1, <1>2 DEF Newest
  <1> HIDE DEF w
  <1>4. Rising(w)
    BY <1>1 DEF Extract
  <1>5. r \in Seq(Entry) /\ EndOf(r, w)
    BY <1>1, <1>2, <1>4, NewestOfRising
  <1>6. /\ r \in Seq(Entry)
        /\ Rising(r)
        /\ \A i \in 1..Len(r) : \E k \in 1..Len(w) : r[i] = w[k]
        /\ r # <<>> => \A k \in 1..Len(w) : r[1].id <= w[k].id
                         => \E j \in 1..Len(r) : r[j] = w[k]
    BY <1>5 DEF EndOf
  <1>7. \A i \in 1..Len(r) : Passes(r[i], f) /\ since < r[i].id /\ r[i].id <= nextID
    BY <1>1, <1>6 DEF Extract
  <1>8. \A i \in 1..Len(entries) : entries[i].id \in Nat
    <2> SUFFICES ASSUME NEW i \in 1..Len(entries)
                 PROVE  entries[i].id \in Nat
      OBVIOUS
    <2>1. entries[i] \in Entry
      BY DEF BufferInv, BufferTypeOK
    <2> QED
      BY <2>1 DEF Entry
  <1>9. ASSUME r # <<>>
        PROVE  Covers(entries, r, f, r[1].id, r[Len(r)].id)
    <2> SUFFICES ASSUME NEW i \in 1..Len(entries), Passes(entries[i], f),
                        r[1].id <= entries[i].id
                 PROVE  \E j \in 1..Len(r) : r[j] = entries[i]
      BY DEF Covers
    <2>1. 1 \in 1..Len(r) /\ r[1] \in Entry
      <3>1. Len(r) \in Nat /\ Len(r) # 0
        BY <1>6, <1>9
      <3>2. 1 \in 1..Len(r)
        BY <3>1
      <3> QED
        BY <1>6, <3>2
    <2>2. since < r[1].id /\ r[1].id \in Nat
      BY <1>7, <2>1 DEF Entry
    <2>3. since < entries[i].id
      BY <1>8, <2>2
    <2>4. PICK k \in 1..Len(w) : w[k] = entries[i]
      BY <1>1, <2>3
    <2> QED
      BY <1>6, <1>9, <2>4
  <1>10. ASSUME r = w
        PROVE  Covers(entries, r, f, since + 1, r[Len(r)].id)
    <2> SUFFICES ASSUME NEW i \in 1..Len(entries), Passes(entries[i], f),
                        since + 1 <= entries[i].id
                 PROVE  \E j \in 1..Len(r) : r[j] = entries[i]
      BY DEF Covers
    <2>1. since < entries[i].id
      BY <1>8
    <2> QED
      BY <1>1, <1>10, <2>1
  <1> QED
    BY <1>3, <1>6, <1>7, <1>9, <1>10 DEF Extract

---------------------------------------------------------------------------
(* The steps                                                               *)

LEMMA ConsoleStart == ConsoleInit => ConsoleInv
  <1> SUFFICES ASSUME ConsoleInit
               PROVE  ConsoleInv
    OBVIOUS
  <1>1. BufferInv
    BY BufferInit DEF ConsoleInit
  <1>2. \A q \in Request : request[q] = NoRequest
    BY DEF ConsoleInit
  <1>3. FeedTypeOK
    <2>1. <<>> \in Seq(Entry)
      OBVIOUS
    <2> QED
      BY <2>1 DEF ConsoleInit, FeedTypeOK, RequestType, NoRequest, Level
  <1>4. RequestInv
    BY <1>2 DEF RequestInv, NoRequest
  <1>5. shown = <<>> /\ cursor = 0 /\ nextID = 0
    BY DEF ConsoleInit, LogInit
  <1>6. PageInv
    BY <1>5 DEF PageInv, Extract, Rising
  <1> QED
    BY <1>1, <1>3, <1>4, <1>6 DEF ConsoleInv

(* What is covered stays covered: new entries come after the last id.      *)
LEMMA CoversStays ==
  ASSUME BufferInv, NEW r, NEW f, NEW from, NEW to \in Nat, to <= nextID,
         Covers(entries, r, f, from, to),
         NEW lines \in Seq(Level), AppendLocked(lines)
  PROVE  Covers(entries', r, f, from, to)
  <1> SUFFICES ASSUME NEW i \in 1..Len(entries'), Passes(entries'[i], f),
                      from <= entries'[i].id, entries'[i].id <= to
               PROVE  \E j \in 1..Len(r) : r[j] = entries'[i]
    BY DEF Covers
  <1>1. entries \in Seq(Entry) /\ nextID \in Nat /\ EntriesAreNewest
    BY DEF BufferInv, BufferTypeOK
  <1>2. /\ entries' \in Seq(Entry)
        /\ entries'[i].id > nextID \/ \E k \in 1..Len(entries) : entries'[i] = entries[k]
    BY <1>1, AppendKeeps
  <1>3. entries'[i].id \in Nat
    <2>1. entries'[i] \in Entry
      BY <1>2
    <2> QED
      BY <2>1 DEF Entry
  <1>4. ~(entries'[i].id > nextID)
    BY <1>1, <1>3
  <1>5. PICK k \in 1..Len(entries) : entries'[i] = entries[k]
    BY <1>2, <1>4
  <1> QED
    BY <1>5 DEF Covers

(* The buffer grows, or stays as it is.                                    *)
Grows ==
  /\ nextID' \in Nat
  /\ nextID <= nextID'
  /\ \A r, f, from : \A to \in Nat :
       to <= nextID /\ Covers(entries, r, f, from, to) => Covers(entries', r, f, from, to)

LEMMA StillGrows ==
  ASSUME BufferInv, UNCHANGED logVars
  PROVE  BufferInv' /\ Grows
  <1>1. BufferInv'
    BY BufferStep
  <1>2. entries' = entries /\ nextID' = nextID /\ nextID \in Nat
    BY DEF logVars, BufferInv, BufferTypeOK
  <1>3. nextID <= nextID'
    BY <1>2
  <1> QED
    BY <1>1, <1>2, <1>3 DEF Grows

LEMMA LogGrows ==
  ASSUME BufferInv, Log
  PROVE  BufferInv' /\ Grows
  <1>1. CASE \E t \in {"info", "error"} : WritePiece(t)
    <2>1. PICK t \in {"info", "error"} : WritePiece(t)
      BY <1>1
    <2>2. t \in Text
      BY DEF Text, Level
    <2>3. BufferInv'
      BY <2>1, <2>2, BufferStep DEF LogNext
    <2>4. entries' = entries /\ nextID' = nextID /\ nextID \in Nat
      BY <2>1 DEF WritePiece, BufferInv, BufferTypeOK
    <2>5. nextID <= nextID'
      BY <2>4
    <2> QED
      BY <2>3, <2>4, <2>5 DEF Grows
  <1>2. CASE \E t \in {"info", "error", "blank"}, more \in {<<>>, <<"error">>} :
               WriteLines(t, more, "blank")
    <2>1. PICK t \in {"info", "error", "blank"}, more \in {<<>>, <<"error">>} :
            WriteLines(t, more, "blank")
      BY <1>2
    <2>2. t \in Text /\ "blank" \in Text
      BY DEF Text, Level
    <2>3. more \in Seq(Level)
      <3>1. "error" \in Level
        BY DEF Level
      <3>2. <<>> \in Seq(Level) /\ <<"error">> \in Seq(Level)
        BY <3>1
      <3> QED
        BY <3>2
    <2>4. BufferInv'
      BY <2>1, <2>2, <2>3, BufferStep DEF LogNext
    <2> DEFINE first == Classify(partial, t)
               lines == (IF first = "blank" THEN <<>> ELSE <<first>>) \o more
    <2>5. AppendLocked(lines)
      BY <2>1 DEF WriteLines
    <2>6. first \in Text
      BY <2>2, ClassifyText DEF BufferInv, BufferTypeOK
    <2>7. (IF first = "blank" THEN <<>> ELSE <<first>>) \in Seq(Level)
      BY <2>6 DEF Text
    <2>8. lines \in Seq(Level)
      BY <2>3, <2>7
    <2> HIDE DEF lines
    <2>9. nextID' \in Nat /\ nextID <= nextID'
      BY <2>5, <2>8, AppendKeeps DEF BufferInv, BufferTypeOK
    <2>10. ASSUME NEW r, NEW f, NEW from, NEW to \in Nat, to <= nextID,
                  Covers(entries, r, f, from, to)
           PROVE  Covers(entries', r, f, from, to)
      BY <2>5, <2>8, <2>10, CoversStays
    <2> QED
      BY <2>4, <2>9, <2>10 DEF Grows
  <1> QED
    BY <1>1, <1>2 DEF Log

(* A page that is not touched, and a request that is not, are as good as   *)
(* before.                                                                 *)
LEMMA PageKept ==
  ASSUME BufferInv, FeedTypeOK, PageInv, Grows, UNCHANGED feed
  PROVE  PageInv'
  <1>1. filter' = filter /\ cursor' = cursor /\ shown' = shown /\ behind' = behind
    BY DEF feed
  <1>2. cursor \in Nat /\ nextID \in Nat /\ nextID' \in Nat
    BY DEF FeedTypeOK, BufferInv, BufferTypeOK, Grows
  <1>3. cursor <= nextID'
    BY <1>2 DEF PageInv, Grows
  <1>4. ~behind /\ shown # <<>> => Covers(entries', shown, filter, shown[1].id, cursor)
    BY <1>2 DEF PageInv, Grows
  <1> QED
    BY <1>1, <1>3, <1>4 DEF PageInv, Extract, Rising

LEMMA AnswerKept ==
  ASSUME BufferInv, FeedTypeOK, Grows, filter' = filter, cursor' = cursor,
         NEW q \in Request, AnswerInv(q), request'[q] = request[q]
  PROVE  AnswerInv(q)'
  <1> DEFINE r == request[q].reply
  <1>1. request[q].filter = filter /\ request[q].since = cursor
    BY DEF AnswerInv
  <1> SUFFICES ASSUME request[q].pc = "answered"
               PROVE  /\ Extract(r, filter, cursor, nextID')
                      /\ r # <<>> =>
                           /\ Covers(entries', r, filter, r[1].id, r[Len(r)].id)
                           /\ ~request[q].cut =>
                                Covers(entries', r, filter, cursor + 1, r[Len(r)].id)
    BY <1>1 DEF AnswerInv
  <1>2. /\ Extract(r, filter, cursor, nextID)
        /\ r # <<>> => /\ Covers(entries, r, filter, r[1].id, r[Len(r)].id)
                       /\ ~request[q].cut =>
                            Covers(entries, r, filter, cursor + 1, r[Len(r)].id)
    BY DEF AnswerInv
  <1>3. r \in Seq(Entry) /\ nextID \in Nat /\ nextID' \in Nat /\ nextID <= nextID'
    BY DEF FeedTypeOK, RequestType, BufferInv, BufferTypeOK, Grows
  <1> HIDE DEF r
  <1>4. \A i \in 1..Len(r) : r[i].id \in Nat /\ r[i].id <= nextID
    <2> SUFFICES ASSUME NEW i \in 1..Len(r)
                 PROVE  r[i].id \in Nat /\ r[i].id <= nextID
      OBVIOUS
    <2>1. r[i] \in Entry
      BY <1>3
    <2> QED
      BY <1>2, <2>1 DEF Entry, Extract
  <1>5. Extract(r, filter, cursor, nextID')
    <2>1. \A i \in 1..Len(r) : r[i].id <= nextID'
      BY <1>3, <1>4
    <2> QED
      BY <1>2, <2>1 DEF Extract
  <1>6. ASSUME r # <<>>
        PROVE  r[Len(r)].id \in Nat /\ r[Len(r)].id <= nextID
    <2>1. Len(r) \in 1..Len(r)
      BY <1>3, <1>6
    <2> QED
      BY <1>4, <2>1
  <1> QED
    BY <1>2, <1>5, <1>6 DEF Grows

(* A step that touches neither page nor requests.                          *)
LEMMA LogStep ==
  ASSUME ConsoleInv, BufferInv', Grows, UNCHANGED <<feed, request, calm>>
  PROVE  ConsoleInv'
  <1>1. BufferInv /\ FeedTypeOK
    BY DEF ConsoleInv
  <1>2. FeedTypeOK'
    BY <1>1 DEF FeedTypeOK, feed
  <1>3. ASSUME calm'
        PROVE  PageInv' /\ RequestInv'
    <2>1. PageInv /\ RequestInv
      BY <1>3 DEF ConsoleInv
    <2>2. PageInv'
      BY <1>1, <2>1, PageKept
    <2>3. ASSUME NEW q \in Request, request'[q].pc # "idle"
          PROVE  AnswerInv(q)'
      BY <1>1, <2>1, <2>3, AnswerKept DEF RequestInv, feed
    <2>4. RequestInv'
      BY <2>1, <2>3 DEF RequestInv
    <2> QED
      BY <2>2, <2>4
  <1> QED
    BY <1>2, <1>3 DEF ConsoleInv

(* A poll is sent; it is the only one if the page is to stay calm.         *)
LEMMA PollLogsStep ==
  ASSUME ConsoleInv, NEW q \in Request, PollLogs(q)
  PROVE  ConsoleInv'
  <1> DEFINE new == [NoRequest EXCEPT !.pc = "sent", !.filter = filter, !.since = cursor]
  <1>1. BufferInv /\ FeedTypeOK
    BY DEF ConsoleInv
  <1>2. BufferInv' /\ Grows
    BY <1>1, StillGrows DEF PollLogs
  <1>3. request' = [request EXCEPT ![q] = new]
    BY DEF PollLogs
  <1>4. calm' = (calm /\ Idle)
    BY DEF PollLogs
  <1>5. new \in RequestType
    <2>1. <<>> \in Seq(Entry)
      OBVIOUS
    <2> QED
      BY <1>1, <2>1 DEF FeedTypeOK, RequestType, NoRequest
  <1>6. new.filter = filter /\ new.since = cursor /\ new.pc = "sent"
    BY DEF NoRequest
  <1> HIDE DEF new
  <1>7. FeedTypeOK'
    BY <1>1, <1>3, <1>4, <1>5 DEF PollLogs, feed, FeedTypeOK
  <1>8. ASSUME calm'
        PROVE  PageInv' /\ RequestInv'
    <2>1. calm /\ Idle
      BY <1>4, <1>8
    <2>2. PageInv'
      BY <1>1, <1>2, <2>1, PageKept DEF ConsoleInv, PollLogs
    <2>3. \A u \in Request : request'[u] = IF u = q THEN new ELSE request[u]
      BY <1>1, <1>3 DEF FeedTypeOK
    <2>4. \A u \in Request : request'[u].pc # "idle" => u = q
      BY <2>1, <2>3 DEF Idle
    <2>5. filter' = filter /\ cursor' = cursor
      BY DEF PollLogs, feed
    <2>6. AnswerInv(q)'
      BY <1>6, <2>3, <2>5 DEF AnswerInv
    <2> QED
      BY <2>2, <2>4, <2>6 DEF RequestInv
  <1> QED
    BY <1>2, <1>7, <1>8 DEF ConsoleInv

(* A step of the orchestrator that answers a poll.                         *)
LEMMA LogsStep ==
  ASSUME ConsoleInv, NEW q \in Request, Logs(q)
  PROVE  ConsoleInv'
  <1> DEFINE rq == request[q]
             r == Query(rq.filter, rq.since, Limit)
             all == Query(rq.filter, rq.since, Capacity)
  <1>1. BufferInv /\ FeedTypeOK
    BY DEF ConsoleInv
  <1>2. BufferInv' /\ Grows
    BY <1>1, StillGrows DEF Logs
  <1>3. rq \in RequestType
    BY <1>1 DEF FeedTypeOK
  <1>4. Limit \in Nat \ {0}
    BY ConsoleAssumption
  <1>5. /\ r \in Seq(Entry)
        /\ Extract(r, rq.filter, rq.since, nextID)
        /\ r # <<>> =>
             /\ Covers(entries, r, rq.filter, r[1].id, r[Len(r)].id)
             /\ r = all => Covers(entries, r, rq.filter, rq.since + 1, r[Len(r)].id)
    BY <1>1, <1>3, <1>4, QueryAnswers DEF RequestType
  <1> DEFINE new == [rq EXCEPT !.pc = "answered", !.reply = r, !.cut = (r # all)]
  <1>6. request' = [request EXCEPT ![q] = new]
    BY DEF Logs
  <1>7. rq.pc = "sent"
    BY DEF Logs
  <1> HIDE DEF rq, r, all
  <1>8. (r # all) \in BOOLEAN
    OBVIOUS
  <1>9. new \in RequestType
    BY <1>3, <1>5, <1>8 DEF RequestType
  <1>10. new.cut = (r # all) /\ new.reply = r /\ new.filter = rq.filter
         /\ new.since = rq.since /\ new.pc = "answered"
    BY <1>3 DEF RequestType
  <1> HIDE DEF new
  <1>11. FeedTypeOK'
    BY <1>1, <1>6, <1>9 DEF Logs, feed, FeedTypeOK
  <1>12. ASSUME calm'
         PROVE  PageInv' /\ RequestInv'
    <2>1. calm /\ PageInv /\ RequestInv
      BY <1>12 DEF ConsoleInv, Logs
    <2>2. PageInv'
      BY <1>1, <1>2, <2>1, PageKept DEF Logs
    <2>3. \A u \in Request : request'[u] = IF u = q THEN new ELSE request[u]
      BY <1>1, <1>6 DEF FeedTypeOK
    <2>4. \A u \in Request : request'[u].pc # "idle" => u = q
      BY <1>7, <2>1, <2>3 DEF RequestInv, rq
    <2>5. /\ filter' = filter /\ cursor' = cursor
          /\ entries' = entries /\ nextID' = nextID
      BY DEF Logs, feed, logVars
    <2>6. rq.filter = filter /\ rq.since = cursor
      BY <1>7, <2>1 DEF RequestInv, AnswerInv, rq
    <2>7. AnswerInv(q)'
      <3>1. request'[q] = new
        BY <2>3
      <3>2. ~new.cut => r = all
        BY <1>10
      <3>3. /\ Extract(r, filter, cursor, nextID)
            /\ r # <<>> => /\ Covers(entries, r, filter, r[1].id, r[Len(r)].id)
                           /\ ~new.cut => Covers(entries, r, filter, cursor + 1, r[Len(r)].id)
        BY <1>5, <2>6, <3>2
      <3> QED
        BY <1>10, <2>5, <2>6, <3>1, <3>3 DEF AnswerInv
    <2> QED
      BY <2>2, <2>4, <2>7 DEF RequestInv
  <1> QED
    BY <1>2, <1>11, <1>12 DEF ConsoleInv

(* A poll that fails has not been.                                         *)
LEMMA PollFailsStep ==
  ASSUME ConsoleInv, NEW q \in Request, PollFails(q)
  PROVE  ConsoleInv'
  <1>1. BufferInv /\ FeedTypeOK
    BY DEF ConsoleInv
  <1>2. BufferInv' /\ Grows
    BY <1>1, StillGrows DEF PollFails
  <1>3. <<>> \in Seq(Entry)
    OBVIOUS
  <1>4. request' = [request EXCEPT ![q] = NoRequest]
    BY DEF PollFails
  <1>5. FeedTypeOK'
    <2>1. NoRequest \in RequestType
      BY <1>3 DEF NoRequest, RequestType
    <2> QED
      BY <1>1, <1>4, <2>1 DEF PollFails, feed, FeedTypeOK
  <1>6. ASSUME calm'
        PROVE  PageInv' /\ RequestInv'
    <2>1. calm /\ PageInv /\ RequestInv
      BY <1>6 DEF ConsoleInv, PollFails
    <2>2. PageInv'
      BY <1>1, <1>2, <2>1, PageKept DEF PollFails
    <2>3. \A u \in Request : request'[u] = IF u = q THEN NoRequest ELSE request[u]
      BY <1>1, <1>4 DEF FeedTypeOK
    <2>4. filter' = filter /\ cursor' = cursor
      BY DEF PollFails, feed
    <2>5. ASSUME NEW u \in Request, request'[u].pc # "idle"
          PROVE  request[u].pc # "idle" /\ AnswerInv(u)'
      <3>1. u # q /\ request'[u] = request[u]
        BY <2>3, <2>5 DEF NoRequest
      <3>2. AnswerInv(u)
        BY <2>1, <2>5, <3>1 DEF RequestInv
      <3> QED
        BY <1>1, <1>2, <2>4, <2>5, <3>1, <3>2, AnswerKept
    <2>6. RequestInv'
      BY <2>1, <2>5 DEF RequestInv
    <2> QED
      BY <2>2, <2>6
  <1> QED
    BY <1>2, <1>5, <1>6 DEF ConsoleInv

Within(s, t) == \A i \in 1..Len(s) : \E j \in 1..Len(t) : t[j] = s[i]

(* What comes after an extract and is one itself goes on with it.          *)
LEMMA ExtractJoined ==
  ASSUME NEW s \in Seq(Entry), NEW r \in Seq(Entry), NEW f, NEW c \in Nat, NEW d \in Nat,
         c <= d, Extract(s, f, 0, c), Extract(r, f, c, d)
  PROVE  /\ s \o r \in Seq(Entry)
         /\ Extract(s \o r, f, 0, d)
         /\ Within(s, s \o r) /\ Within(r, s \o r)
  <1> DEFINE all == s \o r
  <1>1. /\ all \in Seq(Entry)
        /\ Len(all) = Len(s) + Len(r)
        /\ \A i \in 1..Len(all) : all[i] = IF i <= Len(s) THEN s[i] ELSE r[i - Len(s)]
    OBVIOUS
  <1>2. Len(s) \in Nat /\ Len(r) \in Nat
    OBVIOUS
  <1>3. \A i \in 1..Len(all) : \/ i \in 1..Len(s) /\ all[i] = s[i]
                               \/ i - Len(s) \in 1..Len(r) /\ all[i] = r[i - Len(s)]
    BY <1>1, <1>2
  <1>4. \A i \in 1..Len(s) : s[i].id \in Nat
    <2> SUFFICES ASSUME NEW i \in 1..Len(s)
                 PROVE  s[i].id \in Nat
      OBVIOUS
    <2>1. s[i] \in Entry
      OBVIOUS
    <2> QED
      BY <2>1 DEF Entry
  <1>5. \A i \in 1..Len(r) : r[i].id \in Nat
    <2> SUFFICES ASSUME NEW i \in 1..Len(r)
                 PROVE  r[i].id \in Nat
      OBVIOUS
    <2>1. r[i] \in Entry
      OBVIOUS
    <2> QED
      BY <2>1 DEF Entry
  <1>6. \A i \in 1..Len(s) : i \in 1..Len(all) /\ all[i] = s[i]
    BY <1>1, <1>2
  <1>7. \A i \in 1..Len(r) : Len(s) + i \in 1..Len(all) /\ all[Len(s) + i] = r[i]
    BY <1>1, <1>2
  <1> HIDE DEF all
  <1>8. Rising(all)
    <2> SUFFICES ASSUME NEW i \in 1..Len(all), NEW j \in 1..Len(all), i < j
                 PROVE  all[i].id < all[j].id
      BY DEF Rising
    <2>1. CASE j \in 1..Len(s) /\ all[j] = s[j]
      <3>1. i \in 1..Len(s) /\ all[i] = s[i]
        BY <1>2, <1>3, <2>1
      <3> QED
        BY <2>1, <3>1 DEF Extract, Rising
    <2>2. CASE j - Len(s) \in 1..Len(r) /\ all[j] = r[j - Len(s)]
      <3>1. CASE i \in 1..Len(s) /\ all[i] = s[i]
        BY <1>4, <1>5, <2>2, <3>1 DEF Extract
      <3>2. CASE i - Len(s) \in 1..Len(r) /\ all[i] = r[i - Len(s)]
        <4>1. i - Len(s) < j - Len(s)
          BY <1>2
        <4> QED
          BY <2>2, <3>2, <4>1 DEF Extract, Rising
      <3> QED
        BY <1>3, <3>1, <3>2
    <2> QED
      BY <1>3, <2>1, <2>2
  <1>9. ASSUME NEW i \in 1..Len(all)
        PROVE  Passes(all[i], f) /\ 0 < all[i].id /\ all[i].id <= d
    <2>1. CASE i \in 1..Len(s) /\ all[i] = s[i]
      BY <1>4, <2>1 DEF Extract
    <2>2. CASE i - Len(s) \in 1..Len(r) /\ all[i] = r[i - Len(s)]
      BY <1>5, <2>2 DEF Extract
    <2> QED
      BY <1>3, <2>1, <2>2
  <1>10. Extract(all, f, 0, d)
    BY <1>8, <1>9 DEF Extract
  <1>11. Within(s, all)
    BY <1>6 DEF Within
  <1>12. Within(r, all)
    BY <1>7 DEF Within
  <1> QED
    BY <1>1, <1>10, <1>11, <1>12 DEF all

(* The end of an extract is one, and covers what it begins with.           *)
LEMMA PageEnds ==
  ASSUME BufferInv, NEW all \in Seq(Entry), NEW r \in Seq(Entry), EndOf(r, all),
         NEW f, NEW c \in Nat, Extract(all, f, 0, c)
  PROVE  /\ Extract(r, f, 0, c)
         /\ all # <<>> /\ Covers(entries, all, f, all[1].id, c)
              => Covers(entries, r, f, r[1].id, c)
  <1>1. Extract(r, f, 0, c)
    BY DEF EndOf, Extract
  <1>2. ASSUME all # <<>>, Covers(entries, all, f, all[1].id, c)
        PROVE  Covers(entries, r, f, r[1].id, c)
    <2>1. r # <<>>
      BY <1>2 DEF EndOf
    <2>2. 1 \in 1..Len(all) /\ 1 \in 1..Len(r)
      <3>1. Len(all) \in Nat /\ Len(all) # 0 /\ Len(r) \in Nat /\ Len(r) # 0
        BY <1>2, <2>1
      <3> QED
        BY <3>1
    <2>3. all[1] \in Entry /\ r[1] \in Entry
      BY <2>2
    <2>4. all[1].id \in Nat /\ r[1].id \in Nat
      BY <2>3 DEF Entry
    <2>5. all[1].id <= r[1].id
      <3>1. PICK k \in 1..Len(all) : r[1] = all[k]
        BY <2>2 DEF EndOf
      <3>2. CASE k = 1
        BY <2>4, <3>1, <3>2
      <3>3. CASE k # 1
        <4>1. 1 < k
          BY <3>3
        <4>2. all[1].id < all[k].id
          BY <2>2, <4>1 DEF Extract, Rising
        <4> QED
          BY <2>4, <3>1, <4>2
      <3> QED
        BY <3>2, <3>3
    <2> SUFFICES ASSUME NEW i \in 1..Len(entries), Passes(entries[i], f),
                        r[1].id <= entries[i].id, entries[i].id <= c
                 PROVE  \E j \in 1..Len(r) : r[j] = entries[i]
      BY DEF Covers
    <2>6. entries[i].id \in Nat
      <3>1. entries[i] \in Entry
        BY DEF BufferInv, BufferTypeOK
      <3> QED
        BY <3>1 DEF Entry
    <2>7. all[1].id <= entries[i].id
      BY <2>4, <2>5, <2>6
    <2>8. PICK k \in 1..Len(all) : all[k] = entries[i]
      BY <1>2, <2>7 DEF Covers
    <2> QED
      BY <2>1, <2>8 DEF EndOf
  <1> QED
    BY <1>1, <1>2

(* What is on the page and in an answer, together; where it ends; and      *)
(* whether something of it has been left out.                              *)
Together(q) == shown \o request[q].reply
EndsAt(q) ==
  IF request[q].reply = <<>> THEN cursor ELSE request[q].reply[Len(request[q].reply)].id
LeftOut(q) == behind \/ (request[q].cut /\ request[q].since > 0)

LEMMA PageContinued ==
  ASSUME BufferInv, FeedTypeOK, PageInv, NEW q \in Request, AnswerInv(q),
         request[q].pc = "answered"
  PROVE  /\ Together(q) \in Seq(Entry)
         /\ EndsAt(q) \in Nat /\ EndsAt(q) <= nextID
         /\ Extract(Together(q), filter, 0, EndsAt(q))
         /\ Together(q) = <<>> => EndsAt(q) = 0
         /\ Together(q) # <<>> => EndsAt(q) = Together(q)[Len(Together(q))].id
         /\ ~LeftOut(q) /\ Together(q) # <<>> =>
              Covers(entries, Together(q), filter, Together(q)[1].id, EndsAt(q))
  <1> DEFINE r == request[q].reply
             all == Together(q)
             c == EndsAt(q)
             b == LeftOut(q)
  <1>1. /\ all = shown \o r
        /\ c = IF r = <<>> THEN cursor ELSE r[Len(r)].id
        /\ b <=> (behind \/ (request[q].cut /\ request[q].since > 0))
    BY DEF Together, EndsAt, LeftOut
  <1>2. /\ r \in Seq(Entry) /\ shown \in Seq(Entry) /\ cursor \in Nat /\ nextID \in Nat
        /\ request[q].cut \in BOOLEAN
    BY DEF FeedTypeOK, RequestType, BufferInv, BufferTypeOK
  <1>3. /\ request[q].since = cursor
        /\ Extract(r, filter, cursor, nextID)
        /\ r # <<>> => /\ Covers(entries, r, filter, r[1].id, r[Len(r)].id)
                       /\ ~request[q].cut =>
                            Covers(entries, r, filter, cursor + 1, r[Len(r)].id)
    BY DEF AnswerInv
  <1>4. /\ cursor <= nextID
        /\ Extract(shown, filter, 0, cursor)
        /\ shown = <<>> => cursor = 0
        /\ shown # <<>> => cursor = shown[Len(shown)].id
        /\ ~behind /\ shown # <<>> => Covers(entries, shown, filter, shown[1].id, cursor)
    BY DEF PageInv
  <1> SUFFICES /\ all \in Seq(Entry)
               /\ c \in Nat /\ c <= nextID
               /\ Extract(all, filter, 0, c)
               /\ all = <<>> => c = 0
               /\ all # <<>> => c = all[Len(all)].id
               /\ ~b /\ all # <<>> => Covers(entries, all, filter, all[1].id, c)
    OBVIOUS
  <1> HIDE DEF r, all, c, b
  <1>5. CASE r = <<>>
    <2>1. all = shown /\ c = cursor
      BY <1>2, <1>5, <1>1
    <2>2. ~b => ~behind
      BY <1>1
    <2> QED
      BY <1>2, <1>4, <2>1, <2>2
  <1>6. CASE r # <<>>
    <2>1. c = r[Len(r)].id /\ Len(r) \in 1..Len(r) /\ 1 \in 1..Len(r)
      <3>1. Len(r) \in Nat /\ Len(r) # 0
        BY <1>2, <1>6
      <3> QED
        BY <1>6, <1>1, <3>1
    <2>2. \A i \in 1..Len(r) : r[i].id \in Nat
      <3> SUFFICES ASSUME NEW i \in 1..Len(r)
                   PROVE  r[i].id \in Nat
        OBVIOUS
      <3>1. r[i] \in Entry
        BY <1>2
      <3> QED
        BY <3>1 DEF Entry
    <2>3. c \in Nat /\ cursor < c /\ c <= nextID
      BY <1>3, <2>1, <2>2 DEF Extract
    <2>4. \A i \in 1..Len(r) : r[i].id <= c
      <3> SUFFICES ASSUME NEW i \in 1..Len(r)
                   PROVE  r[i].id <= c
        OBVIOUS
      <3>1. CASE i = Len(r)
        BY <2>1, <2>2, <3>1
      <3>2. CASE i # Len(r)
        <4>1. i < Len(r)
          BY <1>2, <3>2
        <4>2. r[i].id < r[Len(r)].id
          BY <1>3, <2>1, <4>1 DEF Extract, Rising
        <4> QED
          BY <2>1, <2>2, <4>2
      <3> QED
        BY <3>1, <3>2
    <2>5. Extract(r, filter, cursor, c)
      BY <1>3, <2>4 DEF Extract
    <2>6. /\ all \in Seq(Entry)
          /\ Extract(all, filter, 0, c)
          /\ Within(shown, all) /\ Within(r, all)
      <3>1. cursor <= c
        BY <1>2, <2>3
      <3> QED
        BY <1>2, <1>4, <1>1, <2>3, <2>5, <3>1, ExtractJoined
    <2>7. all # <<>> /\ all[Len(all)] = r[Len(r)]
      BY <1>2, <1>1, <2>1
    <2>8. ASSUME ~b
          PROVE  Covers(entries, all, filter, all[1].id, c)
      <3>1. CASE shown = <<>>
        <4>1. all = r
          BY <1>2, <1>1, <3>1
        <4> QED
          BY <1>3, <1>6, <2>1, <4>1
      <3>2. CASE shown # <<>>
        <4>1. Len(shown) \in Nat /\ Len(shown) # 0
          BY <1>2, <3>2
        <4>2. 1 \in 1..Len(shown) /\ Len(shown) \in 1..Len(shown) /\ all[1] = shown[1]
          BY <1>2, <1>1, <4>1
        <4>3. shown[Len(shown)] \in Entry
          BY <1>2, <4>2
        <4>4. cursor > 0
          BY <1>2, <1>4, <3>2, <4>2 DEF Extract
        <4>5. ~behind /\ ~request[q].cut
          BY <1>2, <1>3, <1>1, <2>8, <4>4
        <4> SUFFICES ASSUME NEW i \in 1..Len(entries), Passes(entries[i], filter),
                            shown[1].id <= entries[i].id, entries[i].id <= c
                     PROVE  \E j \in 1..Len(all) : all[j] = entries[i]
          BY <4>2 DEF Covers
        <4>6. entries[i].id \in Nat
          <5>1. entries[i] \in Entry
            BY DEF BufferInv, BufferTypeOK
          <5> QED
            BY <5>1 DEF Entry
        <4>7. CASE entries[i].id <= cursor
          <5>1. PICK k \in 1..Len(shown) : shown[k] = entries[i]
            BY <1>4, <3>2, <4>5, <4>7 DEF Covers
          <5> QED
            BY <2>6, <5>1 DEF Within
        <4>8. CASE ~(entries[i].id <= cursor)
          <5>1. cursor + 1 <= entries[i].id
            BY <1>2, <4>6, <4>8
          <5>2. PICK k \in 1..Len(r) : r[k] = entries[i]
            BY <1>3, <1>6, <2>1, <4>5, <5>1 DEF Covers
          <5> QED
            BY <2>6, <5>2 DEF Within
        <4> QED
          BY <4>7, <4>8
      <3> QED
        BY <3>1, <3>2
    <2> QED
      BY <2>1, <2>3, <2>6, <2>7, <2>8
  <1> QED
    BY <1>5, <1>6

(* The page takes an answer.                                               *)
LEMMA IncomingStep ==
  ASSUME ConsoleInv, NEW q \in Request, Incoming(q)
  PROVE  ConsoleInv'
  <1> DEFINE r == request[q].reply
             all == Together(q)
  <1>1. BufferInv /\ FeedTypeOK
    BY DEF ConsoleInv
  <1>2. BufferInv' /\ entries' = entries /\ nextID' = nextID
    BY <1>1, StillGrows DEF Incoming, logVars
  <1>3. /\ cursor' = EndsAt(q)
        /\ cursor' = IF r = <<>> THEN cursor ELSE r[Len(r)].id
        /\ shown' = Newest(all, UiCap)
        /\ (behind' <=> LeftOut(q)) /\ behind' \in BOOLEAN
        /\ request' = [request EXCEPT ![q] = NoRequest]
        /\ filter' = filter /\ calm' = calm
        /\ request[q].pc = "answered"
    BY DEF Incoming, Together, EndsAt, LeftOut
  <1>4. r \in Seq(Entry) /\ shown \in Seq(Entry) /\ cursor \in Nat
    BY <1>1 DEF FeedTypeOK, RequestType
  <1>5. UiCap \in Nat \ {0}
    BY ConsoleAssumption
  <1>6. all \in Seq(Entry)
    BY <1>4 DEF Together
  <1> HIDE DEF all, r
  <1>7. shown' \in Seq(Entry)
    BY <1>3, <1>5, <1>6, NewestSuffix
  <1>8. cursor' \in Nat
    <2>1. CASE r = <<>>
      BY <1>3, <1>4, <2>1
    <2>2. CASE r # <<>>
      <3>1. Len(r) \in Nat /\ Len(r) # 0
        BY <1>4, <2>2
      <3>2. r[Len(r)] \in Entry
        BY <1>4, <3>1
      <3> QED
        BY <1>3, <2>2, <3>2 DEF Entry
    <2> QED
      BY <2>1, <2>2
  <1>9. FeedTypeOK'
    <2>1. NoRequest \in RequestType
      <3>1. <<>> \in Seq(Entry)
        OBVIOUS
      <3> QED
        BY <3>1 DEF NoRequest, RequestType
    <2> QED
      BY <1>1, <1>3, <1>7, <1>8, <2>1 DEF FeedTypeOK
  <1>10. ASSUME calm'
         PROVE  PageInv' /\ RequestInv'
    <2>1. PageInv /\ RequestInv
      BY <1>3, <1>10 DEF ConsoleInv
    <2>2. \A u \in Request : request'[u].pc = "idle"
      <3>1. \A u \in Request : request'[u] = IF u = q THEN NoRequest ELSE request[u]
        BY <1>1, <1>3 DEF FeedTypeOK
      <3> QED
        BY <1>3, <2>1, <3>1 DEF RequestInv, NoRequest
    <2>3. RequestInv'
      BY <2>2 DEF RequestInv
    <2>4. AnswerInv(q)
      BY <1>3, <2>1 DEF RequestInv
    <2>5. /\ cursor' \in Nat /\ cursor' <= nextID
          /\ Extract(all, filter, 0, cursor')
          /\ all = <<>> => cursor' = 0
          /\ all # <<>> => cursor' = all[Len(all)].id
          /\ ~behind' /\ all # <<>> => Covers(entries, all, filter, all[1].id, cursor')
      BY <1>1, <1>3, <2>1, <2>4, PageContinued DEF all
    <2>6. EndOf(shown', all)
      BY <1>3, <1>5, <1>6, <2>5, NewestOfRising DEF Extract
    <2>7. /\ Extract(shown', filter, 0, cursor')
          /\ all # <<>> /\ Covers(entries, all, filter, all[1].id, cursor')
               => Covers(entries, shown', filter, shown'[1].id, cursor')
      BY <1>1, <1>6, <1>7, <2>5, <2>6, PageEnds
    <2>8. /\ shown' = <<>> <=> all = <<>>
          /\ shown' # <<>> => shown'[Len(shown')] = all[Len(all)]
      BY <2>6 DEF EndOf
    <2>9. PageInv'
      BY <1>2, <1>3, <2>5, <2>7, <2>8 DEF PageInv, Extract, Rising
    <2> QED
      BY <2>3, <2>9
  <1> QED
    BY <1>2, <1>9, <1>10 DEF ConsoleInv

(* The page is emptied: only a poll that is under way is still of the old  *)
(* one, and then the page is not calm.                                     *)
LEMMA StartAnewStep ==
  ASSUME ConsoleInv, StartAnew, filter' \in Level \cup {"all"}
  PROVE  ConsoleInv'
  <1>1. BufferInv /\ FeedTypeOK
    BY DEF ConsoleInv
  <1>2. BufferInv' /\ Grows
    BY <1>1, StillGrows DEF StartAnew
  <1>3. shown' = <<>> /\ cursor' = 0 /\ behind' = FALSE /\ request' = request /\ calm' = Idle
    BY DEF StartAnew
  <1>4. FeedTypeOK'
    <2>1. <<>> \in Seq(Entry)
      OBVIOUS
    <2>2. Idle \in BOOLEAN
      BY DEF Idle
    <2> QED
      BY <1>1, <1>3, <2>1, <2>2 DEF FeedTypeOK
  <1>5. ASSUME calm'
        PROVE  RequestInv'
    BY <1>3, <1>5 DEF RequestInv, Idle
  <1>6. PageInv'
    <2>1. nextID' \in Nat /\ 0 <= nextID'
      BY <1>2 DEF Grows
    <2> QED
      BY <1>3, <2>1 DEF PageInv, Extract, Rising
  <1> QED
    BY <1>2, <1>4, <1>5, <1>6 DEF ConsoleInv

(* The orchestrator starts again.                                          *)
LEMMA RebootStep ==
  ASSUME ConsoleInv, Reboot
  PROVE  ConsoleInv'
  <1>1. BufferInv /\ FeedTypeOK
    BY DEF ConsoleInv
  <1>2. BufferInv'
    BY CapacityAssumption DEF Reboot, BufferInv, BufferTypeOK, EntriesAreNewest, Text
  <1>3. NoRequest \in RequestType
    <2>1. <<>> \in Seq(Entry)
      OBVIOUS
    <2> QED
      BY <2>1 DEF NoRequest, RequestType
  <1>4. request' \in [Request -> RequestType]
    BY <1>1, <1>3 DEF Reboot, FeedTypeOK
  <1>5. FeedTypeOK' /\ ~calm'
    BY <1>1, <1>4 DEF Reboot, FeedTypeOK, feed
  <1> QED
    BY <1>2, <1>5 DEF ConsoleInv

LEMMA ConsoleStep == ConsoleInv /\ [ConsoleNext]_consoleVars => ConsoleInv'
  <1> SUFFICES ASSUME ConsoleInv, [ConsoleNext]_consoleVars
               PROVE  ConsoleInv'
    OBVIOUS
  <1>1. CASE Log
    BY <1>1, LogGrows, LogStep DEF Log, ConsoleInv
  <1>2. CASE ChooseFilter
    <2>1. filter' \in Level \cup {"all"}
      BY <1>2 DEF ChooseFilter, Level
    <2> QED
      BY <1>2, <2>1, StartAnewStep DEF ChooseFilter
  <1>3. CASE Clear
    <2>1. filter' \in Level \cup {"all"}
      BY <1>3 DEF Clear, ConsoleInv, FeedTypeOK
    <2> QED
      BY <1>3, <2>1, StartAnewStep DEF Clear
  <1>4. CASE Reboot
    BY <1>4, RebootStep
  <1>5. ASSUME NEW q \in Request, PollLogs(q) \/ Logs(q) \/ PollFails(q) \/ Incoming(q)
        PROVE  ConsoleInv'
    BY <1>5, PollLogsStep, LogsStep, PollFailsStep, IncomingStep
  <1>6. CASE UNCHANGED consoleVars
    <2>1. UNCHANGED <<logVars, feed, request, calm>>
      BY <1>6 DEF consoleVars, feed
    <2> QED
      BY <2>1, StillGrows, LogStep DEF ConsoleInv
  <1> QED
    BY <1>1, <1>2, <1>3, <1>4, <1>5, <1>6 DEF ConsoleNext

(* What the page of the logs tab shows, for any buffer, limit, cap and     *)
(* number of polls: since it was last emptied, as long as polls do not     *)
(* overlap and the orchestrator runs on, every entry of the filter from    *)
(* the first one shown up to the cursor that the buffer still has, once    *)
(* and in order; unless an answer was cut.                                 *)
THEOREM FeedIsFaithful == ConsoleSpec => []FeedFaithful
  <1>1. ConsoleInv => FeedFaithful
    <2> SUFFICES ASSUME ConsoleInv, calm
                 PROVE  FeedFaithful
      BY DEF FeedFaithful
    <2>1. PageInv /\ shown \in Seq(Entry) /\ entries \in Seq(Entry)
      BY DEF ConsoleInv, FeedTypeOK, BufferInv, BufferTypeOK
    <2>2. DOMAIN shown = 1..Len(shown) /\ DOMAIN entries = 1..Len(entries)
      BY <2>1
    <2>3. \A i, j \in DOMAIN shown : i < j => shown[i].id < shown[j].id
      BY <2>1, <2>2 DEF PageInv, Extract, Rising
    <2>4. \A i \in DOMAIN shown : Passes(shown[i], filter)
      BY <2>1, <2>2 DEF PageInv, Extract
    <2>5. shown # <<>> => cursor = shown[Len(shown)].id
      BY <2>1 DEF PageInv
    <2>6. ASSUME ~behind, shown # <<>>, NEW i \in DOMAIN entries,
                 Passes(entries[i], filter), entries[i].id \in shown[1].id..cursor
          PROVE  \E j \in DOMAIN shown : shown[j] = entries[i]
      <3>1. shown[1].id <= entries[i].id /\ entries[i].id <= cursor
        BY <2>6
      <3> QED
        BY <2>1, <2>2, <2>6, <3>1 DEF PageInv, Covers
    <2> QED
      BY <2>3, <2>4, <2>5, <2>6 DEF FeedFaithful
  <1> QED
    BY ConsoleStart, ConsoleStep, <1>1, PTL DEF ConsoleSpec
=============================================================================
