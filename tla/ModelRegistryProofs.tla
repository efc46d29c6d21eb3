------------------------- MODULE ModelRegistryProofs -------------------------
(***************************************************************************)
(* Proofs about ModelRegistry, for any number of models, systems and       *)
(* processes and any limits: types, the soundness of the candidate lists,  *)
(* and the human review of what the dashboard promotes.                    *)
(***************************************************************************)
EXTENDS ModelRegistry, SequenceTheorems, FiniteSetTheorems, TLAPS

-----------------------------------------------------------------------------
(* Lists of records, whatever their order *)

\* Descending and without a repeated name, of any length.
Ordered(list) ==
  \A i, j \in DOMAIN list :
    i < j => list[i].rank >= list[j].rank /\ list[i].model # list[j].model

LEMMA RankIsNat ==
  ASSUME NEW r \in Record
  PROVE  r.rank \in Nat /\ r.model \in Models
<1>1. Ranks \subseteq Nat
  BY ScoresAssumption DEF Ranks
<1>2. QED
  BY <1>1 DEF Record

\* Cutting a list keeps its type, its order and its names, and bounds it.
LEMMA KeepSound ==
  ASSUME NEW S, NEW list \in Seq(S), NEW n \in Nat \ {0}
  PROVE  /\ Keep(list, n) \in Seq(S)
         /\ Len(Keep(list, n)) <= n
         /\ Len(Keep(list, n)) <= Len(list)
         /\ Len(Keep(list, n)) = IF Len(list) <= n THEN Len(list) ELSE n
         /\ \A i \in 1..Len(Keep(list, n)) : Keep(list, n)[i] = list[i]
<1>1. CASE Len(list) <= n
  BY <1>1 DEF Keep
<1>2. CASE ~(Len(list) <= n)
  <2>1. \A i \in 1..n : list[i] \in S
    BY <1>2
  <2>2. /\ SubSeq(list, 1, n) \in Seq(S)
        /\ Len(SubSeq(list, 1, n)) = n
        /\ \A i \in 1..n : SubSeq(list, 1, n)[i] = list[i]
    BY <2>1, SubSeqProperties
  <2>3. QED
    BY <1>2, <2>2 DEF Keep
<1>3. QED
  BY <1>1, <1>2

\* Taking a model out leaves a list of the same order without that model.
LEMMA WithoutSound ==
  ASSUME NEW list \in Seq(Record), NEW m \in Models, Ordered(list)
  PROVE  /\ Without(list, m) \in Seq(Record)
         /\ Len(Without(list, m)) <= Len(list)
         /\ Ordered(Without(list, m))
         /\ m \notin Names(Without(list, m))
         /\ Names(Without(list, m)) \subseteq Names(list)
         /\ ToSet(Without(list, m)) = {c \in ToSet(list) : c.model # m}
<1>1. CASE m \notin Names(list)
  <2>1. Without(list, m) = list
    BY <1>1 DEF Without
  <2>2. \A c \in ToSet(list) : c.model # m
    BY <1>1 DEF Names, ToSet
  <2>3. QED
    BY <1>1, <2>1, <2>2
<1>2. CASE m \in Names(list)
  <2>. DEFINE k == CHOOSE i \in DOMAIN list : list[i].model = m
              front == SubSeq(list, 1, k-1)
              back == SubSeq(list, k+1, Len(list))
  <2>0. Without(list, m) = RemoveAt(list, k)
    BY <1>2 DEF Without
  <2>1. k \in 1..Len(list) /\ list[k].model = m
    BY <1>2 DEF Names
  <2>. HIDE DEF k
  <2>2. /\ front \in Seq(Record)
        /\ Len(front) = k - 1
        /\ \A i \in 1..(k-1) : front[i] = list[i]
    <3>1. \A i \in 1..(k-1) : list[i] \in Record
      BY <2>1
    <3>2. QED
      BY <2>1, <3>1, SubSeqProperties
  <2>3. /\ back \in Seq(Record)
        /\ Len(back) = Len(list) - k
        /\ \A i \in 1..(Len(list)-k) : back[i] = list[k+i]
    <3>1. \A i \in (k+1)..Len(list) : list[i] \in Record
      BY <2>1
    <3>2. /\ SubSeq(list, k+1, Len(list)) \in Seq(Record)
          /\ Len(SubSeq(list, k+1, Len(list))) =
               IF k+1 <= Len(list) THEN Len(list)-(k+1)+1 ELSE 0
          /\ \A i \in 1 .. Len(list)-(k+1)+1 :
               SubSeq(list, k+1, Len(list))[i] = list[(k+1)+i-1]
      BY <2>1, <3>1, SubSeqProperties
    <3>3. QED
      BY <2>1, <3>2
  <2>. DEFINE rest == front \o back
  <2>4. /\ rest \in Seq(Record)
        /\ Len(rest) = Len(list) - 1
        /\ \A i \in 1..(Len(list)-1) :
             rest[i] = IF i < k THEN list[i] ELSE list[i+1]
    <3>1. /\ rest \in Seq(Record)
          /\ Len(rest) = Len(front) + Len(back)
          /\ \A i \in 1 .. Len(front) + Len(back) :
               rest[i] = IF i <= Len(front) THEN front[i] ELSE back[i - Len(front)]
      BY <2>2, <2>3, ConcatProperties
    <3>. HIDE DEF rest, front, back
    <3>2. Len(rest) = Len(list) - 1
      BY <2>1, <2>2, <2>3, <3>1
    <3>3. ASSUME NEW i \in 1..(Len(list)-1)
          PROVE  rest[i] = IF i < k THEN list[i] ELSE list[i+1]
      <4>1. CASE i < k
        BY <4>1, <2>1, <2>2, <2>3, <3>1
      <4>2. CASE i >= k
        <5>1. rest[i] = back[i - (k-1)]
          <6>1. i \in 1 .. Len(front) + Len(back) /\ ~(i <= Len(front))
            BY <4>2, <2>1, <2>2, <2>3
          <6>2. rest[i] = back[i - Len(front)]
            BY <6>1, <3>1
          <6>3. QED
            BY <6>2, <2>2
        <5>2. i - (k-1) \in 1..(Len(list)-k) /\ k + (i - (k-1)) = i + 1
          BY <4>2, <2>1
        <5>3. QED
          BY <4>2, <5>1, <5>2, <2>1, <2>3
      <4>3. QED
        BY <4>1, <4>2, <2>1
    <3>4. QED
      BY <3>1, <3>2, <3>3
  <2>5. Without(list, m) = rest
    BY <2>0 DEF RemoveAt
  <2>. HIDE DEF rest
  <2>. DEFINE at(i) == IF i < k THEN i ELSE i + 1
  <2>11. /\ DOMAIN rest = 1..(Len(list)-1)
         /\ \A i \in 1..(Len(list)-1) :
              rest[i] = list[at(i)] /\ at(i) \in 1..Len(list) /\ at(i) # k
    BY <2>1, <2>4
  <2>12. \A i, j \in 1..(Len(list)-1) : i < j => at(i) < at(j)
    BY <2>1
  <2>13. \A a, b \in 1..Len(list) : a < b => /\ list[a].rank >= list[b].rank
                                           /\ list[a].model # list[b].model
    BY DEF Ordered
  <2>14. \A a \in 1..Len(list) : a # k => list[a].model # m
    <3>1. \A a \in 1..Len(list) : a # k => a < k \/ k < a
      BY <2>1
    <3>2. QED
      BY <2>1, <2>13, <3>1
  <2>. HIDE DEF at
  <2>6. Ordered(rest)
    BY <2>11, <2>12, <2>13 DEF Ordered
  <2>7. m \notin Names(rest)
    BY <2>11, <2>14 DEF Names
  <2>8. Names(rest) \subseteq Names(list)
    BY <2>1, <2>4 DEF Names
  <2>9. ToSet(rest) = {c \in ToSet(list) : c.model # m}
    <3>1. ASSUME NEW c \in ToSet(rest)
          PROVE  c \in ToSet(list) /\ c.model # m
      <4>1. PICK i \in 1..(Len(list)-1) : c = rest[i]
        BY <2>11 DEF ToSet
      <4>2. QED
        BY <4>1, <2>11, <2>14 DEF ToSet
    <3>2. ASSUME NEW c \in ToSet(list), c.model # m
          PROVE  c \in ToSet(rest)
      <4>1. PICK a \in 1..Len(list) : c = list[a]
        BY DEF ToSet
      <4>2. a # k
        BY <4>1, <3>2, <2>1
      <4>3. CASE a < k
        <5>1. a \in 1..(Len(list)-1) /\ rest[a] = list[a]
          BY <4>3, <2>1, <2>4
        <5>2. QED
          BY <5>1, <4>1, <2>11 DEF ToSet
      <4>4. CASE a > k
        <5>1. a-1 \in 1..(Len(list)-1) /\ ~(a-1 < k) /\ (a-1)+1 = a
          BY <4>4, <2>1
        <5>2. rest[a-1] = list[a]
          BY <5>1, <2>4
        <5>3. QED
          BY <5>1, <5>2, <4>1, <2>11 DEF ToSet
      <4>5. QED
        BY <4>2, <4>3, <4>4, <2>1
    <3>3. QED
      BY <3>1, <3>2
  <2>10. QED
    BY <2>4, <2>5, <2>6, <2>7, <2>8, <2>9
<1>3. QED
  BY <1>1, <1>2

\* In an ordered list the records of at least some score come first.
LEMMA RankableIsPrefix ==
  ASSUME NEW list \in Seq(Record), NEW r \in Record, Ordered(list)
  PROVE  /\ Rankable(list, r) \in 0..Len(list)
         /\ \A i \in 1..Len(list) :
              i <= Rankable(list, r) <=> list[i].rank >= r.rank
<1>. DEFINE S == {i \in DOMAIN list : list[i].rank >= r.rank}
            n == Len(list)
<1>1. n \in Nat /\ DOMAIN list = 1..n
  OBVIOUS
<1>2. r.rank \in Nat /\ \A i \in 1..n : list[i].rank \in Nat
  BY RankIsNat
<1>3. IsFiniteSet(1..n) /\ Cardinality(1..n) = n
  <2>1. n \in Nat /\ 1 \in Int /\ n \in Int /\ (1 > n => n = 0) /\ n - 1 + 1 = n
    OBVIOUS
  <2>. HIDE DEF n
  <2>2. /\ IsFiniteSet(1..n)
        /\ Cardinality(1..n) = IF 1 > n THEN 0 ELSE n - 1 + 1
    BY ONLY <2>1, FS_Interval
  <2>3. QED
    BY ONLY <2>1, <2>2
<1>4. IsFiniteSet(S) /\ Cardinality(S) <= n /\ Cardinality(S) \in Nat
  BY <1>1, <1>3, FS_Subset, FS_CardinalityType
<1>5. \A i, j \in 1..n : i \in S /\ j <= i => j \in S
  <2>. SUFFICES ASSUME NEW i \in 1..n, NEW j \in 1..n, i \in S, j <= i
                PROVE  j \in S
    OBVIOUS
  <2>1. list[i].rank >= r.rank
    OBVIOUS
  <2>2. list[j].rank >= list[i].rank
    <3>1. CASE j = i
      BY <3>1, <1>2
    <3>2. CASE j < i
      BY <3>2 DEF Ordered
    <3>3. QED
      BY <3>1, <3>2
  <2>3. QED
    BY <2>1, <2>2, <1>1, <1>2
<1>6. ASSUME NEW i \in 1..n, i \in S
      PROVE  i <= Cardinality(S)
  <2>1. 1..i \subseteq S
    BY <1>5, <1>6
  <2>2. Cardinality(1..i) <= Cardinality(S)
    BY <2>1, <1>4, FS_Subset
  <2>3. QED
    BY <2>2, FS_Interval
<1>7. ASSUME NEW i \in 1..n, i \notin S
      PROVE  Cardinality(S) < i
  <2>1. S \subseteq 1..(i-1)
    BY <1>1, <1>5, <1>7
  <2>2. IsFiniteSet(1..(i-1)) /\ Cardinality(1..(i-1)) = i - 1
    BY FS_Interval
  <2>3. Cardinality(S) <= i - 1
    BY <2>1, <2>2, FS_Subset
  <2>4. QED
    BY <2>3, <1>4
<1>8. Rankable(list, r) = Cardinality(S)
  BY DEF Rankable
<1>9. \A i \in 1..n : i \in S <=> list[i].rank >= r.rank
  BY <1>1
<1>10. ASSUME NEW i \in 1..n
       PROVE  i <= Cardinality(S) <=> i \in S
  <2>. HIDE DEF S
  <2>1. QED
    BY <1>4, <1>6, <1>7
<1>. HIDE DEF S
<1>11. QED
  BY <1>1, <1>4, <1>8, <1>9, <1>10

\* Ranking a record of a new name keeps the list ordered.
LEMMA RankedSound ==
  ASSUME NEW list \in Seq(Record), NEW r \in Record, Ordered(list),
         r.model \notin Names(list)
  PROVE  /\ Ranked(list, r) \in Seq(Record)
         /\ Ordered(Ranked(list, r))
         /\ Names(Ranked(list, r)) = Names(list) \union {r.model}
         /\ Len(Ranked(list, r)) = Len(list) + 1
         /\ ToSet(Ranked(list, r)) = ToSet(list) \union {r}
<1>. DEFINE k == Rankable(list, r)
            n == Len(list)
            front == SubSeq(list, 1, k)
            back == SubSeq(list, k+1, n)
            out == Ranked(list, r)
<1>1. k \in 0..n /\ \A i \in 1..n : i <= k <=> list[i].rank >= r.rank
  BY RankableIsPrefix
<1>. HIDE DEF k
<1>2. /\ front \in Seq(Record)
      /\ Len(front) = k
      /\ \A i \in 1..k : front[i] = list[i]
  <2>1. \A i \in 1..k : list[i] \in Record
    BY <1>1
  <2>2. QED
    BY <1>1, <2>1, SubSeqProperties
<1>3. /\ back \in Seq(Record)
      /\ Len(back) = n - k
      /\ \A i \in 1..(n-k) : back[i] = list[k+i]
  <2>1. \A i \in (k+1)..n : list[i] \in Record
    BY <1>1
  <2>2. /\ back \in Seq(Record)
        /\ Len(back) = IF k+1 <= n THEN n-(k+1)+1 ELSE 0
        /\ \A i \in 1 .. n-(k+1)+1 : back[i] = list[(k+1)+i-1]
    BY <1>1, <2>1, SubSeqProperties
  <2>. HIDE DEF back
  <2>3. QED
    BY <1>1, <2>2
<1>4. out = (front \o <<r>>) \o back
  <2>1. out = SubSeq(list, 1, (k+1)-1) \o <<r>> \o SubSeq(list, k+1, Len(list))
    BY DEF Ranked, InsertAt, k
  <2>2. (k+1)-1 = k
    BY <1>1
  <2>3. QED
    BY <2>1, <2>2
<1>. HIDE DEF front, back, out
<1>5. /\ front \o <<r>> \in Seq(Record)
      /\ Len(front \o <<r>>) = k + 1
      /\ \A i \in 1..k+1 : (front \o <<r>>)[i] = IF i <= k THEN list[i] ELSE r
  BY <1>1, <1>2
<1>6. /\ out \in Seq(Record)
      /\ Len(out) = n + 1
      /\ \A i \in 1..n+1 : out[i] = IF i <= k THEN list[i]
                                    ELSE IF i = k+1 THEN r ELSE list[i-1]
  <2>. DEFINE fr == front \o <<r>>
  <2>1. /\ fr \o back \in Seq(Record)
        /\ Len(fr \o back) = Len(fr) + Len(back)
        /\ \A i \in 1 .. Len(fr) + Len(back) :
             (fr \o back)[i] = IF i <= Len(fr) THEN fr[i] ELSE back[i - Len(fr)]
    BY <1>3, <1>5, ConcatProperties
  <2>. HIDE DEF fr
  <2>2. /\ fr \in Seq(Record) /\ Len(fr) = k + 1
        /\ \A i \in 1..k+1 : fr[i] = IF i <= k THEN list[i] ELSE r
    BY <1>5 DEF fr
  <2>3. out = fr \o back
    BY <1>4 DEF fr
  <2>4. Len(out) = n + 1
    BY <1>1, <1>3, <2>1, <2>2, <2>3
  <2>5. ASSUME NEW i \in 1..n+1
        PROVE  out[i] = IF i <= k THEN list[i]
                        ELSE IF i = k+1 THEN r ELSE list[i-1]
    <3>1. CASE i <= k+1
      BY <3>1, <1>1, <1>3, <2>1, <2>2, <2>3
    <3>2. CASE i > k+1
      <4>1. out[i] = back[i - (k+1)]
        BY <3>2, <1>1, <1>3, <2>1, <2>2, <2>3
      <4>2. i - (k+1) \in 1..(n-k) /\ k + (i - (k+1)) = i - 1
        BY <3>2, <1>1
      <4>3. back[i - (k+1)] = list[i - 1]
        BY <4>2, <1>3
      <4>4. QED
        BY <3>2, <4>1, <4>3, <1>1
    <3>3. QED
      BY <3>1, <3>2, <1>1
  <2>6. QED
    BY <2>1, <2>3, <2>4, <2>5
<1>7. /\ r.rank \in Nat /\ r.model \in Models
      /\ \A i \in 1..n : list[i].rank \in Nat
      /\ \A i \in 1..n : list[i].model # r.model
  BY RankIsNat DEF Names
<1>8. Ordered(out)
  <2>1. \A i, j \in 1..n : i < j => /\ list[i].rank >= list[j].rank
                                    /\ list[i].model # list[j].model
    BY DEF Ordered
  <2>2. \A i \in 1..n : list[i].rank >= r.rank \/ r.rank >= list[i].rank
    BY <1>7
  <2>3. \A i \in 1..k : i \in 1..n /\ out[i] = list[i] /\ list[i].rank >= r.rank
    BY <1>1, <1>6
  <2>4. out[k+1] = r
    BY <1>1, <1>6
  <2>5. \A i \in (k+2)..(n+1) : /\ i-1 \in 1..n /\ out[i] = list[i-1]
                               /\ r.rank >= list[i-1].rank
    <3>. SUFFICES ASSUME NEW i \in (k+2)..(n+1)
                  PROVE  /\ i-1 \in 1..n /\ out[i] = list[i-1]
                         /\ r.rank >= list[i-1].rank
      OBVIOUS
    <3>1. i \in 1..n+1 /\ ~(i <= k) /\ i # k+1 /\ i-1 \in 1..n /\ ~(i-1 <= k)
      BY <1>1
    <3>2. out[i] = list[i-1]
      BY <3>1, <1>6
    <3>3. ~(list[i-1].rank >= r.rank)
      BY <3>1, <1>1
    <3>4. QED
      BY <3>1, <3>2, <3>3, <2>2
  <2>. SUFFICES ASSUME NEW i \in 1..n+1, NEW j \in 1..n+1, i < j
                PROVE  out[i].rank >= out[j].rank /\ out[i].model # out[j].model
    BY <1>6 DEF Ordered
  <2>6. CASE j <= k
    BY <2>6, <2>1, <2>3, <1>1
  <2>7. CASE j = k+1
    <3>1. i \in 1..k
      BY <2>7, <1>1
    <3>2. QED
      BY <2>7, <3>1, <2>3, <2>4, <1>7
  <2>8. CASE j > k+1 /\ i = k+1
    <3>1. j \in (k+2)..(n+1)
      BY <2>8, <1>1
    <3>2. QED
      BY <2>8, <3>1, <2>4, <2>5, <1>7
  <2>9. CASE j > k+1 /\ i <= k
    <3>1. j \in (k+2)..(n+1) /\ i \in 1..k /\ i < j-1
      BY <2>9, <1>1
    <3>2. QED
      BY <3>1, <2>1, <2>3, <2>5
  <2>10. CASE j > k+1 /\ i > k+1
    <3>1. j \in (k+2)..(n+1) /\ i \in (k+2)..(n+1) /\ i-1 < j-1
      BY <2>10, <1>1
    <3>2. QED
      BY <3>1, <2>1, <2>5
  <2>11. QED
    BY <1>1, <2>6, <2>7, <2>8, <2>9, <2>10
<1>9. Names(out) = Names(list) \union {r.model}
  <2>1. Names(out) \subseteq Names(list) \union {r.model}
    BY <1>1, <1>6 DEF Names
  <2>2. r.model \in Names(out)
    <3>1. k+1 \in DOMAIN out /\ out[k+1] = r
      BY <1>1, <1>6
    <3>2. QED
      BY <3>1 DEF Names
  <2>3. ASSUME NEW i \in 1..n PROVE list[i].model \in Names(out)
    <3>1. CASE i <= k
      <4>1. i \in DOMAIN out /\ out[i] = list[i]
        BY <3>1, <1>6, <1>1
      <4>2. QED
        BY <4>1 DEF Names
    <3>2. CASE i > k
      <4>0. i+1 \in 1..n+1 /\ ~(i+1 <= k) /\ i+1 # k+1 /\ (i+1)-1 = i
        BY <3>2, <1>1
      <4>1. i+1 \in DOMAIN out /\ out[i+1] = list[i]
        BY <4>0, <1>6
      <4>2. QED
        BY <4>1 DEF Names
    <3>3. QED
      BY <3>1, <3>2, <1>1
  <2>4. Names(list) \subseteq Names(out)
    <3>1. DOMAIN list = 1..n
      OBVIOUS
    <3>2. QED
      BY <2>3, <3>1 DEF Names
  <2>5. QED
    BY <2>1, <2>2, <2>4
<1>10. ToSet(out) = ToSet(list) \union {r}
  <2>1. ASSUME NEW i \in 1..n+1 PROVE out[i] \in ToSet(list) \union {r}
    <3>1. CASE i <= k
      <4>1. i \in DOMAIN list /\ out[i] = list[i]
        BY <3>1, <1>1, <1>6
      <4>2. QED
        BY <4>1 DEF ToSet
    <3>2. CASE i = k+1
      BY <3>2, <1>1, <1>6
    <3>3. CASE i > k+1
      <4>1. i-1 \in DOMAIN list /\ out[i] = list[i-1]
        BY <3>3, <1>1, <1>6
      <4>2. QED
        BY <4>1 DEF ToSet
    <3>4. QED
      BY <3>1, <3>2, <3>3, <1>1
  <2>2. r \in ToSet(out)
    <3>1. k+1 \in DOMAIN out /\ out[k+1] = r
      BY <1>1, <1>6
    <3>2. QED
      BY <3>1 DEF ToSet
  <2>3. ASSUME NEW i \in 1..n PROVE list[i] \in ToSet(out)
    <3>1. CASE i <= k
      <4>1. i \in DOMAIN out /\ out[i] = list[i]
        BY <3>1, <1>6, <1>1
      <4>2. QED
        BY <4>1 DEF ToSet
    <3>2. CASE i > k
      <4>0. i+1 \in 1..n+1 /\ ~(i+1 <= k) /\ i+1 # k+1 /\ (i+1)-1 = i
        BY <3>2, <1>1
      <4>1. i+1 \in DOMAIN out /\ out[i+1] = list[i]
        BY <4>0, <1>6
      <4>2. QED
        BY <4>1 DEF ToSet
    <3>3. QED
      BY <3>1, <3>2, <1>1
  <2>4. ToSet(list) \subseteq ToSet(out)
    <3>1. DOMAIN list = 1..n
      OBVIOUS
    <3>2. QED
      BY <2>3, <3>1 DEF ToSet
  <2>5. ToSet(out) \subseteq ToSet(list) \union {r}
    <3>1. DOMAIN out = 1..n+1
      BY <1>1, <1>6
    <3>2. QED
      BY <2>1, <3>1 DEF ToSet
  <2>6. QED
    BY <2>2, <2>4, <2>5
<1>11. QED
  BY <1>6, <1>8, <1>9, <1>10 DEF out

-----------------------------------------------------------------------------
(* Blocks *)

\* set_stage(candidate) leaves a sound block.
LEMMA WithCandidateSound ==
  ASSUME NEW b \in Block, NEW m \in Models, artifact[m] \in Ranks,
         BlockSound(b)
  PROVE  WithCandidate(b, m) \in Block /\ BlockSound(WithCandidate(b, m))
<1>. DEFINE r == [model |-> m, rank |-> artifact[m]]
            less == Without(b.candidates, m)
            more == Ranked(less, r)
            kept == Keep(more, MaxCandidates)
<1>1. r \in Record /\ r.model = m
  BY DEF Record
<1>2. b.candidates \in Seq(Record) /\ Ordered(b.candidates)
  BY DEF Block, BlockSound, WellRanked, Ordered
<1>3. less \in Seq(Record) /\ Ordered(less) /\ m \notin Names(less)
  BY <1>2, WithoutSound
<1>. HIDE DEF less, r
<1>4. more \in Seq(Record) /\ Ordered(more)
  BY <1>1, <1>3, RankedSound
<1>. HIDE DEF more
<1>5. /\ kept \in Seq(Record)
      /\ Len(kept) <= MaxCandidates
      /\ Len(kept) <= Len(more)
      /\ \A i \in 1..Len(kept) : kept[i] = more[i]
  BY <1>4, KeepSound, LimitsAssumption
<1>. HIDE DEF kept
<1>6. WellRanked(kept)
  BY <1>4, <1>5 DEF WellRanked, Ordered
<1>7. WithCandidate(b, m) = [b EXCEPT !.candidates = kept]
  BY DEF WithCandidate, kept, more, less, r
<1>8. QED
  BY <1>5, <1>6, <1>7 DEF Block, BlockSound

\* Putting a model in front of a list of earlier ones and cutting it.
LEMMA PushSound ==
  ASSUME NEW m \in Models, NEW list \in Seq(Models), NEW n \in Nat \ {0}
  PROVE  /\ Keep(<<m>> \o list, n) \in Seq(Models)
         /\ Len(Keep(<<m>> \o list, n)) <= n
<1>1. <<m>> \o list \in Seq(Models)
  BY ConcatProperties
<1>2. QED
  BY <1>1, KeepSound

\* promote_model leaves a sound block.
LEMMA PromotedSound ==
  ASSUME NEW b \in Block, NEW m \in Models, BlockSound(b)
  PROVE  Promoted(b, m) \in Block /\ BlockSound(Promoted(b, m))
<1>. DEFINE less == Without(b.candidates, m)
            older == IF b.production = NoModel THEN b.previous
                     ELSE Keep(<<b.production>> \o b.previous, KeepPrevious)
<1>1. b.candidates \in Seq(Record) /\ Ordered(b.candidates)
      /\ Len(b.candidates) <= MaxCandidates
  BY DEF Block, BlockSound, WellRanked, Ordered
<1>2. /\ less \in Seq(Record) /\ Ordered(less)
      /\ Len(less) <= Len(b.candidates)
  BY <1>1, WithoutSound
<1>. HIDE DEF less
<1>3. WellRanked(less)
  BY <1>1, <1>2, LimitsAssumption DEF WellRanked, Ordered
<1>4. /\ older \in Seq(Models)
      /\ Len(older) <= MaxCandidates \/ Len(older) <= KeepPrevious
  <2>1. CASE b.production = NoModel
    BY <2>1 DEF Block, BlockSound
  <2>2. CASE b.production # NoModel
    <3>1. b.production \in Models /\ b.previous \in Seq(Models)
      BY <2>2 DEF Block
    <3>2. QED
      BY <2>2, <3>1, PushSound, LimitsAssumption
  <2>3. QED
    BY <2>1, <2>2
<1>. HIDE DEF older
<1>5. Promoted(b, m) = [production |-> m, previous |-> older, candidates |-> less]
  BY DEF Promoted, older, less
<1>6. QED
  BY <1>2, <1>3, <1>4, <1>5 DEF Block, BlockSound

\* Every job leaves a sound block.
LEMMA ResultsSound ==
  ASSUME NEW j \in Job, NEW b \in Block, NEW x \in Results(j, b),
         artifact \in [Models -> Ranks], BlockSound(b)
  PROVE  x \in Block /\ BlockSound(x)
<1>1. CASE j.op = "candidate"
  <2>1. j.model \in Models /\ x = WithCandidate(b, j.model)
    BY <1>1 DEF Job, Results
  <2>2. QED
    BY <2>1, WithCandidateSound
<1>2. CASE j.op = "production"
  <2>1. j.model \in Models /\ x = [b EXCEPT !.production = j.model]
    BY <1>2 DEF Job, Results, WithProduction
  <2>2. QED
    BY <2>1 DEF Block, BlockSound
<1>3. CASE j.op = "previous"
  <2>1. /\ j.model \in Models
        /\ x = [b EXCEPT !.previous = Keep(<<j.model>> \o b.previous, MaxCandidates)]
    BY <1>3 DEF Job, Results, WithPrevious
  <2>2. b.previous \in Seq(Models)
    BY DEF Block
  <2>3. /\ Keep(<<j.model>> \o b.previous, MaxCandidates) \in Seq(Models)
        /\ Len(Keep(<<j.model>> \o b.previous, MaxCandidates)) <= MaxCandidates
    BY <2>1, <2>2, PushSound, LimitsAssumption
  <2>4. QED
    BY <2>1, <2>3 DEF Block, BlockSound
<1>4. CASE j.op = "resync"
  BY <1>4 DEF Results
<1>5. CASE j.op \in PromotionOps
  <2>1. PICK m \in Selected(j, b) : x = Promoted(b, m)
    BY <1>5 DEF Results, PromotionOps
  <2>2. Selected(j, b) \subseteq Models
    <3>1. b.candidates \in Seq(Record)
      BY DEF Block
    <3>2. \A i \in DOMAIN b.candidates : b.candidates[i].model \in Models
      BY <3>1, RankIsNat
    <3>3. Names(b.candidates) \subseteq Models
      BY <3>2 DEF Names
    <3>4. Selected(j, b) \subseteq Names(b.candidates)
      BY DEF Selected, Names
    <3>5. QED
      BY <3>3, <3>4
  <2>3. QED
    BY <2>1, <2>2, PromotedSound
<1>6. j.op # "unsupported"
  BY DEF Results
<1>7. QED
  BY <1>1, <1>2, <1>3, <1>4, <1>5, <1>6 DEF Job, Ops, PromotionOps

-----------------------------------------------------------------------------
(* Contents: what a load can return *)

ContentSound(c) == c \in Content /\ \A s \in Systems : BlockSound(c.block[s])

LEMMA EmptyContentSound == ContentSound(EmptyContent)
<1>1. EmptyBlock \in Block
  BY DEF EmptyBlock, Block
<1>2. BlockSound(EmptyBlock)
  BY LimitsAssumption DEF EmptyBlock, BlockSound, WellRanked
<1>3. QED
  BY <1>1, <1>2 DEF ContentSound, EmptyContent, Content

\* Changing one block of a sound content to a sound block.
LEMMA UpdateSound ==
  ASSUME NEW c, ContentSound(c), NEW s \in Systems, NEW b \in Block,
         BlockSound(b), NEW t \in Systems \union {NoSystem}
  PROVE  /\ ContentSound([c EXCEPT !.block[s] = b])
         /\ ContentSound([block |-> [c.block EXCEPT ![s] = b], stages |-> t])
BY DEF ContentSound, Content

\* What is found in a root without a registry file is ranked like any list.
LEMMA TopListingsSound ==
  ASSUME artifact \in [Models -> Ranks], NEW l \in TopListings
  PROVE  l \in Seq(Record) /\ WellRanked(l)
<1>. DEFINE n == Min({Cardinality(Discovered), MaxCandidates})
<1>1. Cardinality(Discovered) \in Nat
  <2>1. Discovered \subseteq Models
    BY DEF Discovered
  <2>2. QED
    BY <2>1, ModelsAssumption, FS_Subset, FS_CardinalityType
<1>2. n \in Nat /\ n <= MaxCandidates
  BY <1>1, LimitsAssumption DEF Min
<1>. HIDE DEF n
<1>3. /\ l \in [1..n -> [model : Discovered, rank : Scores]]
      /\ \A i, j \in 1..n : i < j => l[i].model # l[j].model /\ l[i].rank >= l[j].rank
  BY DEF TopListings, n
<1>4. [model : Discovered, rank : Scores] \subseteq Record
  BY DEF Discovered, Record, Ranks
<1>5. l \in [1..n -> Record]
  BY <1>3, <1>4
<1>6. l \in Seq(Record) /\ Len(l) = n
  BY <1>2, <1>5
<1>7. QED
  BY <1>2, <1>3, <1>6 DEF WellRanked

\* What is made of a root without a file is sound.
LEMMA BootstrappedSound ==
  ASSUME artifact \in [Models -> Ranks], NEW s \in Systems,
         NEW c \in Bootstrapped(s)
  PROVE  ContentSound(c)
<1>1. EmptyContent.block[s] = EmptyBlock /\ EmptyBlock \in Block
      /\ BlockSound(EmptyBlock)
  BY EmptyContentSound DEF EmptyContent, ContentSound, Content
<1>2. CASE Cardinality(Discovered) = 1
  <2>1. PICK m \in Discovered : c = [EmptyContent EXCEPT !.block[s].production = m]
    BY <1>2 DEF Bootstrapped
  <2>. DEFINE b == [EmptyBlock EXCEPT !.production = m]
  <2>2. m \in Models
    BY DEF Discovered
  <2>3. b \in Block /\ BlockSound(b)
    BY <1>1, <2>2 DEF Block, BlockSound
  <2>4. c = [EmptyContent EXCEPT !.block[s] = b]
    BY <2>1, <1>1 DEF EmptyContent
  <2>. HIDE DEF b
  <2>5. QED
    BY <2>3, <2>4, EmptyContentSound, UpdateSound
<1>3. CASE Cardinality(Discovered) # 1
  <2>1. PICK l \in TopListings : c = [EmptyContent EXCEPT !.block[s].candidates = l]
    BY <1>3 DEF Bootstrapped
  <2>. DEFINE b == [EmptyBlock EXCEPT !.candidates = l]
  <2>2. l \in Seq(Record) /\ WellRanked(l)
    BY TopListingsSound
  <2>3. b \in Block /\ BlockSound(b)
    BY <1>1, <2>2 DEF Block, BlockSound
  <2>4. c = [EmptyContent EXCEPT !.block[s] = b]
    BY <2>1, <1>1 DEF EmptyContent
  <2>. HIDE DEF b
  <2>5. QED
    BY <2>3, <2>4, EmptyContentSound, UpdateSound
<1>4. QED
  BY <1>2, <1>3

LEMMA LoadedSound ==
  ASSUME artifact \in [Models -> Ranks], ContentSound(registry),
         disk \in {"absent", "torn", "ok"},
         NEW s \in Systems, NEW c \in Loaded(s)
  PROVE  ContentSound(c)
<1>1. CASE disk = "ok"
  BY <1>1 DEF Loaded
<1>2. CASE disk = "absent"
  BY <1>2, BootstrappedSound DEF Loaded
<1>3. disk \in {"ok", "absent"}
  BY DEF Loaded
<1>4. QED
  BY <1>1, <1>2, <1>3

-----------------------------------------------------------------------------
(* The inductive invariant *)

\* A process between two steps of a job still has that job, and the one that
\* owes an audit entry is promoting a named model.
BusyHasJob ==
  \A p \in Procs :
    /\ step[p] # "load" => todo[p] # <<>>
    /\ step[p] = "audit" => Head(todo[p]).op = "promote"

IInv == TypeOK /\ CandidateListsSound /\ BusyHasJob

LEMMA ContentsOfIInv ==
  TypeOK /\ CandidateListsSound
    <=> /\ TypeOK
        /\ ContentSound(registry)
        /\ \A p \in Procs : ContentSound(buf[p])
BY DEF TypeOK, CandidateListsSound, ContentSound

LEMMA InitIInv == Init => IInv
<1>. SUFFICES ASSUME Init PROVE IInv
  OBVIOUS
<1>1. ContentSound(EmptyContent)
  BY EmptyContentSound
<1>2. TypeOK
  BY <1>1 DEF Init, TypeOK, ContentSound, Ranks
<1>3. QED
  BY <1>1, <1>2 DEF Init, IInv, CandidateListsSound, ContentSound, BusyHasJob

\* Assigning a sequence of jobs keeps the type of todo.
LEMMA ProgramsTyped ==
  ASSUME NEW s \in Systems, NEW m \in Models \union {NoModel},
         NEW stage \in {"candidate", "production", "previous"}
  PROVE  Program(stage, s, m) \in Seq(Job) /\ Program(stage, s, m) # <<>>
<1>. DEFINE job(o) == [op |-> o, system |-> s, model |-> m]
<1>1. \A o \in {"promote_top", "resync", "unsupported"} : job(o) \in Job
  BY DEF Job, Ops
<1>2. m # NoModel => job(stage) \in Job
  BY DEF Job, Ops
<1>. HIDE DEF job
<1>3. CASE m = NoModel
  BY <1>1, <1>3 DEF Program, job
<1>4. CASE m # NoModel
  BY <1>1, <1>2, <1>4 DEF Program, job
<1>5. QED
  BY <1>3, <1>4

LEMMA NextIInv == IInv /\ [Next]_vars => IInv'
<1>. SUFFICES ASSUME IInv, [Next]_vars PROVE IInv'
  OBVIOUS
<1>. USE DEF IInv
<1>0. TypeOK /\ CandidateListsSound /\ BusyHasJob /\ ContentSound(registry)
      /\ \A p \in Procs : ContentSound(buf[p])
  BY ContentsOfIInv
<1>1. ASSUME NEW p \in Trainers, Train(p) PROVE IInv'
  <2>1. ASSUME NEW s \in Systems, NEW m \in Models
        PROVE  <<[op |-> "candidate", system |-> s, model |-> m]>> \in Seq(Job)
    BY DEF Job, Ops
  <2>2. p \in Procs /\ todo' \in [Procs -> Seq(Job)]
    BY <1>1, <1>0, <2>1 DEF Train, Assign, TypeOK, Procs
  <2>3. TypeOK'
    BY <1>1, <1>0, <2>2 DEF Train, TypeOK, Ranks
  <2>4. BusyHasJob'
    BY <1>1, <1>0, <2>2 DEF Train, BusyHasJob, Idle, Assign, TypeOK
  <2>5. QED
    BY <1>1, <1>0, <2>3, <2>4 DEF Train, CandidateListsSound
<1>2. ASSUME NEW p \in Dashboards, AskPromotion(p) PROVE IInv'
  <2>1. ASSUME NEW s \in Systems, NEW m \in reviewed
        PROVE  <<[op |-> "promote", system |-> s, model |-> m]>> \in Seq(Job)
    BY <1>0 DEF Job, Ops, TypeOK
  <2>2. p \in Procs /\ todo' \in [Procs -> Seq(Job)]
    BY <1>2, <1>0, <2>1 DEF AskPromotion, Assign, TypeOK, Procs
  <2>3. TypeOK'
    BY <1>2, <1>0, <2>2 DEF AskPromotion, TypeOK
  <2>4. BusyHasJob'
    BY <1>2, <1>0, <2>2 DEF AskPromotion, BusyHasJob, Idle, Assign, TypeOK
  <2>5. QED
    BY <1>2, <1>0, <2>3, <2>4 DEF AskPromotion, CandidateListsSound
<1>3. ASSUME NEW p \in Clis, RunScript(p) PROVE IInv'
  <2>1. p \in Procs /\ todo' \in [Procs -> Seq(Job)]
    BY <1>3, <1>0, ProgramsTyped DEF RunScript, Assign, TypeOK, Procs
  <2>2. TypeOK'
    BY <1>3, <1>0, <2>1 DEF RunScript, TypeOK
  <2>3. BusyHasJob'
    BY <1>3, <1>0, <2>1 DEF RunScript, BusyHasJob, Idle, Assign, TypeOK
  <2>4. QED
    BY <1>3, <1>0, <2>2, <2>3 DEF RunScript, CandidateListsSound
<1>4. ASSUME NEW p \in Procs, Load(p) PROVE IInv'
  <2>. DEFINE j == Head(todo[p])
  <2>0. todo[p] # <<>> /\ todo[p] \in Seq(Job)
    BY <1>4, <1>0 DEF Load, Idle, TypeOK
  <2>1. j \in Job /\ j.system \in Systems
    BY <2>0, HeadTailProperties DEF Job
  <2>. HIDE DEF j
  <2>2. PICK c \in Loaded(j.system) : \E b \in Results(j, c.block[j.system]) :
          buf' = [buf EXCEPT ![p] = [block  |-> [c.block EXCEPT ![j.system] = b],
                                     stages |-> j.system]]
    BY <1>4 DEF Load, j
  <2>3. PICK b \in Results(j, c.block[j.system]) :
          buf' = [buf EXCEPT ![p] = [block  |-> [c.block EXCEPT ![j.system] = b],
                                     stages |-> j.system]]
    BY <2>2
  <2>. DEFINE new == [block  |-> [c.block EXCEPT ![j.system] = b],
                      stages |-> j.system]
  <2>4. ContentSound(c)
    BY <1>0, <2>1, LoadedSound DEF TypeOK
  <2>5. c.block[j.system] \in Block /\ BlockSound(c.block[j.system])
    BY <2>1, <2>4 DEF ContentSound, Content
  <2>6. b \in Block /\ BlockSound(b)
    BY <1>0, <2>1, <2>5, ResultsSound DEF TypeOK
  <2>7. ContentSound(new)
    BY <2>1, <2>4, <2>6, UpdateSound
  <2>. HIDE DEF new
  <2>8. buf' \in [Procs -> Content] /\ \A q \in Procs : ContentSound(buf'[q])
    BY <1>0, <2>3, <2>7 DEF new, TypeOK, ContentSound
  <2>9. TypeOK'
    BY <1>4, <1>0, <2>8 DEF Load, TypeOK
  <2>10. BusyHasJob'
    BY <1>4, <1>0 DEF Load, BusyHasJob, Idle, TypeOK
  <2>11. CandidateListsSound'
    BY <1>4, <1>0, <2>8 DEF Load, CandidateListsSound, ContentSound
  <2>12. QED
    BY <2>9, <2>10, <2>11
<1>5. ASSUME NEW p \in Procs, Fail(p) PROVE IInv'
  <2>1. TypeOK'
    BY <1>5, <1>0 DEF Fail, Assign, TypeOK
  <2>2. BusyHasJob'
    BY <1>5, <1>0 DEF Fail, BusyHasJob, Assign, TypeOK
  <2>3. QED
    BY <1>5, <1>0, <2>1, <2>2 DEF Fail, CandidateListsSound
<1>6. ASSUME NEW p \in Procs, Truncate(p) PROVE IInv'
  <2>1. TypeOK'
    BY <1>6, <1>0 DEF Truncate, TypeOK
  <2>2. BusyHasJob'
    BY <1>6, <1>0 DEF Truncate, BusyHasJob, TypeOK
  <2>3. QED
    BY <1>6, <1>0, <2>1, <2>2 DEF Truncate, CandidateListsSound
<1>7. ASSUME NEW p \in Procs, Flush(p) PROVE IInv'
  <2>1. todo[p] # <<>> /\ todo[p] \in Seq(Job)
    BY <1>7, <1>0 DEF Flush, BusyHasJob, TypeOK
  <2>2. Head(todo[p]) \in Job /\ Tail(todo[p]) \in Seq(Job)
    BY <2>1, HeadTailProperties
  <2>3. registered' \subseteq Systems \X Record
    <3>. DEFINE j == Head(todo[p])
                new == <<j.system, [model |-> j.model, rank |-> artifact[j.model]]>>
    <3>1. CASE j.op = "candidate"
      <4>1. j.system \in Systems /\ j.model \in Models
        BY <2>2, <3>1 DEF Job
      <4>2. new \in Systems \X Record
        BY <4>1, <1>0 DEF TypeOK, Record
      <4>3. registered' \subseteq registered \union {new}
        BY <1>7, <3>1 DEF Flush, StillOwed
      <4>4. QED
        BY <4>2, <4>3, <1>0 DEF TypeOK
    <3>2. CASE j.op # "candidate"
      BY <1>7, <1>0, <3>2 DEF Flush, StillOwed, TypeOK
    <3>3. QED
      BY <3>1, <3>2
  <2>4. todo' \in [Procs -> Seq(Job)] /\ step' \in [Procs -> {"load", "loaded", "writing", "audit"}]
    BY <1>7, <1>0, <2>2 DEF Flush, Assign, TypeOK
  <2>5. /\ ContentSound(registry')
        /\ buf' \in [Procs -> Content]
        /\ \A q \in Procs : ContentSound(buf'[q])
    BY <1>7, <1>0, EmptyContentSound DEF Flush, TypeOK, ContentSound
  <2>6. TypeOK'
    BY <1>7, <1>0, <2>3, <2>4, <2>5 DEF Flush, TypeOK, ContentSound
  <2>7. BusyHasJob'
    BY <1>7, <1>0, <2>4 DEF Flush, BusyHasJob, Assign, TypeOK
  <2>8. CandidateListsSound'
    BY <2>5 DEF CandidateListsSound, ContentSound
  <2>9. QED
    BY <2>6, <2>7, <2>8
<1>8. ASSUME NEW p \in Procs, WriteAudit(p) PROVE IInv'
  <2>1. todo[p] # <<>> /\ todo[p] \in Seq(Job) /\ Head(todo[p]).op = "promote"
    BY <1>8, <1>0 DEF WriteAudit, BusyHasJob, TypeOK
  <2>2. Head(todo[p]) \in Job /\ Tail(todo[p]) \in Seq(Job)
    BY <2>1, HeadTailProperties
  <2>3. <<Head(todo[p]).system, Head(todo[p]).model>> \in Systems \X Models
    BY <2>1, <2>2 DEF Job
  <2>4. TypeOK'
    BY <1>8, <1>0, <2>2, <2>3 DEF WriteAudit, Assign, TypeOK
  <2>5. BusyHasJob'
    BY <1>8, <1>0 DEF WriteAudit, Assign, BusyHasJob, TypeOK
  <2>6. QED
    BY <1>8, <1>0, <2>4, <2>5 DEF WriteAudit, CandidateListsSound
<1>9. ASSUME NEW p \in Procs, Crash(p) PROVE IInv'
  <2>1. buf' \in [Procs -> Content] /\ \A q \in Procs : ContentSound(buf'[q])
    BY <1>9, <1>0, EmptyContentSound DEF Crash, TypeOK, ContentSound
  <2>2. TypeOK'
    BY <1>9, <1>0, <2>1 DEF Crash, Assign, TypeOK
  <2>3. BusyHasJob'
    BY <1>9, <1>0 DEF Crash, Assign, BusyHasJob, TypeOK
  <2>4. CandidateListsSound'
    BY <1>9, <1>0, <2>1 DEF Crash, CandidateListsSound, ContentSound
  <2>5. QED
    BY <2>2, <2>3, <2>4
<1>10. ASSUME NEW s \in Systems, Review(s) PROVE IInv'
  <2>1. PICK c \in Loaded(s) :
          reviewed' = (reviewed \union Names(c.block[s].candidates)
                         \union {c.block[s].production}) \ {NoModel}
    BY <1>10 DEF Review
  <2>2. c.block[s] \in Block
    BY <1>0, LoadedSound DEF TypeOK, ContentSound, Content
  <2>3. c.block[s].candidates \in Seq(Record)
        /\ c.block[s].production \in Models \union {NoModel}
    BY <2>2 DEF Block
  <2>4. \A i \in DOMAIN c.block[s].candidates : c.block[s].candidates[i].model \in Models
    BY <2>3, RankIsNat
  <2>5. Names(c.block[s].candidates) \subseteq Models
    BY <2>4 DEF Names
  <2>6. reviewed' \subseteq Models
    BY <1>0, <2>1, <2>3, <2>5 DEF TypeOK
  <2>7. TypeOK'
    BY <1>10, <1>0, <2>6 DEF Review, TypeOK
  <2>8. QED
    BY <1>10, <1>0, <2>7 DEF Review, BusyHasJob, CandidateListsSound
<1>11. CASE UNCHANGED vars
  BY <1>11, <1>0 DEF vars, TypeOK, CandidateListsSound, BusyHasJob
<1>12. QED
  BY <1>1, <1>2, <1>3, <1>4, <1>5, <1>6, <1>7, <1>8, <1>9, <1>10, <1>11
     DEF Next, Write

\* The variables keep their types.
THEOREM TypeCorrect == Spec => []TypeOK
<1>1. IInv => TypeOK
  BY DEF IInv
<1>2. QED
  BY <1>1, InitIInv, NextIInv, PTL DEF Spec

\* However the processes interleave and wherever they die, every content
\* written or about to be written has bounded, ranked candidate lists
\* without repetitions, and a bounded history.
THEOREM CandidateListsStaySound == Spec => []CandidateListsSound
<1>1. IInv => CandidateListsSound
  BY DEF IInv
<1>2. QED
  BY <1>1, InitIInv, NextIInv, PTL DEF Spec

-----------------------------------------------------------------------------
(* Ordered lists as sets of candidates *)

\* A list in which no name repeats has as many records as it is long.
LEMMA OrderedCount ==
  ASSUME NEW list \in Seq(Record), Ordered(list)
  PROVE  IsFiniteSet(ToSet(list)) /\ Cardinality(ToSet(list)) = Len(list)
<1>. DEFINE n == Len(list)
            S == ToSet(list)
<1>1. n \in Nat /\ DOMAIN list = 1..n
  OBVIOUS
<1>2. IsFiniteSet(1..n) /\ Cardinality(1..n) = n
  BY <1>1, FS_Interval
<1>3. \A i \in 1..n : list[i] \in S
  BY <1>1 DEF ToSet
<1>4. list \in [1..n -> S]
  BY <1>1, <1>3
<1>5. \A i, j \in 1..n : list[i] = list[j] => i = j
  <2>1. \A i, j \in 1..n : i < j => list[i].model # list[j].model
    BY <1>1 DEF Ordered
  <2>2. QED
    BY <1>1, <2>1
<1>6. \A c \in S : \E i \in 1..n : list[i] = c
  BY <1>1 DEF ToSet
<1>. HIDE DEF S
<1>7. list \in Injection(1..n, S)
  BY <1>4, <1>5 DEF Injection, IsInjective
<1>8. list \in Surjection(1..n, S)
  BY <1>4, <1>6 DEF Surjection
<1>9. ExistsBijection(1..n, S)
  BY <1>7, <1>8 DEF ExistsBijection, Bijection
<1>10. IsFiniteSet(S) /\ Cardinality(S) = Cardinality(1..n)
  BY <1>2, <1>9, FS_Bijection
<1>11. QED
  BY <1>2, <1>10 DEF S

\* What a cut of an ordered list drops is no better than anything it keeps.
LEMMA KeptAreBest ==
  ASSUME NEW list \in Seq(Record), NEW n \in Nat \ {0}, Ordered(list),
         NEW c \in ToSet(list)
  PROVE  \/ c \in ToSet(Keep(list, n))
         \/ /\ Len(Keep(list, n)) = n
            /\ \A k \in ToSet(Keep(list, n)) : k.rank >= c.rank
<1>. DEFINE kept == Keep(list, n)
<1>1. /\ kept \in Seq(Record)
      /\ Len(kept) = IF Len(list) <= n THEN Len(list) ELSE n
      /\ \A i \in 1..Len(kept) : kept[i] = list[i]
  BY KeepSound
<1>. HIDE DEF kept
<1>2. PICK a \in 1..Len(list) : c = list[a]
  BY DEF ToSet
<1>3. CASE a <= Len(kept)
  <2>1. a \in DOMAIN kept /\ kept[a] = c
    BY <1>1, <1>2, <1>3
  <2>2. QED
    BY <2>1 DEF ToSet, kept
<1>4. CASE a > Len(kept)
  <2>1. Len(kept) = n
    BY <1>1, <1>4
  <2>2. ASSUME NEW k \in ToSet(kept) PROVE k.rank >= c.rank
    <3>1. PICK i \in 1..Len(kept) : k = kept[i]
      BY <1>1 DEF ToSet
    <3>2. i \in DOMAIN list /\ a \in DOMAIN list /\ i < a /\ k = list[i]
      BY <3>1, <1>1, <1>4
    <3>3. QED
      BY <3>2, <1>2 DEF Ordered
  <2>3. QED
    BY <2>1, <2>2 DEF kept
<1>5. QED
  BY <1>1, <1>3, <1>4

\* A cut of an ordered list one record too long drops its last, a worst one.
LEMMA CutDropsWorst ==
  ASSUME NEW list \in Seq(Record), NEW n \in Nat \ {0}, Ordered(list),
         Len(list) = n + 1
  PROVE  /\ list[n+1] \in ToSet(list)
         /\ \A c \in ToSet(list) : c.rank >= list[n+1].rank
         /\ ToSet(Keep(list, n)) = ToSet(list) \ {list[n+1]}
<1>. DEFINE kept == Keep(list, n)
            worst == list[n+1]
<1>1. /\ kept \in Seq(Record)
      /\ Len(kept) = n
      /\ \A i \in 1..n : kept[i] = list[i]
  BY KeepSound
<1>2. DOMAIN list = 1..n+1 /\ DOMAIN kept = 1..n
  BY <1>1
<1>. HIDE DEF kept
<1>3. \A i \in 1..n : list[i].rank >= worst.rank /\ list[i].model # worst.model
  BY <1>2 DEF Ordered
<1>4. worst \in Record /\ worst.rank \in Nat
  BY RankIsNat
<1>. HIDE DEF worst
<1>5. worst \in ToSet(list)
  BY <1>2 DEF ToSet, worst
<1>6. ASSUME NEW c \in ToSet(list)
      PROVE  c = worst \/ (c \in ToSet(kept) /\ c.rank >= worst.rank)
  <2>1. PICK a \in 1..n+1 : c = list[a]
    BY <1>2 DEF ToSet
  <2>2. CASE a = n+1
    BY <2>1, <2>2 DEF worst
  <2>3. CASE a <= n
    <3>1. a \in DOMAIN kept /\ c = kept[a]
      BY <2>1, <2>3, <1>1, <1>2
    <3>2. c \in ToSet(kept)
      BY <3>1 DEF ToSet
    <3>3. QED
      BY <2>1, <2>3, <3>2, <1>3
  <2>4. QED
    BY <2>2, <2>3
<1>7. ASSUME NEW c \in ToSet(kept) PROVE c \in ToSet(list) /\ c # worst
  <2>1. PICK a \in 1..n : c = kept[a]
    BY <1>2 DEF ToSet
  <2>2. c = list[a] /\ a \in DOMAIN list
    BY <2>1, <1>1, <1>2
  <2>3. QED
    BY <2>2, <1>3 DEF ToSet
<1>8. worst.rank >= worst.rank
  BY <1>4
<1>9. ToSet(kept) = ToSet(list) \ {worst}
  BY <1>6, <1>7
<1>10. QED
  BY <1>5, <1>6, <1>8, <1>9 DEF kept, worst

\* The candidates of a block but m, and those with m at its present score.
Rivals(b, m) == {c \in ToSet(b.candidates) : c.model # m}
Nominated(b, m) == Rivals(b, m) \union {[model |-> m, rank |-> artifact[m]]}

\* set_stage(candidate) adds m in place of its older record; when that makes
\* one too many, it drops a worst one; and whoever it drops is outranked.
LEMMA NominationAsSet ==
  ASSUME NEW b \in Block, NEW m \in Models, artifact[m] \in Ranks,
         BlockSound(b)
  PROVE  /\ WithCandidate(b, m).production = b.production
         /\ WithCandidate(b, m).previous = b.previous
         /\ \E worst \in Nominated(b, m) :
              /\ \A c \in Nominated(b, m) : c.rank >= worst.rank
              /\ ToSet(WithCandidate(b, m).candidates) =
                   IF Cardinality(Nominated(b, m)) <= MaxCandidates
                   THEN Nominated(b, m) ELSE Nominated(b, m) \ {worst}
         /\ \A c \in Nominated(b, m) :
              \/ c \in ToSet(WithCandidate(b, m).candidates)
              \/ /\ Len(WithCandidate(b, m).candidates) >= MaxCandidates
                 /\ \A k \in ToSet(WithCandidate(b, m).candidates) :
                      k.rank >= c.rank
<1>. DEFINE r == [model |-> m, rank |-> artifact[m]]
            less == Without(b.candidates, m)
            more == Ranked(less, r)
            kept == Keep(more, MaxCandidates)
            pool == Nominated(b, m)
<1>1. r \in Record /\ r.model = m
  BY DEF Record
<1>2. /\ b.candidates \in Seq(Record) /\ Ordered(b.candidates)
      /\ Len(b.candidates) <= MaxCandidates
  BY DEF Block, BlockSound, WellRanked, Ordered
<1>3. /\ less \in Seq(Record) /\ Ordered(less) /\ m \notin Names(less)
      /\ Len(less) <= MaxCandidates
      /\ ToSet(less) = Rivals(b, m)
  <2>1. /\ less \in Seq(Record) /\ Ordered(less) /\ m \notin Names(less)
        /\ Len(less) <= Len(b.candidates)
        /\ ToSet(less) = {c \in ToSet(b.candidates) : c.model # m}
    BY <1>2, WithoutSound
  <2>2. Len(less) \in Nat /\ Len(b.candidates) \in Nat
    BY <1>2, <2>1
  <2>. HIDE DEF less
  <2>3. QED
    BY <1>2, <2>1, <2>2, LimitsAssumption DEF Rivals
<1>. HIDE DEF less, r
<1>4. /\ more \in Seq(Record) /\ Ordered(more)
      /\ Len(more) = Len(less) + 1
      /\ ToSet(more) = ToSet(less) \union {r}
  BY <1>1, <1>3, RankedSound
<1>. HIDE DEF more
<1>5. ToSet(more) = pool
  BY <1>3, <1>4 DEF Nominated, r
<1>6. IsFiniteSet(pool) /\ Cardinality(pool) = Len(more)
  BY <1>4, <1>5, OrderedCount
<1>7. WithCandidate(b, m) = [b EXCEPT !.candidates = kept]
  BY DEF WithCandidate, kept, more, less, r
<1>. HIDE DEF kept
<1>8. /\ WithCandidate(b, m).production = b.production
      /\ WithCandidate(b, m).previous = b.previous
      /\ WithCandidate(b, m).candidates = kept
  BY <1>7 DEF Block
<1>. HIDE DEF pool
<1>9. \E worst \in pool :
        /\ \A c \in pool : c.rank >= worst.rank
        /\ ToSet(kept) = IF Cardinality(pool) <= MaxCandidates
                         THEN pool ELSE pool \ {worst}
  <2>1. CASE Len(more) <= MaxCandidates
    <3>1. kept = more
      BY <2>1 DEF Keep, kept
    <3>2. more[Len(more)] \in pool /\ \A c \in pool : c.rank >= more[Len(more)].rank
      <4>1. Len(more) \in DOMAIN more /\ Len(more) \in 1..Len(more)
        BY <1>3, <1>4
      <4>2. more[Len(more)] \in ToSet(more)
        BY <4>1 DEF ToSet
      <4>3. ASSUME NEW c \in ToSet(more) PROVE c.rank >= more[Len(more)].rank
        <5>1. PICK i \in DOMAIN more : c = more[i]
          BY DEF ToSet
        <5>2. CASE i < Len(more)
          BY <5>1, <5>2, <4>1, <1>4 DEF Ordered
        <5>3. CASE i = Len(more)
          <6>1. c \in Record
            BY <5>1, <1>4
          <6>2. QED
            BY <5>1, <5>3, <6>1, RankIsNat
        <5>4. QED
          BY <5>1, <5>2, <5>3, <1>4
      <4>4. QED
        BY <4>2, <4>3, <1>5
    <3>3. QED
      BY <2>1, <3>1, <3>2, <1>5, <1>6
  <2>2. CASE ~(Len(more) <= MaxCandidates)
    <3>1. Len(more) = MaxCandidates + 1
      BY <2>2, <1>3, <1>4, LimitsAssumption
    <3>2. /\ more[MaxCandidates+1] \in ToSet(more)
          /\ \A c \in ToSet(more) : c.rank >= more[MaxCandidates+1].rank
          /\ ToSet(kept) = ToSet(more) \ {more[MaxCandidates+1]}
      BY <3>1, <1>4, CutDropsWorst, LimitsAssumption DEF kept
    <3>3. QED
      BY <2>2, <3>2, <1>5, <1>6
  <2>3. QED
    BY <2>1, <2>2
<1>10. ASSUME NEW c \in pool
       PROVE  \/ c \in ToSet(kept)
              \/ /\ Len(kept) >= MaxCandidates
                 /\ \A k \in ToSet(kept) : k.rank >= c.rank
  <2>1. c \in ToSet(more)
    BY <1>5
  <2>2. \/ c \in ToSet(kept)
        \/ Len(kept) = MaxCandidates /\ \A k \in ToSet(kept) : k.rank >= c.rank
    BY <2>1, <1>4, KeptAreBest, LimitsAssumption DEF kept
  <2>3. QED
    BY <2>2, LimitsAssumption
<1>11. QED
  BY <1>8, <1>9, <1>10 DEF pool

\* What each job does to the block it works on: the candidates as a set.
LEMMA CallOnBlock ==
  ASSUME NEW j \in Job, NEW b \in Block, NEW x \in Results(j, b),
         artifact \in [Models -> Ranks], BlockSound(b)
  PROVE  \/ /\ j.op = "candidate" /\ j.model \in Models
            /\ x = WithCandidate(b, j.model)
         \/ /\ j.op = "production" /\ j.model \in Models
            /\ x = [b EXCEPT !.production = j.model]
         \/ /\ j.op = "previous" /\ j.model \in Models
            /\ x = [b EXCEPT !.previous = Keep(<<j.model>> \o b.previous, MaxCandidates)]
         \/ /\ j.op = "resync"
            /\ x = b
         \/ /\ j.op \in PromotionOps
            /\ x.production \in Models
            /\ \E c \in ToSet(b.candidates) : c.model = x.production
            /\ x.previous = IF b.production = NoModel THEN b.previous
                            ELSE Keep(<<b.production>> \o b.previous, KeepPrevious)
            /\ ToSet(x.candidates) = Rivals(b, x.production)
<1>1. CASE j.op = "candidate"
  BY <1>1 DEF Job, Results
<1>2. CASE j.op = "production"
  BY <1>2 DEF Job, Results, WithProduction
<1>3. CASE j.op = "previous"
  BY <1>3 DEF Job, Results, WithPrevious
<1>4. CASE j.op = "resync"
  BY <1>4 DEF Results
<1>5. CASE j.op \in PromotionOps
  <2>1. PICK m \in Selected(j, b) : x = Promoted(b, m)
    BY <1>5 DEF Results, PromotionOps
  <2>2. b.candidates \in Seq(Record) /\ Ordered(b.candidates)
    BY DEF Block, BlockSound, WellRanked, Ordered
  <2>3. m \in Names(b.candidates)
    BY DEF Selected, Names
  <2>4. PICK i \in DOMAIN b.candidates : m = b.candidates[i].model
    BY <2>3 DEF Names
  <2>5. m \in Models /\ b.candidates[i] \in ToSet(b.candidates)
    BY <2>2, <2>4, RankIsNat DEF ToSet
  <2>6. ToSet(Without(b.candidates, m)) = Rivals(b, m)
    BY <2>2, <2>5, WithoutSound DEF Rivals
  <2>7. /\ x.production = m
        /\ x.previous = IF b.production = NoModel THEN b.previous
                        ELSE Keep(<<b.production>> \o b.previous, KeepPrevious)
        /\ x.candidates = Without(b.candidates, m)
    BY <2>1 DEF Promoted
  <2>8. QED
    BY <1>5, <2>4, <2>5, <2>6, <2>7
<1>6. j.op # "unsupported"
  BY DEF Results
<1>7. QED
  BY <1>1, <1>2, <1>3, <1>4, <1>5, <1>6 DEF Job, Ops, PromotionOps

\* A candidate that a job neither replaces, nor promotes, nor finds outranked
\* is among the candidates it leaves, and so is the one it nominates.
LEMMA CandidateStays ==
  ASSUME NEW j \in Job, NEW b \in Block, NEW x \in Results(j, b),
         artifact \in [Models -> Ranks], BlockSound(b), NEW k,
         \/ k \in ToSet(b.candidates) /\ ~(j.op = "candidate" /\ k.model = j.model)
         \/ j.op = "candidate" /\ k = [model |-> j.model, rank |-> artifact[j.model]],
         ~(j.op \in PromotionOps /\ k.model = x.production),
         ~(/\ Len(x.candidates) >= MaxCandidates
           /\ k \notin ToSet(x.candidates)
           /\ \A c \in ToSet(x.candidates) : c.rank >= k.rank)
  PROVE  k \in ToSet(x.candidates)
<1>1. CASE j.op = "candidate"
  <2>1. j.model \in Models /\ x = WithCandidate(b, j.model)
    BY <1>1, CallOnBlock DEF PromotionOps
  <2>2. k \in Nominated(b, j.model)
    BY <1>1 DEF Nominated, Rivals
  <2>3. \/ k \in ToSet(x.candidates)
        \/ /\ Len(x.candidates) >= MaxCandidates
           /\ \A c \in ToSet(x.candidates) : c.rank >= k.rank
    BY <2>1, <2>2, NominationAsSet
  <2>4. QED
    BY <2>3
<1>2. CASE j.op \in {"production", "previous", "resync"}
  <2>1. x.candidates = b.candidates
    BY <1>2, CallOnBlock DEF PromotionOps, Block
  <2>2. QED
    BY <1>2, <2>1
<1>3. CASE j.op \in PromotionOps
  <2>1. ToSet(x.candidates) = Rivals(b, x.production)
    BY <1>3, CallOnBlock DEF PromotionOps
  <2>2. QED
    BY <1>3, <2>1 DEF Rivals, PromotionOps
<1>4. QED
  BY <1>1, <1>2, <1>3, CallOnBlock

-----------------------------------------------------------------------------
(* Callers that take turns *)

\* No process begins a job while another process is in one.
TakingTurns == \A p, q \in Procs : ~Idle(p) /\ ~Idle(q) => p = q

\* The contents a job may have started from: what the file holds, or, before
\* anything was ever written, what was found in a root without a file.
Basis(s) ==
  {c \in {registry} \union Bootstrapped(s) :
     c = registry \/ (FreshRoot /\ registered = {})}

\* What a process is about to write is what the file holds now, changed by
\* the whole of its job and by nothing else.
IsCall(p) ==
  LET j == Head(todo[p]) IN
  \E c \in Basis(j.system) : \E b \in Results(j, c.block[j.system]) :
    buf[p] = [block |-> [c.block EXCEPT ![j.system] = b], stages |-> j.system]

PendingIsCall ==
  \A p \in Procs : step[p] \in {"loaded", "writing"} => IsCall(p)

OwedIsListed ==
  \A e \in registered : e[2] \in ToSet(registry.block[e[1]].candidates)

TurnInv ==
  /\ raced = {}
  /\ disk = "absent" => FreshRoot /\ registered = {}
  /\ PendingIsCall
  /\ OwedIsListed

\* In a turn, every other process is between jobs.
LEMMA OthersRest ==
  ASSUME IInv, TakingTurns, NEW p \in Procs, ~Idle(p), NEW q \in Procs, q # p
  PROVE  Idle(q) /\ step[q] = "load"
BY DEF IInv, BusyHasJob, TakingTurns, Idle, TypeOK

\* What a process has loaded and changed stays its job's call as long as
\* nobody else writes.
LEMMA IsCallStays ==
  ASSUME UNCHANGED <<artifact, registry, registered>>,
         NEW p \in Procs, todo'[p] = todo[p], buf'[p] = buf[p], IsCall(p)
  PROVE  IsCall(p)'
<1>1. \A s : Basis(s)' = Basis(s)
  BY DEF Basis, Bootstrapped, TopListings, Discovered
<1>2. \A j, b : Results(j, b)' = Results(j, b)
  BY DEF Results, WithCandidate
<1>3. QED
  BY <1>1, <1>2 DEF IsCall

LEMMA InitTurnInv == Init => TurnInv
<1>. SUFFICES ASSUME Init PROVE TurnInv
  OBVIOUS
<1>1. PendingIsCall
  BY DEF Init, PendingIsCall
<1>2. QED
  BY <1>1 DEF Init, TurnInv, OwedIsListed

\* A nomination the registry still owes a place after a write has one.
LEMMA OwedAfterFlush ==
  ASSUME IInv, TurnInv, NEW p \in Procs, step[p] = "writing",
         NEW e \in StillOwed(p)
  PROVE  e[2] \in ToSet(buf[p].block[e[1]].candidates)
<1>. DEFINE j == Head(todo[p])
            new == IF j.op = "candidate"
                   THEN {<<j.system, [model |-> j.model, rank |-> artifact[j.model]]>>}
                   ELSE {}
<1>0. /\ artifact \in [Models -> Ranks]
      /\ ContentSound(registry)
      /\ todo[p] \in Seq(Job) /\ todo[p] # <<>>
      /\ registered \subseteq Systems \X Record
  BY ContentsOfIInv DEF IInv, TypeOK, BusyHasJob
<1>1. j \in Job /\ j.system \in Systems
  BY <1>0, HeadTailProperties DEF Job
<1>2. PICK c \in Basis(j.system) : \E x \in Results(j, c.block[j.system]) :
        buf[p] = [block |-> [c.block EXCEPT ![j.system] = x], stages |-> j.system]
  BY DEF TurnInv, PendingIsCall, IsCall
<1>3. PICK x \in Results(j, c.block[j.system]) :
        buf[p] = [block |-> [c.block EXCEPT ![j.system] = x], stages |-> j.system]
  BY <1>2
<1>. HIDE DEF j
<1>4. ContentSound(c)
  BY <1>0, <1>1, BootstrappedSound DEF Basis
<1>5. c.block[j.system] \in Block /\ BlockSound(c.block[j.system])
  BY <1>1, <1>4 DEF ContentSound, Content
<1>6. /\ buf[p].block[j.system] = x
      /\ \A s \in Systems \ {j.system} : buf[p].block[s] = c.block[s]
  BY <1>1, <1>3, <1>4 DEF ContentSound, Content
<1>7. /\ e \in registered \union new
      /\ e[1] = j.system =>
           /\ e \in new \/ ~(j.op = "candidate" /\ e[2].model = j.model)
           /\ ~(j.op \in PromotionOps /\ e[2].model = x.production)
           /\ ~(/\ Len(x.candidates) >= MaxCandidates
                /\ e[2] \notin ToSet(x.candidates)
                /\ \A k \in ToSet(x.candidates) : k.rank >= e[2].rank)
  BY <1>6 DEF StillOwed, j
<1>8. ASSUME e \in registered
      PROVE  e[1] \in Systems /\ e[2] \in ToSet(c.block[e[1]].candidates)
  <2>1. c = registry
    BY <1>8 DEF Basis
  <2>2. QED
    BY <1>0, <1>8, <2>1 DEF TurnInv, OwedIsListed
<1>9. CASE e \in new
  <2>1. /\ j.op = "candidate" /\ e[1] = j.system
        /\ e[2] = [model |-> j.model, rank |-> artifact[j.model]]
    BY <1>9
  <2>. HIDE DEF new
  <2>2. e[2] \in ToSet(x.candidates)
    BY <1>0, <1>1, <1>5, <1>7, <2>1, CandidateStays
  <2>3. QED
    BY <1>6, <2>1, <2>2
<1>10. CASE e \notin new /\ e[1] = j.system
  <2>1. e \in registered
    BY <1>7, <1>10
  <2>. HIDE DEF new
  <2>2. e[2] \in ToSet(x.candidates)
    BY <1>0, <1>1, <1>5, <1>7, <1>8, <1>10, <2>1, CandidateStays
  <2>3. QED
    BY <1>6, <1>10, <2>2
<1>11. CASE e \notin new /\ e[1] # j.system
  BY <1>6, <1>7, <1>8, <1>11
<1>12. QED
  BY <1>9, <1>10, <1>11

LEMMA NextTurnInv ==
  IInv /\ TurnInv /\ TakingTurns /\ TakingTurns' /\ [Next]_vars => TurnInv'
<1>. SUFFICES ASSUME IInv, TurnInv, TakingTurns, TakingTurns', [Next]_vars
              PROVE  TurnInv'
  OBVIOUS
<1>0. TypeOK
  BY DEF IInv
<1>1. ASSUME NEW p \in Procs, Idle(p), todo' = [todo EXCEPT ![p] = todo'[p]],
             UNCHANGED <<disk, registry, step, buf, raced, registered>>,
             ~Idle(p)'
      PROVE  TurnInv'
  <2>1. ASSUME NEW q \in Procs PROVE step[q] = "load"
    <3>1. CASE q = p
      BY <1>1, <3>1 DEF IInv, BusyHasJob, Idle, TypeOK
    <3>2. CASE q # p
      <4>1. Idle(q)'
        BY <1>1, <3>2 DEF TakingTurns
      <4>2. Idle(q)
        BY <1>0, <1>1, <3>2, <4>1 DEF Idle, TypeOK
      <4>3. QED
        BY <4>2 DEF IInv, BusyHasJob, Idle, TypeOK
    <3>3. QED
      BY <3>1, <3>2
  <2>2. PendingIsCall'
    BY <1>1, <2>1 DEF PendingIsCall
  <2>3. QED
    BY <1>1, <2>2 DEF TurnInv, OwedIsListed
<1>2. ASSUME NEW p \in Trainers, Train(p) PROVE TurnInv'
  <2>1. p \in Procs /\ ~Idle(p)' /\ todo' = [todo EXCEPT ![p] = todo'[p]]
    BY <1>2, <1>0 DEF Train, Assign, Idle, Procs, TypeOK
  <2>2. QED
    BY <1>2, <2>1, <1>1 DEF Train
<1>3. ASSUME NEW p \in Dashboards, AskPromotion(p) PROVE TurnInv'
  <2>1. p \in Procs /\ ~Idle(p)' /\ todo' = [todo EXCEPT ![p] = todo'[p]]
    BY <1>3, <1>0 DEF AskPromotion, Assign, Idle, Procs, TypeOK
  <2>2. QED
    BY <1>3, <2>1, <1>1 DEF AskPromotion
<1>4. ASSUME NEW p \in Clis, RunScript(p) PROVE TurnInv'
  <2>1. p \in Procs /\ ~Idle(p)' /\ todo' = [todo EXCEPT ![p] = todo'[p]]
    BY <1>4, <1>0, ProgramsTyped DEF RunScript, Assign, Idle, Procs, TypeOK
  <2>2. QED
    BY <1>4, <2>1, <1>1 DEF RunScript
<1>5. ASSUME NEW p \in Procs, Load(p) PROVE TurnInv'
  <2>. DEFINE j == Head(todo[p])
  <2>1. PICK c \in Loaded(j.system) : \E b \in Results(j, c.block[j.system]) :
          buf' = [buf EXCEPT ![p] = [block  |-> [c.block EXCEPT ![j.system] = b],
                                     stages |-> j.system]]
    BY <1>5 DEF Load
  <2>2. c \in Basis(j.system)
    <3>1. disk \in {"absent", "torn", "ok"}
      BY <1>0 DEF TypeOK
    <3>. HIDE DEF j
    <3>2. QED
      BY <2>1, <3>1 DEF Loaded, Basis, TurnInv
  <2>3. /\ ~Idle(p) /\ step' = [step EXCEPT ![p] = "loaded"]
        /\ UNCHANGED <<artifact, disk, registry, todo, raced, registered>>
    BY <1>5 DEF Load
  <2>4. \A s : Basis(s)' = Basis(s)
    BY <2>3 DEF Basis, Bootstrapped, TopListings, Discovered
  <2>5. \A i, b : Results(i, b)' = Results(i, b)
    BY <2>3 DEF Results, WithCandidate
  <2>6. IsCall(p)'
    <3>1. PICK b \in Results(j, c.block[j.system]) :
            buf' = [buf EXCEPT ![p] = [block  |-> [c.block EXCEPT ![j.system] = b],
                                       stages |-> j.system]]
      BY <2>1
    <3>2. buf'[p] = [block  |-> [c.block EXCEPT ![j.system] = b], stages |-> j.system]
      BY <3>1, <1>0 DEF TypeOK
    <3>3. Head(todo'[p]) = j
      BY <2>3
    <3>. HIDE DEF j
    <3>4. QED
      BY <2>2, <2>4, <2>5, <3>1, <3>2, <3>3 DEF IsCall
  <2>. HIDE DEF j
  <2>7. ASSUME NEW q \in Procs, q # p PROVE step'[q] = "load"
    BY <2>3, <2>7, <1>0, OthersRest DEF TypeOK
  <2>8. PendingIsCall'
    BY <2>6, <2>7 DEF PendingIsCall
  <2>9. QED
    BY <2>3, <2>8 DEF TurnInv, OwedIsListed
<1>6. ASSUME NEW p \in Procs, Fail(p) PROVE TurnInv'
  <2>1. /\ step[p] = "load"
        /\ UNCHANGED <<artifact, disk, registry, step, buf, raced, registered>>
    BY <1>6 DEF Fail
  <2>2. ASSUME NEW q \in Procs, q # p PROVE todo'[q] = todo[q]
    BY <1>6, <2>2, <1>0 DEF Fail, Assign, TypeOK
  <2>3. ASSUME NEW q \in Procs, step'[q] \in {"loaded", "writing"}
        PROVE  IsCall(q)'
    <3>1. q # p /\ step[q] \in {"loaded", "writing"}
      BY <2>1, <2>3
    <3>2. QED
      BY <2>1, <2>2, <3>1, IsCallStays DEF TurnInv, PendingIsCall
  <2>4. QED
    BY <2>1, <2>3 DEF TurnInv, PendingIsCall, OwedIsListed
<1>7. ASSUME NEW p \in Procs, Truncate(p) PROVE TurnInv'
  <2>1. /\ step[p] = "loaded" /\ disk' = "torn"
        /\ UNCHANGED <<artifact, registry, todo, buf, raced, registered>>
    BY <1>7 DEF Truncate
  <2>2. ASSUME NEW q \in Procs, step'[q] \in {"loaded", "writing"}
        PROVE  IsCall(q)'
    <3>1. step[q] \in {"loaded", "writing"}
      BY <1>7, <1>0, <2>2 DEF Truncate, TypeOK
    <3>2. QED
      BY <2>1, <3>1, IsCallStays DEF TurnInv, PendingIsCall
  <2>3. QED
    BY <2>1, <2>2 DEF TurnInv, PendingIsCall, OwedIsListed
<1>8. ASSUME NEW p \in Procs, Flush(p) PROVE TurnInv'
  <2>1. step[p] = "writing" /\ ~Idle(p)
    BY <1>8 DEF Flush, IInv, BusyHasJob, Idle
  <2>2. disk' = "ok" /\ registry' = buf[p]
    BY <1>8 DEF Flush, TurnInv
  <2>3. /\ raced' = {q \in Procs : step[q] = "writing"} \ {p}
        /\ registered' = StillOwed(p)
        /\ step'[p] \in {"load", "audit"}
        /\ \A q \in Procs : q # p => step'[q] = step[q]
    BY <1>8, <1>0 DEF Flush, TurnInv, TypeOK
  <2>4. ASSUME NEW q \in Procs, q # p PROVE step[q] = "load"
    BY <2>1, <2>4, OthersRest
  <2>5. raced' = {}
    BY <2>3, <2>4
  <2>6. PendingIsCall'
    BY <2>3, <2>4 DEF PendingIsCall
  <2>7. OwedIsListed'
    BY <2>1, <2>2, <2>3, OwedAfterFlush DEF OwedIsListed
  <2>8. QED
    BY <2>2, <2>5, <2>6, <2>7 DEF TurnInv
<1>9. ASSUME NEW p \in Procs, WriteAudit(p) PROVE TurnInv'
  <2>1. /\ step[p] = "audit" /\ ~Idle(p)
        /\ step' = [step EXCEPT ![p] = "load"]
        /\ UNCHANGED <<disk, registry, raced, registered>>
    BY <1>9 DEF WriteAudit, IInv, BusyHasJob, Idle
  <2>2. \A q \in Procs : step'[q] = "load"
    BY <2>1, <1>0, OthersRest DEF TypeOK
  <2>3. PendingIsCall'
    BY <2>2 DEF PendingIsCall
  <2>4. QED
    BY <2>1, <2>3 DEF TurnInv, OwedIsListed
<1>10. ASSUME NEW p \in Procs, Crash(p) PROVE TurnInv'
  <2>1. /\ ~Idle(p)
        /\ step' = [step EXCEPT ![p] = "load"]
        /\ raced' = raced \ {p}
        /\ UNCHANGED <<disk, registry, registered>>
    BY <1>10 DEF Crash
  <2>2. \A q \in Procs : step'[q] = "load"
    BY <2>1, <1>0, OthersRest DEF TypeOK
  <2>3. PendingIsCall'
    BY <2>2 DEF PendingIsCall
  <2>4. QED
    BY <2>1, <2>3 DEF TurnInv, OwedIsListed
<1>11. ASSUME UNCHANGED <<artifact, disk, registry, step, todo, buf, raced, registered>>
       PROVE  TurnInv'
  <2>1. ASSUME NEW q \in Procs, step'[q] \in {"loaded", "writing"}
        PROVE  IsCall(q)'
    BY <1>11, <2>1, IsCallStays DEF TurnInv, PendingIsCall
  <2>2. QED
    BY <1>11, <2>1 DEF TurnInv, PendingIsCall, OwedIsListed
<1>12. ASSUME NEW s \in Systems, Review(s) PROVE TurnInv'
  BY <1>11, <1>12 DEF Review
<1>13. CASE UNCHANGED vars
  BY <1>11, <1>13 DEF vars
<1>14. QED
  BY <1>2, <1>3, <1>4, <1>5, <1>6, <1>7, <1>8, <1>9, <1>10, <1>12, <1>13
     DEF Next, Write

\* While callers take turns, a finished training's model stays a candidate
\* until it is promoted or outranked, wherever a caller is killed and whether
\* or not the root starts with a registry file: no set_stage loses the
\* nomination of another.
THEOREM NominationsStayListed ==
  Spec /\ []TakingTurns => []RegisteredModelsListed
<1>1. TurnInv => RegisteredModelsListed
  BY DEF TurnInv, OwedIsListed, RegisteredModelsListed
<1>2. QED
  BY <1>1, InitIInv, NextIInv, InitTurnInv, NextTurnInv, PTL DEF Spec

-----------------------------------------------------------------------------
(* What callers that take turns may rely on *)

\* Cutting a list with one model put in front is what the contract says.
LEMMA ArchivedIsKeep ==
  ASSUME NEW m \in Models, NEW list \in Seq(Models), NEW n \in Nat \ {0}
  PROVE  Contract!Archived(m, list, n) = Keep(<<m>> \o list, n)
<1>. DEFINE all == <<m>> \o list
<1>1. all \in Seq(Models) /\ Len(all) = Len(list) + 1
  BY ConcatProperties
<1>2. Contract!Archived(m, list, n) =
        SubSeq(all, 1, IF Len(list) < n THEN Len(list) + 1 ELSE n)
  BY DEF Contract!Archived
<1>. HIDE DEF all
<1>3. CASE Len(list) < n
  <2>1. Len(all) <= n /\ Keep(all, n) = all
    BY <1>1, <1>3 DEF Keep
  <2>2. SubSeq(all, 1, Len(all)) = all
    BY <1>1, SubSeqFull
  <2>3. QED
    BY <1>1, <1>2, <1>3, <2>1, <2>2 DEF all
<1>4. CASE ~(Len(list) < n)
  <2>1. ~(Len(all) <= n) /\ Keep(all, n) = SubSeq(all, 1, n)
    BY <1>1, <1>4 DEF Keep
  <2>2. QED
    BY <1>2, <1>4, <2>1 DEF all
<1>5. QED
  BY <1>3, <1>4

\* The contract counts as its implementation does.
LEMMA ContractCounts ==
  \A S : Contract!Cardinality(S) = Cardinality(S)
BY DEF Contract!Cardinality, Cardinality, Contract!IsFiniteSet, IsFiniteSet

LEMMA InitContract == Init => Contract!Init
BY DEF Init, Contract!Init, EmptyContent, EmptyBlock, ToSet

\* The write of a job is one call of the contract, or changes nothing.
LEMMA FlushIsCall ==
  ASSUME IInv, TurnInv, ~FreshRoot, NEW p \in Procs, Flush(p)
  PROVE  Contract!Next \/ UNCHANGED Contract!contractVars
<1>0. /\ artifact \in [Models -> Ranks]
      /\ ContentSound(registry)
      /\ step[p] = "writing" /\ registry' = buf[p]
      /\ todo[p] \in Seq(Job) /\ todo[p] # <<>>
  BY ContentsOfIInv DEF IInv, TypeOK, BusyHasJob, Flush, TurnInv
<1>1. PICK j \in Job : j = Head(todo[p])
  BY <1>0, HeadTailProperties
<1>. DEFINE s == j.system
            b == registry.block[s]
            prod == [t \in Systems |-> registry.block[t].production]
            prev == [t \in Systems |-> registry.block[t].previous]
            cand == [t \in Systems |-> ToSet(registry.block[t].candidates)]
<1>2. PICK x \in Results(j, b) :
        registry' = [block |-> [registry.block EXCEPT ![s] = x], stages |-> s]
  BY <1>0, <1>1 DEF TurnInv, PendingIsCall, IsCall, Basis
<1>3. s \in Systems /\ b \in Block /\ BlockSound(b)
  BY <1>0 DEF ContentSound, Content, Job
<1>4. registry.block \in [Systems -> Block]
  BY <1>0 DEF ContentSound, Content
<1>. HIDE DEF s
<1>5. /\ prod[s] = b.production /\ prev[s] = b.previous
      /\ cand[s] = ToSet(b.candidates)
  BY <1>3
<1>6. /\ prod' = [prod EXCEPT ![s] = x.production]
      /\ prev' = [prev EXCEPT ![s] = x.previous]
      /\ cand' = [cand EXCEPT ![s] = ToSet(x.candidates)]
  BY <1>2, <1>3, <1>4
<1>7. /\ \A y : y = prod[s] => [prod EXCEPT ![s] = y] = prod
      /\ \A y : y = prev[s] => [prev EXCEPT ![s] = y] = prev
      /\ \A y : y = cand[s] => [cand EXCEPT ![s] = y] = cand
  BY <1>3
<1>8. \A m \in Models : Contract!Others(s, m) = Rivals(b, m)
  BY <1>3 DEF Contract!Others, Rivals
<1>9. CASE j.op = "candidate"
  <2>0. PICK r \in Ranks : r = artifact[j.model]
    BY <1>0, <1>2, <1>3, <1>9, CallOnBlock DEF PromotionOps
  <2>. DEFINE m == j.model
              pool == Contract!Others(s, m) \union {[model |-> m, rank |-> r]}
  <2>1. m \in Models /\ artifact[m] \in Ranks /\ x = WithCandidate(b, m)
    BY <1>0, <1>2, <1>3, <1>9, CallOnBlock DEF PromotionOps
  <2>. HIDE DEF m, b
  <2>2. pool = Nominated(b, m)
    BY <1>8, <2>0, <2>1 DEF Nominated, m
  <2>3. /\ x.production = b.production /\ x.previous = b.previous
        /\ \E worst \in pool :
             /\ \A c \in pool : c.rank >= worst.rank
             /\ ToSet(x.candidates) = IF Cardinality(pool) <= MaxCandidates
                                      THEN pool ELSE pool \ {worst}
    BY <1>3, <2>1, <2>2, NominationAsSet
  <2>4. UNCHANGED <<prod, prev>>
    BY <1>5, <1>6, <1>7, <2>3
  <2>. HIDE DEF pool
  <2>5. \E worst \in pool :
          /\ \A c \in pool : c.rank >= worst.rank
          /\ cand' = [cand EXCEPT ![s] = IF Cardinality(pool) <= MaxCandidates
                                         THEN pool ELSE pool \ {worst}]
    BY <1>6, <2>3
  <2>6. Contract!Nominate(s, m, r)
    BY <2>4, <2>5, ContractCounts DEF Contract!Nominate, pool
  <2>7. QED
    BY <1>3, <2>1, <2>6 DEF Contract!Next
<1>10. CASE j.op = "production"
  <2>1. j.model \in Models /\ x = [b EXCEPT !.production = j.model]
    BY <1>0, <1>2, <1>3, <1>10, CallOnBlock DEF PromotionOps
  <2>2. /\ x.production = j.model /\ x.previous = b.previous
        /\ x.candidates = b.candidates
    BY <1>3, <2>1 DEF Block
  <2>3. Contract!Override(s, j.model)
    BY <1>5, <1>6, <1>7, <2>2 DEF Contract!Override
  <2>4. QED
    BY <1>3, <2>1, <2>3 DEF Contract!Next
<1>11. CASE j.op = "previous"
  <2>1. /\ j.model \in Models
        /\ x = [b EXCEPT !.previous = Keep(<<j.model>> \o b.previous, MaxCandidates)]
    BY <1>0, <1>2, <1>3, <1>11, CallOnBlock DEF PromotionOps
  <2>2. /\ x.production = b.production /\ x.candidates = b.candidates
        /\ x.previous = Keep(<<j.model>> \o b.previous, MaxCandidates)
        /\ b.previous \in Seq(Models)
    BY <1>3, <2>1 DEF Block
  <2>3. x.previous = Contract!Archived(j.model, prev[s], MaxCandidates)
    BY <1>5, <2>1, <2>2, ArchivedIsKeep, LimitsAssumption
  <2>4. Contract!Archive(s, j.model)
    BY <1>5, <1>6, <1>7, <2>2, <2>3 DEF Contract!Archive
  <2>5. QED
    BY <1>3, <2>1, <2>4 DEF Contract!Next
<1>12. CASE j.op = "resync"
  <2>1. x = b
    BY <1>0, <1>2, <1>3, <1>12, CallOnBlock DEF PromotionOps
  <2>2. UNCHANGED <<prod, prev, cand>>
    BY <1>5, <1>6, <1>7, <2>1
  <2>3. QED
    BY <2>2 DEF Contract!contractVars
<1>13. CASE j.op \in PromotionOps
  <2>. DEFINE m == x.production
  <2>1. /\ m \in Models
        /\ \E c \in ToSet(b.candidates) : c.model = m
        /\ x.previous = IF b.production = NoModel THEN b.previous
                        ELSE Keep(<<b.production>> \o b.previous, KeepPrevious)
        /\ ToSet(x.candidates) = Rivals(b, m)
    BY <1>0, <1>2, <1>3, <1>13, CallOnBlock DEF PromotionOps
  <2>. HIDE DEF b
  <2>2. \E c \in cand[s] : c.model = m
    BY <1>5, <2>1
  <2>3. prod' = [prod EXCEPT ![s] = m]
    BY <1>6
  <2>4. cand' = [cand EXCEPT ![s] = Contract!Others(s, m)]
    BY <1>6, <1>8, <2>1
  <2>5. prev' = IF prod[s] = NoModel THEN prev
                ELSE [prev EXCEPT ![s] =
                        Contract!Archived(prod[s], prev[s], KeepPrevious)]
    <3>1. CASE b.production = NoModel
      BY <1>5, <1>6, <1>7, <2>1, <3>1
    <3>2. CASE b.production # NoModel
      <4>1. b.production \in Models /\ b.previous \in Seq(Models)
        BY <1>3, <3>2 DEF Block
      <4>2. x.previous = Contract!Archived(b.production, b.previous, KeepPrevious)
        BY <2>1, <3>2, <4>1, ArchivedIsKeep, LimitsAssumption
      <4>3. QED
        BY <1>5, <1>6, <3>2, <4>2
    <3>3. QED
      BY <3>1, <3>2
  <2>6. Contract!Promote(s, m)
    BY <2>2, <2>3, <2>4, <2>5 DEF Contract!Promote
  <2>7. QED
    BY <1>3, <2>1, <2>6 DEF Contract!Next
<1>14. QED
  BY <1>0, <1>2, <1>3, <1>9, <1>10, <1>11, <1>12, <1>13, CallOnBlock

LEMMA NextContract ==
  ASSUME ~FreshRoot
  PROVE  IInv /\ TurnInv /\ [Next]_vars
           => [Contract!Next]_Contract!contractVars
<1>. SUFFICES ASSUME IInv, TurnInv, [Next]_vars
              PROVE  Contract!Next \/ UNCHANGED Contract!contractVars
  OBVIOUS
<1>1. ASSUME NEW p \in Procs, Flush(p)
      PROVE  Contract!Next \/ UNCHANGED Contract!contractVars
  BY <1>1, FlushIsCall
<1>2. ASSUME UNCHANGED registry
      PROVE  UNCHANGED Contract!contractVars
  BY <1>2 DEF Contract!contractVars
<1>3. QED
  BY <1>1, <1>2 DEF Next, Write, Train, AskPromotion, RunScript, Load, Fail,
     Truncate, WriteAudit, Crash, Review, vars

\* While callers take turns and the registry file exists from the start, the
\* file behaves as its contract says, wherever a caller is killed: every call
\* of set_stage, promote_model or promote_stage takes effect in one step, on
\* its own system only.
THEOREM CallsAreAtomic ==
  ASSUME ~FreshRoot
  PROVE  Spec /\ []TakingTurns => CallsTakeEffectAtomically
<1>1. Init => IInv /\ TurnInv /\ Contract!Init
  BY InitIInv, InitTurnInv, InitContract
<1>2. IInv /\ TurnInv /\ TakingTurns /\ TakingTurns' /\ [Next]_vars
        => IInv' /\ TurnInv' /\ [Contract!Next]_Contract!contractVars
  BY NextIInv, NextTurnInv, NextContract
<1>3. QED
  BY <1>1, <1>2, PTL DEF Spec, CallsTakeEffectAtomically, Contract!Spec
=============================================================================
