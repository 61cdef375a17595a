---------------------------- MODULE BaseRDMAProofs ----------------------------
(***************************************************************************)
(* BaseRDMA and the transports over it.  The allocator keeps its invariant *)
(* and refines AbstractAllocator, for a memory of any size and any sizes   *)
(* that are asked for.  Of the verbs objects what the members name exists, *)
(* and the destructors destroy in an order in which they neither fail nor  *)
(* pull something away.                                                    *)
(***************************************************************************)
EXTENDS Allocator, QueuePairs, FiniteSetTheorems, SequenceTheorems, WellFoundedInduction, TLAPS

-----------------------------------------------------------------------------
(***************************************************************************)
(* The allocator: the inductive invariant                                  *)
(***************************************************************************)
Memory == 0 .. MemSize - 1

End(region) == region.offset + region.size
BytesOf(list) == UNION {bytes(list[k]) : k \in DOMAIN list}
Disjoint(r, s) == bytes(r) \cap bytes(s) = {}

\* A list is sorted, and no two regions of it touch.
Coalesced(list) == \A j, k \in DOMAIN list : j < k => End(list[j]) < list[k].offset

\* Regions in use, and regions lost, are apart from each other and from the free ones.
\* That the free ones are apart from each other is FreeListCoalesced.
Apart ==
    /\ \A r, s \in m_usedRdmaMem : r = s \/ Disjoint(r, s)
    /\ \A r, s \in lost : r = s \/ Disjoint(r, s)
    /\ \A r \in m_usedRdmaMem, s \in lost : Disjoint(r, s)
    /\ \A r \in m_usedRdmaMem \cup lost : freeBytes \cap bytes(r) = {}

\* Together they are the memory.
Complete == freeBytes \cup UNION {bytes(r) : r \in m_usedRdmaMem \cup lost} = Memory

IInv == TypeOK /\ FreeListCoalesced /\ Apart /\ Complete

-----------------------------------------------------------------------------
(***************************************************************************)
(* The allocator: regions and lists of regions                             *)
(***************************************************************************)
\* A region is the interval from its offset to its end, which is not empty.
LEMMA RegionIsInterval ==
    ASSUME NEW r \in Regions
    PROVE  /\ r.offset \in Nat /\ r.size \in Nat /\ r.size >= 1 /\ End(r) \in Nat
           /\ \A b : b \in bytes(r) <=> b \in Int /\ r.offset <= b /\ b < End(r)
           /\ r.offset \in bytes(r) /\ End(r) - 1 \in bytes(r)
<1>1. r.offset \in Nat /\ r.size \in Nat /\ r.size >= 1
  BY MemAssumption DEF Regions
<1> QED
  BY <1>1 DEF bytes, End

\* An interval in the memory that is not empty is a region.
LEMMA IntervalIsRegion ==
    ASSUME NEW o \in Nat, NEW n \in Nat, n >= 1, o + n <= MemSize
    PROVE  [offset |-> o, size |-> n] \in Regions
<1>1. o \in 0 .. MemSize - 1 /\ n \in 1 .. MemSize
  BY MemAssumption
<1> QED
  BY <1>1 DEF Regions

\* Of two regions that share no byte one is in front of the other.
LEMMA DisjointRegions ==
    ASSUME NEW r \in Regions, NEW s \in Regions, Disjoint(r, s)
    PROVE  End(r) <= s.offset \/ End(s) <= r.offset
<1>1. /\ \A b : b \in bytes(r) <=> b \in Int /\ r.offset <= b /\ b < End(r)
      /\ \A b : b \in bytes(s) <=> b \in Int /\ s.offset <= b /\ b < End(s)
      /\ r.offset \in Nat /\ s.offset \in Nat /\ End(r) \in Nat /\ End(s) \in Nat
      /\ r.offset < End(r) /\ s.offset < End(s)
  BY RegionIsInterval DEF End
<1>2. r.offset \notin bytes(s) /\ s.offset \notin bytes(r)
  BY RegionIsInterval DEF Disjoint
<1> QED
  BY <1>1, <1>2

\* A byte is in a list when it is in a region of it.
LEMMA ByteOfList ==
    ASSUME NEW list, NEW b
    PROVE  b \in BytesOf(list) <=> \E k \in DOMAIN list : b \in bytes(list[k])
BY DEF BytesOf

\* The entries from first to last of a list are replaced by those of another list, with which
\* a region is cut, inserted or joined with its neighbours.
Replaced(s, first, last, t) == SubSeq(s, 1, first - 1) \o t \o SubSeq(s, last + 1, Len(s))

\* The entries in front of first stay, those of the other list follow, then those behind last.
InTheirPlace(S, s, first, last, t) ==
    /\ Replaced(s, first, last, t) \in Seq(S)
    /\ Len(Replaced(s, first, last, t)) = first - 1 + Len(t) + (Len(s) - last)
    /\ DOMAIN Replaced(s, first, last, t) = 1 .. Len(Replaced(s, first, last, t))
    /\ \A j \in DOMAIN Replaced(s, first, last, t) :
          Replaced(s, first, last, t)[j] =
              IF j < first THEN s[j]
              ELSE IF j < first + Len(t) THEN t[j - first + 1]
              ELSE s[j - first - Len(t) + 1 + last]

\* So they are in any list.
LEMMA EntriesReplaced ==
    ASSUME NEW S, NEW s \in Seq(S), NEW t \in Seq(S),
           NEW first \in 1 .. Len(s), NEW last \in first - 1 .. Len(s)
    PROVE  InTheirPlace(S, s, first, last, t)
<1> DEFINE front == SubSeq(s, 1, first - 1)
           back == SubSeq(s, last + 1, Len(s))
           new == front \o t \o back
<1>1. PICK n \in Nat, m \in Nat : Len(s) = n /\ Len(t) = m
  BY LenProperties
<1>2. /\ front \in Seq(S) /\ Len(front) = first - 1
      /\ \A j \in 1 .. first - 1 : front[j] = s[j]
  BY <1>1, SubSeqProperties
<1>3. /\ back \in Seq(S) /\ Len(back) = n - last
      /\ \A j \in 1 .. n - last : back[j] = s[last + j]
  BY <1>1, SubSeqProperties
<1> HIDE DEF front, back
<1>4. /\ front \o t \in Seq(S) /\ Len(front \o t) = first - 1 + m
      /\ \A j \in 1 .. first - 1 + m : (front \o t)[j] = IF j < first THEN front[j] ELSE t[j - first + 1]
  <2>1. /\ front \o t \in Seq(S) /\ Len(front \o t) = Len(front) + Len(t)
        /\ \A j \in 1 .. Len(front) + Len(t) :
              (front \o t)[j] = IF j <= Len(front) THEN front[j] ELSE t[j - Len(front)]
    BY <1>2, ConcatProperties
  <2>2. Len(front) = first - 1 /\ Len(t) = m
    BY <1>1, <1>2
  <2>3. \A j \in 1 .. first - 1 + m :
            (front \o t)[j] = IF j <= first - 1 THEN front[j] ELSE t[j - (first - 1)]
    BY <2>1, <2>2
  <2>4. \A j \in 1 .. first - 1 + m : (j <= first - 1 <=> j < first) /\ j - (first - 1) = j - first + 1
    BY <1>1
  <2> QED
    BY <2>1, <2>2, <2>3, <2>4
<1>5. /\ new \in Seq(S) /\ Len(new) = first - 1 + m + (n - last)
      /\ \A j \in 1 .. first - 1 + m + (n - last) :
            new[j] = IF j < first + m THEN (front \o t)[j] ELSE back[j - first - m + 1]
  <2> DEFINE most == front \o t
  <2> HIDE DEF most
  <2>1. most \in Seq(S) /\ Len(most) = first - 1 + m
    BY <1>4 DEF most
  <2>2. /\ most \o back \in Seq(S) /\ Len(most \o back) = Len(most) + Len(back)
        /\ \A j \in 1 .. Len(most) + Len(back) :
              (most \o back)[j] = IF j <= Len(most) THEN most[j] ELSE back[j - Len(most)]
    BY <1>3, <2>1, ConcatProperties
  <2>3. \A j \in 1 .. first - 1 + m + (n - last) :
            (most \o back)[j] = IF j <= first - 1 + m THEN most[j] ELSE back[j - (first - 1 + m)]
    BY <1>3, <2>1, <2>2
  <2>4. \A j \in 1 .. first - 1 + m + (n - last) :
            (j <= first - 1 + m <=> j < first + m) /\ j - (first - 1 + m) = j - first - m + 1
    BY <1>1
  <2>5. \A j \in 1 .. first - 1 + m + (n - last) :
            (most \o back)[j] = IF j < first + m THEN most[j] ELSE back[j - first - m + 1]
    BY <2>3, <2>4
  <2> QED
    BY <1>3, <2>1, <2>2, <2>5 DEF most
<1>6. DOMAIN new = 1 .. Len(new)
  BY <1>5, LenProperties
<1> HIDE DEF new
<1>7. ASSUME NEW j \in DOMAIN new
      PROVE  new[j] = IF j < first THEN s[j]
                      ELSE IF j < first + m THEN t[j - first + 1]
                      ELSE s[j - first - m + 1 + last]
  <2>1. j \in 1 .. first - 1 + m + (n - last)
    BY <1>5, <1>6
  <2>2. CASE j < first
    BY <1>1, <1>2, <1>4, <1>5, <2>1, <2>2
  <2>3. CASE first <= j /\ j < first + m
    <3>1. j \in 1 .. first - 1 + m /\ ~(j < first)
      BY <1>1, <2>1, <2>3
    <3>2. new[j] = (front \o t)[j]
      BY <1>5, <2>1, <2>3
    <3>3. (front \o t)[j] = t[j - first + 1]
      BY <1>4, <3>1
    <3> QED
      BY <2>3, <3>1, <3>2, <3>3
  <2>4. CASE first + m <= j
    <3>1. new[j] = back[j - first - m + 1] /\ j - first - m + 1 \in 1 .. n - last
      BY <1>1, <1>5, <2>1, <2>4
    <3>2. back[j - first - m + 1] = s[last + (j - first - m + 1)]
      BY <1>3, <3>1
    <3>3. last + (j - first - m + 1) = j - first - m + 1 + last /\ ~(j < first) /\ ~(j < first + m)
      BY <1>1, <2>1, <2>4
    <3>4. new[j] = s[j - first - m + 1 + last]
      BY <3>1, <3>2, <3>3
    <3> QED
      BY <3>3, <3>4
  <2> QED
    BY <1>1, <2>1, <2>2, <2>3, <2>4
<1>8. new = Replaced(s, first, last, t)
  BY DEF new, front, back, Replaced
<1>9. /\ new \in Seq(S) /\ Len(new) = first - 1 + Len(t) + (Len(s) - last)
      /\ DOMAIN new = 1 .. Len(new)
      /\ \A j \in DOMAIN new :
            new[j] = IF j < first THEN s[j]
                     ELSE IF j < first + Len(t) THEN t[j - first + 1]
                     ELSE s[j - first - Len(t) + 1 + last]
  BY <1>1, <1>5, <1>6, <1>7
<1> HIDE DEF new
<1> QED
  BY <1>8, <1>9 DEF InTheirPlace

\* One entry is exchanged, taken out, or put in.
LEMMA EntryExchanged ==
    ASSUME NEW S, NEW s \in Seq(S), NEW x \in S, NEW k \in 1 .. Len(s)
    PROVE  /\ Replaced(s, k, k, <<x>>) \in Seq(S)
           /\ Len(Replaced(s, k, k, <<x>>)) = Len(s)
           /\ \A j \in 1 .. Len(s) : Replaced(s, k, k, <<x>>)[j] = IF j = k THEN x ELSE s[j]
<1> DEFINE t == <<x>>
<1>1. t \in Seq(S) /\ Len(t) = 1 /\ t[1] = x
  OBVIOUS
<1>2. Len(s) \in Nat
  BY LenProperties
<1>3. t \in Seq(S)
  OBVIOUS
<1> HIDE DEF t
<1>4. InTheirPlace(S, s, k, k, t)
  <2>1. k \in k - 1 .. Len(s)
    BY <1>2
  <2> QED
    BY <1>3, <2>1, EntriesReplaced
<1>5. /\ Replaced(s, k, k, t) \in Seq(S)
      /\ Len(Replaced(s, k, k, t)) = k - 1 + Len(t) + (Len(s) - k)
      /\ DOMAIN Replaced(s, k, k, t) = 1 .. Len(Replaced(s, k, k, t))
  BY <1>4 DEF InTheirPlace
<1>6. \A j \in DOMAIN Replaced(s, k, k, t) :
          Replaced(s, k, k, t)[j] = IF j < k THEN s[j]
                                    ELSE IF j < k + Len(t) THEN t[j - k + 1] ELSE s[j - k - Len(t) + 1 + k]
  BY <1>4 DEF InTheirPlace
<1>7. Len(Replaced(s, k, k, t)) = Len(s) /\ DOMAIN Replaced(s, k, k, t) = 1 .. Len(s)
  BY <1>1, <1>2, <1>5
<1>8. ASSUME NEW j \in 1 .. Len(s) PROVE Replaced(s, k, k, t)[j] = IF j = k THEN x ELSE s[j]
  <2>1. j - k - 1 + 1 + k = j /\ (j < k \/ j = k \/ k < j) /\ (j = k => j - k + 1 = 1)
    BY <1>2
  <2>2. Replaced(s, k, k, t)[j] = IF j < k THEN s[j]
                                  ELSE IF j < k + 1 THEN t[j - k + 1] ELSE s[j - k - 1 + 1 + k]
    BY <1>1, <1>6, <1>7
  <2> QED
    BY <1>1, <1>2, <2>1, <2>2
<1> QED
  BY <1>5, <1>7, <1>8 DEF t

\* Replaced by the empty list, one entry goes: a free region is used up.
LEMMA EntryRemoved ==
    ASSUME NEW S, NEW s \in Seq(S), NEW k \in 1 .. Len(s)
    PROVE  /\ Replaced(s, k, k, <<>>) \in Seq(S)
           /\ Len(Replaced(s, k, k, <<>>)) = Len(s) - 1
           /\ \A j \in 1 .. Len(s) - 1 : Replaced(s, k, k, <<>>)[j] = IF j < k THEN s[j] ELSE s[j + 1]
<1> DEFINE t == <<>>
<1>1. t \in Seq(S) /\ Len(t) = 0
  OBVIOUS
<1>2. Len(s) \in Nat
  BY LenProperties
<1>3. t \in Seq(S)
  OBVIOUS
<1> HIDE DEF t
<1>4. InTheirPlace(S, s, k, k, t)
  <2>1. k \in k - 1 .. Len(s)
    BY <1>2
  <2> QED
    BY <1>3, <2>1, EntriesReplaced
<1>5. /\ Replaced(s, k, k, t) \in Seq(S)
      /\ Len(Replaced(s, k, k, t)) = k - 1 + Len(t) + (Len(s) - k)
      /\ DOMAIN Replaced(s, k, k, t) = 1 .. Len(Replaced(s, k, k, t))
  BY <1>4 DEF InTheirPlace
<1>6. \A j \in DOMAIN Replaced(s, k, k, t) :
          Replaced(s, k, k, t)[j] = IF j < k THEN s[j]
                                    ELSE IF j < k + Len(t) THEN t[j - k + 1] ELSE s[j - k - Len(t) + 1 + k]
  BY <1>4 DEF InTheirPlace
<1>7. Len(Replaced(s, k, k, t)) = Len(s) - 1 /\ DOMAIN Replaced(s, k, k, t) = 1 .. Len(s) - 1
  BY <1>1, <1>2, <1>5
<1>8. ASSUME NEW j \in 1 .. Len(s) - 1 PROVE Replaced(s, k, k, t)[j] = IF j < k THEN s[j] ELSE s[j + 1]
  <2>1. j - k - 0 + 1 + k = j + 1 /\ (j < k + 0 <=> j < k)
    BY <1>2
  <2>2. Replaced(s, k, k, t)[j] = IF j < k THEN s[j]
                                  ELSE IF j < k + 0 THEN t[j - k + 1] ELSE s[j - k - 0 + 1 + k]
    BY <1>1, <1>6, <1>7
  <2> QED
    BY <2>1, <2>2
<1> QED
  BY <1>5, <1>7, <1>8 DEF t

\* Replaced by x and no old entry, InsertAt: a released region comes into the free list.
LEMMA EntryInserted ==
    ASSUME NEW S, NEW s \in Seq(S), NEW x \in S, NEW k \in 1 .. Len(s)
    PROVE  /\ InsertAt(s, k, x) \in Seq(S)
           /\ Len(InsertAt(s, k, x)) = Len(s) + 1
           /\ \A j \in 1 .. Len(s) + 1 :
                 InsertAt(s, k, x)[j] = IF j < k THEN s[j] ELSE IF j = k THEN x ELSE s[j - 1]
<1> DEFINE t == <<x>>
           l == k - 1
<1>1. t \in Seq(S) /\ Len(t) = 1 /\ t[1] = x
  OBVIOUS
<1>2. Len(s) \in Nat
  BY LenProperties
<1>3. t \in Seq(S)
  OBVIOUS
<1>4. l \in k - 1 .. Len(s)
  BY <1>2
<1>5. InsertAt(s, k, x) = Replaced(s, k, l, t)
  <2>1. l + 1 = k
    BY <1>2
  <2> QED
    BY <2>1 DEF InsertAt, Replaced
<1> HIDE DEF t
<1>6. InTheirPlace(S, s, k, l, t)
  <2> HIDE DEF l
  <2> QED
    BY <1>3, <1>4, EntriesReplaced
<1>7. /\ Replaced(s, k, l, t) \in Seq(S)
      /\ Len(Replaced(s, k, l, t)) = k - 1 + Len(t) + (Len(s) - l)
      /\ DOMAIN Replaced(s, k, l, t) = 1 .. Len(Replaced(s, k, l, t))
  <2> HIDE DEF l
  <2> QED
    BY <1>6 DEF InTheirPlace
<1>8. \A j \in DOMAIN Replaced(s, k, l, t) :
          Replaced(s, k, l, t)[j] = IF j < k THEN s[j]
                                    ELSE IF j < k + Len(t) THEN t[j - k + 1] ELSE s[j - k - Len(t) + 1 + l]
  <2> HIDE DEF l
  <2> QED
    BY <1>6 DEF InTheirPlace
<1>9. Len(Replaced(s, k, l, t)) = Len(s) + 1 /\ DOMAIN Replaced(s, k, l, t) = 1 .. Len(s) + 1
  BY <1>1, <1>2, <1>7
<1>10. ASSUME NEW j \in 1 .. Len(s) + 1
      PROVE  Replaced(s, k, l, t)[j] = IF j < k THEN s[j] ELSE IF j = k THEN x ELSE s[j - 1]
  <2>1. j - k - 1 + 1 + l = j - 1 /\ (j < k \/ j = k \/ k < j) /\ (j = k => j - k + 1 = 1)
    BY <1>2
  <2>2. Replaced(s, k, l, t)[j] = IF j < k THEN s[j]
                                  ELSE IF j < k + 1 THEN t[j - k + 1] ELSE s[j - k - 1 + 1 + l]
    BY <1>1, <1>8, <1>9
  <2> HIDE DEF l
  <2> QED
    BY <1>1, <1>2, <2>1, <2>2
<1> QED
  BY <1>5, <1>7, <1>9, <1>10

-----------------------------------------------------------------------------
(***************************************************************************)
(* lastOffset                                                              *)
(***************************************************************************)
\* The running sum of the offsets of a list exists up to each place of it: a first place
\* up to which it did not would be behind one up to which it does.
LEMMA SumsExist ==
    ASSUME NEW list \in Seq(Regions), NEW n \in 1 .. Len(list) + 1
    PROVE  \E f \in [1 .. n -> Nat] :
               f[1] = 0 /\ \A k \in 2 .. n : f[k] = f[k - 1] + list[k - 1].offset
<1> DEFINE Sum(f, m) == f[1] = 0 /\ \A k \in 2 .. m : f[k] = f[k - 1] + list[k - 1].offset
           Has == {m \in Nat : \E f \in [1 .. m -> Nat] : Sum(f, m)}
           T == (1 .. Len(list) + 1) \ Has
           R == OpToRel(<, Nat)
<1>1. Len(list) \in Nat /\ \A k \in 1 .. Len(list) : list[k] \in Regions /\ list[k].offset \in Nat
  BY LenProperties, ElementOfSeq, RegionIsInterval
<1>2. T = {}
  <2>1. SUFFICES ASSUME T # {} PROVE FALSE
    OBVIOUS
  <2>2. PICK m \in T : \A y \in T : <<y, m>> \notin R
    <3>1. IsWellFoundedOn(R, Nat)
      BY NatLessThanWellFounded
    <3>2. T \subseteq Nat
      BY <1>1
    <3> HIDE DEF T, R
    <3> QED
      BY <2>1, <3>1, <3>2, WFMin
  <2>3. m # 1
    <3>1. [k \in 1 .. 1 |-> 0] \in [1 .. 1 -> Nat] /\ Sum([k \in 1 .. 1 |-> 0], 1)
      OBVIOUS
    <3>2. 1 \in Has
      BY <3>1
    <3> HIDE DEF Has
    <3> QED
      BY <3>2
  <2>4. m \in Nat /\ m \in 2 .. Len(list) + 1 /\ m \notin Has
    <3> HIDE DEF Has, R
    <3> QED
      BY <1>1, <2>2, <2>3
  <2>5. m - 1 \in Nat /\ m - 1 \in 1 .. Len(list) + 1 /\ <<m - 1, m>> \in R
    BY <1>1, <2>4 DEF OpToRel
  <2>6. m - 1 \in Has
    <3> HIDE DEF Has
    <3> QED
      BY <2>2, <2>5
  <2>7. PICK f \in [1 .. m - 1 -> Nat] : Sum(f, m - 1)
    BY <2>6
  <2> DEFINE g == [k \in 1 .. m |-> IF k = m THEN f[m - 1] + list[m - 1].offset ELSE f[k]]
  <2>8. g \in [1 .. m -> Nat]
    BY <1>1, <2>4, <2>7
  <2>9. g[1] = 0
    BY <2>4, <2>7
  <2>10. ASSUME NEW k \in 2 .. m PROVE g[k] = g[k - 1] + list[k - 1].offset
    BY <2>4, <2>7
  <2> HIDE DEF g
  <2> QED
    BY <2>4, <2>8, <2>9, <2>10
<1>3. n \in Nat /\ n \notin T
  BY <1>1, <1>2
<1>4. n \in Has
  <2> HIDE DEF Has
  <2> QED
    BY <1>3
<1> QED
  BY <1>4

\* lastOffset is that sum, so that no free region in front of a place has an offset
\* larger than lastOffset there.
LEMMA LastOffsetBounds ==
    ASSUME m_rdmaMem \in Seq(Regions), NEW k \in DOMAIN m_rdmaMem
    PROVE  lastOffset[k] \in Nat /\ (k > 1 => m_rdmaMem[k - 1].offset <= lastOffset[k])
<1> DEFINE n == Len(m_rdmaMem) + 1
           Next1(f) == [j \in 1 .. n |-> IF j = 1 THEN 0 ELSE f[j - 1] + m_rdmaMem[j - 1].offset]
<1>1. /\ Len(m_rdmaMem) \in Nat /\ DOMAIN m_rdmaMem = 1 .. Len(m_rdmaMem)
      /\ \A j \in 1 .. Len(m_rdmaMem) : m_rdmaMem[j].offset \in Nat
  BY LenProperties, ElementOfSeq, RegionIsInterval
<1>2. PICK f \in [1 .. n -> Nat] :
          f[1] = 0 /\ \A j \in 2 .. n : f[j] = f[j - 1] + m_rdmaMem[j - 1].offset
  <2>1. n \in 1 .. Len(m_rdmaMem) + 1
    BY <1>1
  <2> QED
    BY <2>1, SumsExist
<1>3. f = Next1(f)
  BY <1>1, <1>2
<1>4. lastOffset = Next1(lastOffset)
  <2>1. lastOffset = CHOOSE g : g = Next1(g)
    BY DEF lastOffset
  <2> HIDE DEF Next1
  <2> QED
    BY <1>3, <2>1
<1> DEFINE U == {m \in Nat : m \in 1 .. n /\ lastOffset[m] # f[m]}
           R == OpToRel(<, Nat)
<1>5. U = {}
  <2>1. SUFFICES ASSUME U # {} PROVE FALSE
    OBVIOUS
  <2>2. PICK m \in U : \A y \in U : <<y, m>> \notin R
    <3>1. IsWellFoundedOn(R, Nat)
      BY NatLessThanWellFounded
    <3>2. U \subseteq Nat
      OBVIOUS
    <3> HIDE DEF U, R
    <3> QED
      BY <2>1, <3>1, <3>2, WFMin
  <2>3. m \in Nat /\ m \in 1 .. n /\ lastOffset[m] # f[m]
    OBVIOUS
  <2>4. lastOffset[m] = IF m = 1 THEN 0 ELSE lastOffset[m - 1] + m_rdmaMem[m - 1].offset
    BY <1>4, <2>3
  <2>5. m # 1
    BY <1>2, <2>3, <2>4
  <2>6. m - 1 \in Nat /\ m - 1 \in 1 .. n /\ <<m - 1, m>> \in R
    BY <1>1, <2>3, <2>5 DEF OpToRel
  <2>7. lastOffset[m - 1] = f[m - 1]
    BY <2>2, <2>6
  <2> QED
    BY <1>1, <1>2, <2>3, <2>4, <2>5, <2>7
<1>6. ASSUME NEW j \in 1 .. n PROVE lastOffset[j] = f[j]
  <2>1. j \in Nat
    BY <1>1
  <2>2. j \notin U
    BY <1>5
  <2> HIDE DEF R, Next1
  <2> QED
    BY <2>1, <2>2
<1> HIDE DEF U, R, Next1
<1>7. k \in 1 .. n /\ lastOffset[k] = f[k]
  BY <1>1, <1>6
<1>8. k > 1 => f[k] = f[k - 1] + m_rdmaMem[k - 1].offset /\ f[k - 1] \in Nat /\ m_rdmaMem[k - 1].offset \in Nat
  BY <1>1, <1>2
<1> QED
  BY <1>1, <1>2, <1>7, <1>8

-----------------------------------------------------------------------------
(***************************************************************************)
(* The allocator: the free list                                            *)
(***************************************************************************)
\* What a list of regions is: its places and its entries.
LEMMA ListFacts ==
    ASSUME NEW list \in Seq(Regions)
    PROVE  /\ Len(list) \in Nat /\ DOMAIN list = 1 .. Len(list)
           /\ \A k \in DOMAIN list :
                 /\ list[k] \in Regions
                 /\ list[k].offset \in Nat /\ list[k].size \in Nat /\ list[k].size >= 1
                 /\ End(list[k]) \in Nat /\ list[k].offset < End(list[k])
                 /\ \A b : b \in bytes(list[k]) <=> b \in Int /\ list[k].offset <= b /\ b < End(list[k])
<1>1. Len(list) \in Nat /\ DOMAIN list = 1 .. Len(list)
  BY LenProperties
<1>2. ASSUME NEW k \in DOMAIN list
      PROVE  /\ list[k] \in Regions
             /\ list[k].offset \in Nat /\ list[k].size \in Nat /\ list[k].size >= 1
             /\ End(list[k]) \in Nat /\ list[k].offset < End(list[k])
             /\ \A b : b \in bytes(list[k]) <=> b \in Int /\ list[k].offset <= b /\ b < End(list[k])
  <2>1. list[k] \in Regions
    BY <1>1, <1>2, ElementOfSeq
  <2> QED
    BY <2>1, RegionIsInterval DEF End
<1> QED
  BY <1>1, <1>2

\* internalAlloc takes the front of a region from the list: what is left of the list is
\* sorted and joined as before, and has all bytes but those taken.
LEMMA FrontIsTaken ==
    ASSUME NEW list \in Seq(Regions), Coalesced(list), BytesOf(list) \subseteq Memory,
           NEW k \in DOMAIN list, NEW size \in Nat, size >= 1, size <= list[k].size
    PROVE  LET new == SubSeq(list, 1, k - 1) \o rest(list[k], size) \o SubSeq(list, k + 1, Len(list))
               taken == [offset |-> list[k].offset, size |-> size] IN
           /\ taken \in Regions /\ bytes(taken) \subseteq BytesOf(list)
           /\ new \in Seq(Regions) /\ Coalesced(new)
           /\ BytesOf(new) = BytesOf(list) \ bytes(taken)
<1> DEFINE t == rest(list[k], size)
           new == SubSeq(list, 1, k - 1) \o t \o SubSeq(list, k + 1, Len(list))
           taken == [offset |-> list[k].offset, size |-> size]
           left == [offset |-> list[k].offset + size, size |-> list[k].size - size]
<1>1. /\ Len(list) \in Nat /\ DOMAIN list = 1 .. Len(list)
      /\ \A i \in DOMAIN list :
            /\ list[i].offset \in Nat /\ list[i].size \in Nat /\ list[i].size >= 1
            /\ End(list[i]) \in Nat /\ list[i].offset < End(list[i])
            /\ End(list[i]) = list[i].offset + list[i].size
            /\ \A b : b \in bytes(list[i]) <=> b \in Int /\ list[i].offset <= b /\ b < End(list[i])
  BY ListFacts DEF End
<1>2. End(list[k]) <= MemSize
  <2>1. End(list[k]) - 1 \in bytes(list[k])
    BY <1>1
  <2>2. End(list[k]) - 1 \in Memory
    BY <2>1, ByteOfList
  <2> QED
    BY <1>1, <2>2, MemAssumption DEF Memory
<1>3. /\ taken \in Regions
      /\ \A b : b \in bytes(taken) <=> b \in Int /\ list[k].offset <= b /\ b < list[k].offset + size
  <2>1. list[k].offset + size <= MemSize
    BY <1>1, <1>2, MemAssumption
  <2>2. taken \in Regions
    BY <1>1, <2>1, IntervalIsRegion
  <2>3. taken.offset = list[k].offset /\ taken.size = size
    OBVIOUS
  <2> HIDE DEF taken
  <2> QED
    BY <2>2, <2>3, RegionIsInterval DEF End
<1>4. bytes(taken) \subseteq BytesOf(list)
  <2>1. ASSUME NEW b \in bytes(taken) PROVE b \in bytes(list[k])
    <3>1. b \in Int /\ list[k].offset <= b /\ b < list[k].offset + size
      BY <1>3, <2>1
    <3> QED
      BY <1>1, <3>1
  <2> HIDE DEF taken
  <2> QED
    BY <2>1, ByteOfList
<1>5. CASE size < list[k].size
  <2>1. t = <<left>>
    BY <1>1, <1>5 DEF rest
  <2>2. /\ left \in Regions
        /\ left.offset = list[k].offset + size /\ End(left) = End(list[k])
        /\ \A b : b \in bytes(left) <=> b \in Int /\ list[k].offset + size <= b /\ b < End(list[k])
    <3>1. left.offset = list[k].offset + size /\ left.size = list[k].size - size
      OBVIOUS
    <3>2. list[k].offset + size + (list[k].size - size) = End(list[k])
      BY <1>1
    <3>3. left \in Regions
      BY <1>1, <1>2, <1>5, <3>2, IntervalIsRegion
    <3> HIDE DEF left
    <3>4. End(left) = End(list[k])
      BY <3>1, <3>2 DEF End
    <3> QED
      BY <3>1, <3>3, <3>4, RegionIsInterval
  <2>3. /\ new \in Seq(Regions) /\ DOMAIN new = DOMAIN list
        /\ \A j \in DOMAIN list : new[j] = IF j = k THEN left ELSE list[j]
    <3>1. k \in 1 .. Len(list)
      BY <1>1
    <3>2. new = Replaced(list, k, k, <<left>>)
      BY <2>1 DEF new, Replaced
    <3> HIDE DEF new, left, t
    <3>3. left \in Regions
      BY <2>2
    <3>4. /\ Replaced(list, k, k, <<left>>) \in Seq(Regions)
          /\ Len(Replaced(list, k, k, <<left>>)) = Len(list)
          /\ \A j \in 1 .. Len(list) : Replaced(list, k, k, <<left>>)[j] = IF j = k THEN left ELSE list[j]
      BY <3>1, <3>3, EntryExchanged
    <3>5. new \in Seq(Regions) /\ Len(new) = Len(list)
      BY <3>2, <3>4
    <3> QED
      BY <1>1, <3>2, <3>4, <3>5, LenProperties
  <2> HIDE DEF new, left, taken
  <2>4. ASSUME NEW j \in DOMAIN list
        PROVE  End(new[j]) = End(list[j]) /\ list[j].offset <= new[j].offset /\ new[j].offset \in Nat
    <3>1. list[j].offset \in Nat /\ list[k].offset \in Nat
      BY <1>1
    <3>2. CASE j = k
      BY <2>2, <2>3, <3>1, <3>2
    <3>3. CASE j # k
      BY <2>3, <3>1, <3>3
    <3> QED
      BY <3>2, <3>3
  <2>5. Coalesced(new)
    <3>1. ASSUME NEW i \in DOMAIN list, NEW j \in DOMAIN list, i < j PROVE End(new[i]) < new[j].offset
      BY <1>1, <2>4, <3>1 DEF Coalesced
    <3> QED
      BY <2>3, <3>1 DEF Coalesced
  <2>6. ASSUME NEW j \in DOMAIN list, NEW b
        PROVE  b \in bytes(new[j]) <=> b \in bytes(list[j]) /\ b \notin bytes(taken)
    <3>1. CASE j = k
      BY <1>1, <1>3, <2>2, <2>3, <3>1
    <3>2. CASE j # k
      <4>1. j < k => End(list[j]) < list[k].offset
        BY DEF Coalesced
      <4>2. k < j => End(list[k]) < list[j].offset
        BY DEF Coalesced
      <4>3. /\ b \in bytes(list[j]) <=> b \in Int /\ list[j].offset <= b /\ b < End(list[j])
            /\ b \in bytes(taken) <=> b \in Int /\ list[k].offset <= b /\ b < list[k].offset + size
            /\ list[j].offset \in Nat /\ End(list[j]) \in Nat /\ list[k].offset \in Nat
            /\ list[k].offset + size <= End(list[k]) /\ End(list[k]) \in Nat
        BY <1>1, <1>3
      <4>4. j < k \/ k < j
        BY <1>1, <3>2
      <4>5. b \in bytes(list[j]) => b \notin bytes(taken)
        BY <4>1, <4>2, <4>3, <4>4
      <4> QED
        BY <2>3, <3>2, <4>5
    <3> QED
      BY <3>1, <3>2
  <2>7. BytesOf(new) = BytesOf(list) \ bytes(taken)
    BY <2>3, <2>6, ByteOfList
  <2> QED
    BY <1>3, <1>4, <2>3, <2>5, <2>7 DEF new, taken
<1>6. CASE size = list[k].size
  <2> DEFINE src(j) == IF j < k THEN j ELSE j + 1
  <2>1. t = <<>>
    BY <1>1, <1>6 DEF rest
  <2>2. /\ new \in Seq(Regions) /\ DOMAIN new = 1 .. Len(list) - 1
        /\ \A j \in DOMAIN new : new[j] = list[src(j)]
    <3>1. k \in 1 .. Len(list)
      BY <1>1
    <3>2. new = Replaced(list, k, k, <<>>)
      BY <2>1 DEF new, Replaced
    <3> HIDE DEF new, t
    <3>3. /\ Replaced(list, k, k, <<>>) \in Seq(Regions)
          /\ Len(Replaced(list, k, k, <<>>)) = Len(list) - 1
          /\ \A j \in 1 .. Len(list) - 1 : Replaced(list, k, k, <<>>)[j] = IF j < k THEN list[j] ELSE list[j + 1]
      BY <3>1, EntryRemoved
    <3>4. new \in Seq(Regions) /\ Len(new) = Len(list) - 1
      BY <3>2, <3>3
    <3>5. DOMAIN new = 1 .. Len(list) - 1
      BY <3>4, LenProperties
    <3> QED
      BY <3>2, <3>3, <3>4, <3>5
  <2> HIDE DEF new, taken
  <2>3. \A j \in DOMAIN new : src(j) \in DOMAIN list /\ src(j) # k /\ \A i \in DOMAIN new : i < j => src(i) < src(j)
    BY <1>1, <2>2
  <2>4. Coalesced(new)
    <3>1. ASSUME NEW i \in DOMAIN new, NEW j \in DOMAIN new, i < j PROVE End(new[i]) < new[j].offset
      BY <2>2, <2>3, <3>1 DEF Coalesced
    <3> QED
      BY <3>1 DEF Coalesced
  <2>5. bytes(taken) = bytes(list[k])
    BY <1>1, <1>3, <1>6
  <2>6. \A i \in DOMAIN list : i # k => bytes(list[i]) \cap bytes(list[k]) = {}
    <3>1. ASSUME NEW i \in DOMAIN list, i # k, NEW b \in bytes(list[i]), b \in bytes(list[k]) PROVE FALSE
      <4>1. i < k => End(list[i]) < list[k].offset
        BY DEF Coalesced
      <4>2. k < i => End(list[k]) < list[i].offset
        BY DEF Coalesced
      <4> QED
        BY <1>1, <3>1, <4>1, <4>2
    <3> QED
      BY <3>1
  <2>7. ASSUME NEW i \in DOMAIN list, i # k PROVE \E j \in DOMAIN new : new[j] = list[i]
    <3>1. CASE i < k
      <4>1. i \in DOMAIN new /\ src(i) = i
        BY <1>1, <2>2, <3>1
      <4> QED
        BY <2>2, <4>1
    <3>2. CASE k < i
      <4>1. i - 1 \in DOMAIN new /\ src(i - 1) = i
        BY <1>1, <2>2, <3>2
      <4> QED
        BY <2>2, <4>1
    <3> QED
      BY <1>1, <2>7, <3>1, <3>2
  <2>8. BytesOf(new) = BytesOf(list) \ bytes(list[k])
    <3>1. ASSUME NEW b \in BytesOf(new) PROVE b \in BytesOf(list) /\ b \notin bytes(list[k])
      <4>1. PICK j \in DOMAIN new : b \in bytes(new[j])
        BY ByteOfList
      <4>2. b \in bytes(list[src(j)]) /\ src(j) \in DOMAIN list /\ src(j) # k
        BY <2>2, <2>3, <4>1
      <4> QED
        BY <2>6, <4>2, ByteOfList
    <3>2. ASSUME NEW b \in BytesOf(list), b \notin bytes(list[k]) PROVE b \in BytesOf(new)
      <4>1. PICK i \in DOMAIN list : b \in bytes(list[i])
        BY ByteOfList
      <4>2. i # k
        BY <3>2, <4>1
      <4>3. PICK j \in DOMAIN new : new[j] = list[i]
        BY <2>7, <4>2
      <4> QED
        BY <4>1, <4>3, ByteOfList
    <3> QED
      BY <3>1, <3>2
  <2> QED
    BY <1>3, <1>4, <2>2, <2>4, <2>5, <2>8 DEF new, taken
<1>7. size < list[k].size \/ size = list[k].size
  <2>1. list[k].size \in Nat
    BY <1>1
  <2> QED
    BY <2>1
<1> HIDE DEF t, new, taken, left
<1> QED
  BY <1>5, <1>6, <1>7

\* A region put into a list at the place where its offset belongs leaves the list sorted, and
\* touches at most the regions before and behind it.
LEMMA RegionIsInserted ==
    ASSUME NEW list \in Seq(Regions), Coalesced(list),
           NEW r \in Regions, BytesOf(list) \cap bytes(r) = {},
           NEW k \in 1 .. Len(list), k > 1 => list[k - 1].offset <= r.offset, r.offset < list[k].offset
    PROVE  /\ \A i, j \in DOMAIN InsertAt(list, k, r) :
                 i < j => /\ End(InsertAt(list, k, r)[i]) <= InsertAt(list, k, r)[j].offset
                          /\ \/ i = k - 1 /\ j = k
                             \/ i = k /\ j = k + 1
                             \/ End(InsertAt(list, k, r)[i]) < InsertAt(list, k, r)[j].offset
           /\ BytesOf(InsertAt(list, k, r)) = BytesOf(list) \cup bytes(r)
<1> DEFINE new == InsertAt(list, k, r)
           n == Len(list)
<1>1. /\ n \in Nat /\ DOMAIN list = 1 .. n
      /\ \A i \in DOMAIN list :
            /\ list[i].offset \in Nat /\ End(list[i]) \in Nat /\ list[i].offset < End(list[i])
            /\ list[i] \in Regions
  BY ListFacts
<1>2. /\ new \in Seq(Regions) /\ Len(new) = n + 1
      /\ \A j \in 1 .. n + 1 : new[j] = IF j < k THEN list[j] ELSE IF j = k THEN r ELSE list[j - 1]
  BY EntryInserted
<1>3. DOMAIN new = 1 .. n + 1
  BY <1>2, LenProperties
<1> HIDE DEF new
<1>4. r.offset \in Nat /\ End(r) \in Nat /\ r.offset < End(r)
  BY RegionIsInterval DEF End
<1>5. \A i \in DOMAIN list : End(list[i]) <= r.offset \/ End(r) <= list[i].offset
  <2>1. ASSUME NEW i \in DOMAIN list PROVE Disjoint(list[i], r)
    BY ByteOfList DEF Disjoint
  <2> QED
    BY <1>1, <2>1, DisjointRegions
<1>6. \A i, j \in DOMAIN list : i < j => End(list[i]) < list[j].offset
  BY DEF Coalesced
<1>7. ASSUME NEW i \in DOMAIN list, i < k PROVE End(list[i]) <= r.offset
  <2>1. list[i].offset <= r.offset
    <3>1. CASE i = k - 1
      BY <1>1, <1>7, <3>1
    <3>2. CASE i < k - 1
      <4>1. k - 1 \in DOMAIN list /\ k > 1
        BY <1>1, <1>7, <3>2
      <4>2. End(list[i]) < list[k - 1].offset
        BY <1>6, <3>2, <4>1
      <4>3. list[k - 1].offset <= r.offset /\ list[k - 1].offset \in Nat
        BY <1>1, <4>1
      <4>4. list[i].offset < End(list[i]) /\ list[i].offset \in Nat /\ End(list[i]) \in Nat
        BY <1>1
      <4> QED
        BY ONLY <1>4, <4>2, <4>3, <4>4
    <3>3. i \in Nat /\ k \in Nat
      BY <1>1
    <3> QED
      BY <1>7, <3>1, <3>2, <3>3
  <2> QED
    BY <1>1, <1>4, <1>5, <2>1
<1>8. ASSUME NEW i \in DOMAIN list, k <= i PROVE End(r) <= list[i].offset
  <2>1. r.offset < list[i].offset
    <3>1. CASE i = k
      BY <3>1
    <3>2. CASE k < i
      <4>1. k \in DOMAIN list /\ End(list[k]) < list[i].offset
        BY <1>1, <1>6, <3>2
      <4> QED
        BY <1>1, <1>4, <4>1
    <3> QED
      BY <1>1, <1>8, <3>1, <3>2
  <2> QED
    BY <1>1, <1>4, <1>5, <2>1
<1>9. ASSUME NEW i \in DOMAIN new, NEW j \in DOMAIN new, i < j
      PROVE  /\ End(new[i]) <= new[j].offset
             /\ (i = k - 1 /\ j = k) \/ (i = k /\ j = k + 1) \/ End(new[i]) < new[j].offset
  <2>1. CASE j < k
    <3>1. new[i] = list[i] /\ new[j] = list[j] /\ i \in DOMAIN list /\ j \in DOMAIN list
      BY <1>1, <1>2, <1>3, <1>9, <2>1
    <3> QED
      BY <1>1, <1>6, <1>9, <3>1
  <2>2. CASE j = k
    <3>1. new[i] = list[i] /\ new[j] = r /\ i \in DOMAIN list
      BY <1>1, <1>2, <1>3, <1>9, <2>2
    <3>2. End(list[i]) <= r.offset
      BY <1>7, <1>9, <2>2, <3>1
    <3>3. CASE i < k - 1
      <4>1. k - 1 \in DOMAIN list /\ list[k - 1].offset <= r.offset
        BY <1>1, <1>3, <1>9, <2>2, <3>3
      <4>2. End(list[i]) < list[k - 1].offset
        BY <1>6, <3>1, <3>3, <4>1
      <4>3. list[k - 1].offset \in Nat /\ End(list[i]) \in Nat
        BY <1>1, <3>1, <4>1
      <4>4. End(list[i]) < r.offset
        BY <1>4, <4>1, <4>2, <4>3
      <4> QED
        BY <2>2, <3>1, <3>2, <4>4
    <3> QED
      BY <1>1, <1>3, <1>9, <2>2, <3>1, <3>2, <3>3
  <2>3. CASE i < k /\ k < j
    <3>1. new[i] = list[i] /\ new[j] = list[j - 1] /\ i \in DOMAIN list /\ j - 1 \in DOMAIN list /\ i < j - 1
      BY <1>1, <1>2, <1>3, <1>9, <2>3
    <3> QED
      BY <1>1, <1>6, <3>1
  <2>4. CASE i = k
    <3>1. new[i] = r /\ new[j] = list[j - 1] /\ j - 1 \in DOMAIN list /\ k <= j - 1
      BY <1>1, <1>2, <1>3, <1>9, <2>4
    <3>2. End(r) <= list[j - 1].offset
      BY <1>8, <3>1
    <3>3. CASE k + 1 < j
      <4>1. k \in DOMAIN list /\ k < j - 1
        BY <1>1, <1>3, <3>3
      <4>2. End(list[k]) < list[j - 1].offset /\ End(r) <= list[k].offset
        BY <1>6, <1>8, <3>1, <4>1
      <4> QED
        BY <1>1, <1>4, <3>1, <3>2, <4>1, <4>2
    <3> QED
      BY <1>1, <1>3, <1>9, <2>4, <3>1, <3>2, <3>3
  <2>5. CASE k < i
    <3>1. /\ new[i] = list[i - 1] /\ new[j] = list[j - 1]
          /\ i - 1 \in DOMAIN list /\ j - 1 \in DOMAIN list /\ i - 1 < j - 1
      BY <1>1, <1>2, <1>3, <1>9, <2>5
    <3> QED
      BY <1>1, <1>6, <3>1
  <2> QED
    BY <1>3, <1>9, <2>1, <2>2, <2>3, <2>4, <2>5
<1>10. BytesOf(new) = BytesOf(list) \cup bytes(r)
  <2>1. ASSUME NEW b \in BytesOf(new) PROVE b \in BytesOf(list) \cup bytes(r)
    <3>1. PICK j \in DOMAIN new : b \in bytes(new[j])
      BY ByteOfList
    <3>2. CASE j = k
      BY <1>2, <1>3, <3>1, <3>2
    <3>3. CASE j # k
      <4>1. \E i \in DOMAIN list : new[j] = list[i]
        <5>1. CASE j < k
          BY <1>1, <1>2, <1>3, <5>1
        <5>2. CASE k < j
          <6>1. j - 1 \in DOMAIN list /\ new[j] = list[j - 1]
            BY <1>1, <1>2, <1>3, <5>2
          <6> QED
            BY <6>1
        <5> QED
          BY <1>3, <3>3, <5>1, <5>2
      <4> QED
        BY <3>1, <4>1, ByteOfList
    <3> QED
      BY <3>2, <3>3
  <2>2. ASSUME NEW b \in BytesOf(list) PROVE b \in BytesOf(new)
    <3>1. PICK i \in DOMAIN list : b \in bytes(list[i])
      BY ByteOfList
    <3>2. \E j \in DOMAIN new : new[j] = list[i]
      <4>1. CASE i < k
        BY <1>1, <1>2, <1>3, <4>1
      <4>2. CASE k <= i
        <5>1. i + 1 \in DOMAIN new /\ i + 1 - 1 = i /\ ~(i + 1 < k) /\ i + 1 # k
          BY <1>1, <1>3, <4>2
        <5>2. new[i + 1] = list[i]
          BY <1>2, <1>3, <5>1
        <5> QED
          BY <5>1, <5>2
      <4> QED
        BY <1>1, <4>1, <4>2
    <3> QED
      BY <3>1, <3>2, ByteOfList
  <2>3. ASSUME NEW b \in bytes(r) PROVE b \in BytesOf(new)
    <3>1. k \in DOMAIN new /\ new[k] = r
      BY <1>1, <1>2, <1>3
    <3> QED
      BY <3>1, ByteOfList
  <2> QED
    BY <2>1, <2>2, <2>3
<1> QED
  BY <1>9, <1>10 DEF new

\* The entry at j of a list in which some entries became the one entry of t.
LEMMA EntryJoined ==
    ASSUME NEW S, NEW s \in Seq(S), NEW t \in Seq(S), Len(t) = 1,
           NEW first \in 1 .. Len(s), NEW last \in first .. Len(s),
           NEW d \in Nat, d = last - first, NEW j \in 1 .. Len(s) - d
    PROVE  /\ j < first => Replaced(s, first, last, t)[j] = s[j]
           /\ j = first => Replaced(s, first, last, t)[j] = t[1]
           /\ first < j => Replaced(s, first, last, t)[j] = s[j + d]
<1>1. Len(s) \in Nat
  BY LenProperties
<1>2. InTheirPlace(S, s, first, last, t)
  <2>1. last \in first - 1 .. Len(s)
    BY <1>1
  <2> QED
    BY <2>1, EntriesReplaced
<1>3. /\ Len(Replaced(s, first, last, t)) = first - 1 + Len(t) + (Len(s) - last)
      /\ DOMAIN Replaced(s, first, last, t) = 1 .. Len(Replaced(s, first, last, t))
  BY <1>2 DEF InTheirPlace
<1>4. \A i \in DOMAIN Replaced(s, first, last, t) :
          Replaced(s, first, last, t)[i] =
              IF i < first THEN s[i]
              ELSE IF i < first + Len(t) THEN t[i - first + 1] ELSE s[i - first - Len(t) + 1 + last]
  BY <1>2 DEF InTheirPlace
<1>5. DOMAIN Replaced(s, first, last, t) = 1 .. Len(s) - d
  BY <1>1, <1>3
<1>6. /\ j - first - 1 + 1 + last = j + d
      /\ j < first \/ j = first \/ first < j
      /\ j = first => j - first + 1 = 1
  BY <1>1
<1>7. Replaced(s, first, last, t)[j] =
          IF j < first THEN s[j]
          ELSE IF j < first + 1 THEN t[j - first + 1] ELSE s[j - first - 1 + 1 + last]
  BY <1>4, <1>5
<1> QED
  BY <1>1, <1>6, <1>7

\* How many entries are left, when some became the one entry of t.
LEMMA EntriesJoined ==
    ASSUME NEW S, NEW s \in Seq(S), NEW t \in Seq(S), Len(t) = 1,
           NEW first \in 1 .. Len(s), NEW last \in first .. Len(s)
    PROVE  /\ Replaced(s, first, last, t) \in Seq(S)
           /\ Len(Replaced(s, first, last, t)) = Len(s) - (last - first)
<1>1. Len(s) \in Nat
  BY LenProperties
<1>2. InTheirPlace(S, s, first, last, t)
  <2>1. last \in first - 1 .. Len(s)
    BY <1>1
  <2> QED
    BY <2>1, EntriesReplaced
<1>3. /\ Replaced(s, first, last, t) \in Seq(S)
      /\ Len(Replaced(s, first, last, t)) = first - 1 + Len(t) + (Len(s) - last)
  BY <1>2 DEF InTheirPlace
<1> QED
  BY <1>1, <1>3

\* mergeFreeMem makes of a list that is sorted, and in which only the region at k may touch those
\* before and behind it, one in which none do, of the same bytes.
LEMMA NeighboursAreJoined ==
    ASSUME NEW list \in Seq(Regions), BytesOf(list) \subseteq Memory, NEW k \in 1 .. Len(list),
           \A i, j \in DOMAIN list :
               i < j => /\ End(list[i]) <= list[j].offset
                        /\ \/ i = k - 1 /\ j = k
                           \/ i = k /\ j = k + 1
                           \/ End(list[i]) < list[j].offset
    PROVE  /\ mergeFreeMem(list, k) \in Seq(Regions) /\ Coalesced(mergeFreeMem(list, k))
           /\ BytesOf(mergeFreeMem(list, k)) = BytesOf(list)
<1> DEFINE n == Len(list)
           first == IF k > 1 /\ adjacent(list[k - 1], list[k]) THEN k - 1 ELSE k
           last == IF k < n /\ adjacent(list[k], list[k + 1]) THEN k + 1 ELSE k
           joined == [offset |-> list[first].offset,
                      size |-> list[last].offset + list[last].size - list[first].offset]
           new == Replaced(list, first, last, <<joined>>)
<1>1. new = mergeFreeMem(list, k)
  BY DEF mergeFreeMem, Replaced
<1>2. /\ n \in Nat /\ DOMAIN list = 1 .. n
      /\ \A i \in DOMAIN list :
            /\ list[i].offset \in Nat /\ list[i].size \in Nat /\ End(list[i]) \in Nat
            /\ list[i].offset < End(list[i]) /\ End(list[i]) = list[i].offset + list[i].size
            /\ \A b : b \in bytes(list[i]) <=> b \in Int /\ list[i].offset <= b /\ b < End(list[i])
  BY ListFacts DEF End
<1>3. /\ first \in 1 .. n /\ last \in 1 .. n
      /\ first = k /\ k > 1 => End(list[k - 1]) # list[k].offset
      /\ first = k \/ (first = k - 1 /\ End(list[k - 1]) = list[k].offset)
      /\ last = k /\ k < n => End(list[k]) # list[k + 1].offset
      /\ last = k \/ (last = k + 1 /\ End(list[k]) = list[k + 1].offset)
  BY <1>2 DEF adjacent, End
<1> HIDE DEF first, last, n
<1>4. /\ first \in DOMAIN list /\ last \in DOMAIN list /\ k \in DOMAIN list
      /\ first \in Nat /\ last \in Nat /\ k \in Nat /\ first <= k /\ k <= last
  BY <1>2, <1>3 DEF n
<1>5. \A i, j \in DOMAIN list : i < j => End(list[i]) <= list[j].offset
  OBVIOUS
<1>6. list[first].offset < End(list[last])
  <2>1. first = last \/ first < last
    BY <1>4
  <2>2. first < last => End(list[first]) <= list[last].offset
    BY <1>4, <1>5
  <2> QED
    BY <1>2, <1>4, <2>1, <2>2
<1>7. joined \in Regions /\ joined.offset = list[first].offset /\ End(joined) = End(list[last])
  <2>1. joined.offset = list[first].offset /\ joined.size = End(list[last]) - list[first].offset
    <3>1. /\ joined.offset = list[first].offset
          /\ joined.size = list[last].offset + list[last].size - list[first].offset
      OBVIOUS
    <3> HIDE DEF joined
    <3>2. PICK o \in Nat, a \in Nat, b \in Nat :
              o = list[first].offset /\ a = list[last].offset /\ b = list[last].size
      BY <1>2, <1>4
    <3>3. PICK e \in Nat : e = End(list[last]) /\ e = a + b
      BY <1>2, <1>4, <3>2
    <3>4. joined.size = a + b - o
      BY ONLY <3>1, <3>2
    <3>5. a + b - o = e - o
      BY ONLY <3>3, o \in Nat, a \in Nat, b \in Nat, e \in Nat
    <3>6. joined.size = e - o
      BY ONLY <3>4, <3>5
    <3> QED
      BY ONLY <3>1, <3>2, <3>3, <3>6
  <2>2. End(list[last]) <= MemSize
    <3>1. End(list[last]) - 1 \in bytes(list[last])
      BY <1>4, RegionIsInterval, ElementOfSeq
    <3>2. End(list[last]) - 1 \in Memory
      BY <1>4, <3>1, ByteOfList
    <3> QED
      BY <1>2, <1>4, <3>2, MemAssumption DEF Memory
  <2>3. PICK o \in Nat, e \in Nat : o = list[first].offset /\ e = End(list[last])
    BY <1>2, <1>4
  <2>4. joined = [offset |-> o, size |-> e - o] /\ e - o \in Nat /\ e - o >= 1 /\ o + (e - o) = e
    <3>1. joined = [offset |-> o, size |-> e - o]
      <4>1. joined = [offset |-> joined.offset, size |-> joined.size]
        OBVIOUS
      <4> HIDE DEF joined
      <4> QED
        BY <2>1, <2>3, <4>1
    <3>2. o < e
      BY <1>6, <2>3
    <3> QED
      BY <3>1, <3>2
  <2>5. joined \in Regions
    BY <2>2, <2>3, <2>4, IntervalIsRegion
  <2> HIDE DEF joined
  <2> QED
    BY <2>1, <2>3, <2>4, <2>5 DEF End
<1>8. \A b : b \in bytes(joined) <=> b \in Int /\ list[first].offset <= b /\ b < End(list[last])
  <2> HIDE DEF joined
  <2> QED
    BY <1>7, RegionIsInterval
<1> HIDE DEF joined
<1> DEFINE d == last - first
<1>9. /\ new \in Seq(Regions) /\ DOMAIN new = 1 .. n - d
      /\ \A j \in 1 .. n - d : new[j] = IF j < first THEN list[j] ELSE IF j = first THEN joined ELSE list[j + d]
  <2>1. first \in 1 .. Len(list)
    BY <1>3 DEF n
  <2>2. last \in first .. Len(list)
    BY <1>2, <1>3, <1>4 DEF n
  <2>3. joined \in Regions
    BY <1>7
  <2>4. /\ Replaced(list, first, last, <<joined>>) \in Seq(Regions)
        /\ Len(Replaced(list, first, last, <<joined>>)) = Len(list) - (last - first)
        /\ \A j \in 1 .. Len(list) - (last - first) :
              Replaced(list, first, last, <<joined>>)[j] =
                  IF j < first THEN list[j] ELSE IF j = first THEN joined ELSE list[j + (last - first)]
    <3> HIDE DEF new, joined
    <3> DEFINE t == <<joined>>
    <3>1. t \in Seq(Regions)
      BY <2>3
    <3>2. Len(t) = 1 /\ t[1] = joined
      OBVIOUS
    <3> HIDE DEF t
    <3>3. PICK f \in 1 .. Len(list) : f = first
      BY <2>1
    <3>4. PICK l \in f .. Len(list) : l = last
      BY <2>2, <3>3
    <3>5. Replaced(list, f, l, t) \in Seq(Regions) /\ Len(Replaced(list, f, l, t)) = Len(list) - (l - f)
      BY ONLY <3>1, <3>2, list \in Seq(Regions), f \in 1 .. Len(list), l \in f .. Len(list), EntriesJoined
    <3>6. PICK e \in Nat : e = l - f
      BY <1>2 DEF n
    <3>7. ASSUME NEW j \in 1 .. Len(list) - e
          PROVE  /\ j < f => Replaced(list, f, l, t)[j] = list[j]
                 /\ j = f => Replaced(list, f, l, t)[j] = t[1]
                 /\ f < j => Replaced(list, f, l, t)[j] = list[j + e]
      BY ONLY <3>1, <3>2, <3>6, list \in Seq(Regions), f \in 1 .. Len(list), l \in f .. Len(list),
              e \in Nat, j \in 1 .. Len(list) - e, EntryJoined
    <3>8. ASSUME NEW j \in 1 .. Len(list) - e
          PROVE  j < f \/ j = f \/ f < j
      BY <1>2 DEF n
    <3> QED
      BY <3>2, <3>3, <3>4, <3>5, <3>6, <3>7, <3>8 DEF t
  <2> HIDE DEF new
  <2>5. /\ new \in Seq(Regions) /\ Len(new) = n - d
        /\ \A j \in 1 .. n - d : new[j] = IF j < first THEN list[j] ELSE IF j = first THEN joined ELSE list[j + d]
    BY <2>4 DEF n, new
  <2> QED
    BY <2>5, LenProperties
<1> HIDE DEF new
<1>10. d \in Nat /\ d = last - first
  BY <1>2, <1>4
<1> HIDE DEF d
<1>11. \A j \in DOMAIN new : /\ j < first => j \in DOMAIN list
                             /\ first < j => j + d \in DOMAIN list /\ last < j + d
  <2>1. \A j \in 1 .. n - d : /\ j < first => j \in 1 .. n
                              /\ first < j => j + d \in 1 .. n /\ last < j + d
    <3>1. n \in Nat /\ first \in 1 .. n /\ last \in 1 .. n /\ d \in Nat /\ d = last - first
      BY <1>2, <1>4, <1>10
    <3> QED
      BY <3>1
  <2> QED
    BY <1>2, <1>9, <2>1
<1>12. ASSUME NEW i \in DOMAIN new, NEW j \in DOMAIN new, i < j PROVE End(new[i]) < new[j].offset
  <2>1. i \in Nat /\ j \in Nat /\ first \in Nat /\ last \in Nat /\ k \in Nat
    BY <1>2, <1>4, <1>9
  <2>2. CASE j < first
    <3>1. new[i] = list[i] /\ new[j] = list[j] /\ i \in DOMAIN list /\ j \in DOMAIN list
      BY <1>9, <1>11, <1>12, <2>1, <2>2
    <3> QED
      BY <1>4, <1>12, <2>1, <2>2, <3>1
  <2>3. CASE j = first
    <3>1. new[i] = list[i] /\ new[j].offset = list[first].offset /\ i \in DOMAIN list
      BY <1>7, <1>9, <1>11, <1>12, <2>1, <2>3
    <3>2. End(list[i]) <= list[first].offset /\ (End(list[i]) < list[first].offset \/ (i = k - 1 /\ first = k))
      BY <1>4, <1>12, <2>1, <2>3, <3>1
    <3>3. i = k - 1 /\ first = k => End(list[i]) # list[first].offset
      BY <1>2, <1>3, <2>1, <3>1
    <3> QED
      BY <1>2, <1>4, <3>1, <3>2, <3>3
  <2>4. CASE i < first /\ first < j
    <3>1. new[i] = list[i] /\ new[j] = list[j + d] /\ i \in DOMAIN list /\ j + d \in DOMAIN list /\ last < j + d
      BY <1>9, <1>11, <2>1, <2>4
    <3>2. i < j + d /\ ~(i = k - 1 /\ j + d = k) /\ ~(i = k /\ j + d = k + 1)
      <4>1. j + d \in Nat
        BY <1>2, <3>1
      <4> QED
        BY <1>4, <2>1, <2>4, <3>1, <4>1
    <3> QED
      BY <3>1, <3>2
  <2>5. CASE i = first
    <3>1. End(new[i]) = End(list[last]) /\ new[j] = list[j + d] /\ j + d \in DOMAIN list /\ last < j + d
      BY <1>7, <1>9, <1>11, <1>12, <2>1, <2>5
    <3>2. /\ End(list[last]) <= list[j + d].offset
          /\ End(list[last]) < list[j + d].offset \/ (last = k /\ j + d = k + 1)
      <4>1. j + d \in Nat
        BY <1>2, <3>1
      <4>2. last # k - 1
        BY <1>4
      <4> QED
        BY <1>4, <3>1, <4>1, <4>2
    <3>3. last = k /\ j + d = k + 1 => k < n /\ End(list[last]) # list[j + d].offset
      BY <1>2, <1>3, <2>1, <3>1
    <3> QED
      BY <1>2, <1>4, <3>1, <3>2, <3>3
  <2>6. CASE first < i
    <3>1. /\ new[i] = list[i + d] /\ i + d \in DOMAIN list /\ last < i + d
          /\ new[j] = list[j + d] /\ j + d \in DOMAIN list /\ i + d < j + d
      BY <1>9, <1>10, <1>11, <1>12, <2>1, <2>6
    <3>2. ~(i + d = k - 1 /\ j + d = k) /\ ~(i + d = k /\ j + d = k + 1)
      <4>1. i + d \in Nat
        BY <1>2, <3>1
      <4> QED
        BY <1>4, <3>1, <4>1
    <3> QED
      BY <3>1, <3>2
  <2> QED
    BY <1>12, <2>1, <2>2, <2>3, <2>4, <2>5, <2>6
<1>13. \A b : b \in bytes(joined) <=> \E i \in DOMAIN list : first <= i /\ i <= last /\ b \in bytes(list[i])
  <2>1. ASSUME NEW b \in bytes(joined)
        PROVE  \E i \in DOMAIN list : first <= i /\ i <= last /\ b \in bytes(list[i])
    <3>1. b \in Int /\ list[first].offset <= b /\ b < End(list[last])
      BY <1>8
    <3>2. CASE b < list[k].offset
      <4>1. first = k - 1 /\ End(list[k - 1]) = list[k].offset
        BY <1>2, <1>3, <1>4, <3>1, <3>2
      <4>2. b \in bytes(list[first])
        BY <1>2, <1>4, <3>1, <3>2, <4>1
      <4>3. first <= last
        BY <1>4
      <4> QED
        BY <1>4, <4>2, <4>3
    <3>3. CASE list[k].offset <= b /\ b < End(list[k])
      BY <1>2, <1>4, <3>1, <3>3
    <3>4. CASE End(list[k]) <= b
      <4>1. last = k + 1 /\ End(list[k]) = list[k + 1].offset
        BY <1>2, <1>3, <1>4, <3>1, <3>4
      <4>2. b \in bytes(list[last])
        BY <1>2, <1>4, <3>1, <3>4, <4>1
      <4>3. first <= last
        BY <1>4
      <4> QED
        BY <1>4, <4>2, <4>3
    <3>5. list[k].offset \in Nat /\ End(list[k]) \in Nat
      BY <1>2, <1>4
    <3> QED
      BY <3>1, <3>2, <3>3, <3>4, <3>5
  <2>2. ASSUME NEW i \in DOMAIN list, first <= i, i <= last, NEW b \in bytes(list[i])
        PROVE  b \in bytes(joined)
    <3>1. b \in Int /\ list[i].offset <= b /\ b < End(list[i]) /\ list[i].offset \in Nat /\ End(list[i]) \in Nat
      BY <1>2
    <3>2. list[first].offset <= list[i].offset
      <4>1. i = first \/ first < i
        BY <1>2, <1>4, <2>2
      <4>2. first < i => End(list[first]) <= list[i].offset
        BY <1>4, <1>5
      <4>3. /\ list[first].offset < End(list[first]) /\ list[first].offset \in Nat
            /\ End(list[first]) \in Nat /\ list[i].offset \in Nat
        BY <1>2, <1>4
      <4> QED
        BY ONLY <4>1, <4>2, <4>3
    <3>3. End(list[i]) <= End(list[last])
      <4>1. i = last \/ i < last
        BY <1>2, <1>4, <2>2
      <4>2. i < last => End(list[i]) <= list[last].offset
        BY <1>4, <1>5
      <4>3. /\ list[last].offset < End(list[last]) /\ list[last].offset \in Nat
            /\ End(list[last]) \in Nat /\ End(list[i]) \in Nat
        BY <1>2, <1>4
      <4> QED
        BY ONLY <4>1, <4>2, <4>3
    <3>4. list[first].offset \in Nat /\ End(list[last]) \in Nat
      BY <1>2, <1>4
    <3>5. list[first].offset <= b /\ b < End(list[last])
      BY <3>1, <3>2, <3>3, <3>4
    <3> QED
      BY <1>8, <3>1, <3>5
  <2> QED
    BY <2>1, <2>2
<1>14. BytesOf(new) = BytesOf(list)
  <2>1. ASSUME NEW b \in BytesOf(new) PROVE b \in BytesOf(list)
    <3>1. PICK j \in DOMAIN new : b \in bytes(new[j])
      BY ByteOfList
    <3>2. \E i \in DOMAIN list : b \in bytes(list[i])
      <4>1. CASE j < first
        BY <1>9, <1>11, <3>1, <4>1
      <4>2. CASE j = first
        BY <1>3, <1>9, <1>13, <3>1, <4>2
      <4>3. CASE first < j
        <5>1. new[j] = list[j + d] /\ j + d \in DOMAIN list
          BY <1>2, <1>4, <1>9, <1>11, <4>3
        <5> QED
          BY <3>1, <5>1
      <4>4. j \in Nat /\ first \in Nat
        BY <1>2, <1>4, <1>9
      <4> QED
        BY <4>1, <4>2, <4>3, <4>4
    <3> QED
      BY <3>2, ByteOfList
  <2>2. ASSUME NEW b \in BytesOf(list) PROVE b \in BytesOf(new)
    <3>1. PICK i \in DOMAIN list : b \in bytes(list[i])
      BY ByteOfList
    <3>2. i \in Nat /\ first \in Nat /\ last \in Nat
      BY <1>2, <1>4
    <3>3. CASE i < first
      <4>1. i \in DOMAIN new /\ new[i] = list[i]
        BY <1>2, <1>3, <1>9, <1>10, <3>2, <3>3
      <4> QED
        BY <3>1, <4>1, ByteOfList
    <3>4. CASE first <= i /\ i <= last
      <4>1. first \in DOMAIN new /\ new[first] = joined
        BY <1>2, <1>3, <1>9, <1>10, <3>2
      <4>2. b \in bytes(joined)
        BY <1>13, <3>1, <3>4
      <4> QED
        BY <4>1, <4>2, ByteOfList
    <3>5. CASE last < i
      <4>1. i - d \in DOMAIN new /\ i - d + d = i /\ first < i - d
        <5>1. i \in 1 .. n /\ first >= 1
          BY <1>2, <1>3
        <5>2. i - d \in 1 .. n - d /\ i - d + d = i /\ first < i - d
          BY <1>2, <1>10, <3>2, <3>5, <5>1
        <5> QED
          BY <1>9, <5>2
      <4>2. new[i - d] = list[i]
        BY <1>9, <3>2, <4>1
      <4> QED
        BY <3>1, <4>1, <4>2, ByteOfList
    <3> QED
      BY <3>2, <3>3, <3>4, <3>5
  <2> QED
    BY <2>1, <2>2
<1> QED
  BY <1>1, <1>9, <1>12, <1>14 DEF Coalesced

-----------------------------------------------------------------------------
(***************************************************************************)
(* The allocator: its calls                                                *)
(***************************************************************************)
\* Of some places there is a first one.
LEMMA FirstExists ==
    ASSUME NEW T, T \subseteq Nat, T # {}
    PROVE  \E x \in T : \A y \in T : x <= y
<1> DEFINE R == OpToRel(<, Nat)
<1>1. PICK x \in T : \A y \in T : <<y, x>> \notin R
  <2>1. IsWellFoundedOn(R, Nat)
    BY NatLessThanWellFounded
  <2> HIDE DEF R
  <2> QED
    BY <2>1, WFMin
<1>2. ASSUME NEW y \in T PROVE ~(y < x)
  BY <1>1 DEF OpToRel
<1> QED
  BY <1>2

\* A call of internalAlloc finds no region that is large enough, or it takes the front
\* of one.
LEMMA AllocStep ==
    ASSUME IInv, NEW size \in Sizes, internalAlloc(size)
    PROVE  \/ /\ \A k \in DOMAIN m_rdmaMem : m_rdmaMem[k].size < size
              /\ result' = "null" /\ UNCHANGED <<m_rdmaMem, m_usedRdmaMem, lost>>
           \/ /\ m_rdmaMem' \in Seq(Regions) /\ Coalesced(m_rdmaMem')
              /\ \E r \in Regions :
                    /\ r.size = size /\ bytes(r) \subseteq freeBytes
                    /\ BytesOf(m_rdmaMem') = freeBytes \ bytes(r)
                    /\ m_usedRdmaMem' = m_usedRdmaMem \cup {r}
              /\ result' = "ok" /\ UNCHANGED lost
<1> DEFINE fitting == {k \in DOMAIN m_rdmaMem : fits(k, size)}
<1>1. /\ m_rdmaMem \in Seq(Regions) /\ Coalesced(m_rdmaMem)
      /\ BytesOf(m_rdmaMem) = freeBytes /\ BytesOf(m_rdmaMem) \subseteq Memory
  BY DEF IInv, TypeOK, FreeListCoalesced, Coalesced, End, Complete, freeBytes, BytesOf
<1>2. size \in Nat /\ size >= 1
  BY MemAssumption
<1>3. CASE fitting = {}
  <2>1. result' = "null" /\ UNCHANGED <<m_rdmaMem, m_usedRdmaMem, lost>>
    BY <1>3 DEF internalAlloc
  <2>2. \A k \in DOMAIN m_rdmaMem : m_rdmaMem[k].size \in Nat /\ ~(m_rdmaMem[k].size >= size)
    BY <1>1, <1>3, ListFacts DEF fits
  <2>3. \A k \in DOMAIN m_rdmaMem : m_rdmaMem[k].size < size
    BY <1>2, <2>2
  <2> QED
    BY <2>1, <2>3
<1>4. CASE fitting # {}
  <2> DEFINE k == CHOOSE i \in fitting : \A j \in fitting : i <= j
             r == [offset |-> m_rdmaMem[k].offset, size |-> size]
  <2>1. k \in fitting
    <3>1. fitting \subseteq Nat
      BY <1>1, ListFacts
    <3> HIDE DEF fitting
    <3> QED
      BY <1>4, <3>1, FirstExists
  <2>2. /\ m_rdmaMem' = SubSeq(m_rdmaMem, 1, k - 1) \o rest(m_rdmaMem[k], size)
                            \o SubSeq(m_rdmaMem, k + 1, Len(m_rdmaMem))
        /\ m_usedRdmaMem' = m_usedRdmaMem \cup {r}
        /\ result' = "ok" /\ UNCHANGED lost
    BY <1>4 DEF internalAlloc
  <2> HIDE DEF k
  <2>3. k \in DOMAIN m_rdmaMem /\ size <= m_rdmaMem[k].size
    BY <1>1, <1>2, <2>1, ListFacts DEF fits
  <2>4. /\ r \in Regions /\ bytes(r) \subseteq BytesOf(m_rdmaMem)
        /\ m_rdmaMem' \in Seq(Regions) /\ Coalesced(m_rdmaMem')
        /\ BytesOf(m_rdmaMem') = BytesOf(m_rdmaMem) \ bytes(r)
    BY <1>1, <1>2, <2>2, <2>3, FrontIsTaken
  <2>5. r.size = size
    OBVIOUS
  <2> HIDE DEF r
  <2> QED
    BY <1>1, <2>2, <2>4, <2>5
<1> QED
  BY <1>3, <1>4

\* A call of internalFree puts the region back, or loses it.
LEMMA FreeStep ==
    ASSUME IInv, NEW r \in m_usedRdmaMem, internalFree(r)
    PROVE  /\ m_usedRdmaMem' = m_usedRdmaMem \ {r}
           /\ \/ /\ m_rdmaMem' \in Seq(Regions) /\ Coalesced(m_rdmaMem')
                 /\ BytesOf(m_rdmaMem') = freeBytes \cup bytes(r)
                 /\ result' = "ok" /\ UNCHANGED lost
              \/ /\ lost' = lost \cup {r} /\ result' = "thrown" /\ UNCHANGED m_rdmaMem
<1> DEFINE places == {k \in DOMAIN m_rdmaMem : insertable(k, r.offset)}
<1>1. /\ m_rdmaMem \in Seq(Regions) /\ Coalesced(m_rdmaMem)
      /\ BytesOf(m_rdmaMem) = freeBytes /\ BytesOf(m_rdmaMem) \subseteq Memory
  BY DEF IInv, TypeOK, FreeListCoalesced, Coalesced, End, Complete, freeBytes, BytesOf
<1>2. r \in Regions /\ bytes(r) \subseteq Memory /\ BytesOf(m_rdmaMem) \cap bytes(r) = {}
  BY <1>1 DEF IInv, TypeOK, Complete, Apart
<1>3. m_usedRdmaMem' = m_usedRdmaMem \ {r}
  BY DEF internalFree
<1>4. CASE m_rdmaMem = <<>>
  <2>1. m_rdmaMem' = <<r>> /\ result' = "ok" /\ UNCHANGED lost
    BY <1>4 DEF internalFree
  <2>2. <<r>> \in Seq(Regions) /\ DOMAIN <<r>> = {1} /\ <<r>>[1] = r
    BY <1>2
  <2>3. Coalesced(<<r>>) /\ BytesOf(<<r>>) = bytes(r)
    BY <2>2 DEF Coalesced, BytesOf
  <2>4. freeBytes = {}
    BY <1>4 DEF freeBytes
  <2> QED
    BY <1>3, <2>1, <2>2, <2>3, <2>4
<1>5. CASE m_rdmaMem # <<>> /\ places # {}
  <2> DEFINE k == CHOOSE i \in places : \A j \in places : i <= j
             list == InsertAt(m_rdmaMem, k, r)
  <2>1. k \in places
    <3>1. places \subseteq Nat
      BY <1>1, ListFacts
    <3> HIDE DEF places
    <3> QED
      BY <1>5, <3>1, FirstExists
  <2>2. m_rdmaMem' = mergeFreeMem(list, k) /\ result' = "ok" /\ UNCHANGED lost
    BY <1>5 DEF internalFree
  <2> HIDE DEF k
  <2>3. k \in 1 .. Len(m_rdmaMem) /\ insertable(k, r.offset)
    BY <1>1, <2>1, ListFacts
  <2>4. (k > 1 => m_rdmaMem[k - 1].offset <= r.offset) /\ r.offset < m_rdmaMem[k].offset
    <3>1. lastOffset[k] \in Nat /\ (k > 1 => m_rdmaMem[k - 1].offset <= lastOffset[k])
      BY <1>1, <2>3, ListFacts, LastOffsetBounds
    <3>2. lastOffset[k] <= r.offset /\ r.offset < m_rdmaMem[k].offset
      BY <2>3 DEF insertable
    <3>3. k > 1 => m_rdmaMem[k - 1].offset \in Nat
      BY <1>1, <2>3, ListFacts
    <3>4. r.offset \in Nat
      BY <1>2, RegionIsInterval
    <3> QED
      BY <3>1, <3>2, <3>3, <3>4
  <2>5. /\ \A i, j \in DOMAIN list :
              i < j => /\ End(list[i]) <= list[j].offset
                       /\ (i = k - 1 /\ j = k) \/ (i = k /\ j = k + 1) \/ End(list[i]) < list[j].offset
        /\ BytesOf(list) = BytesOf(m_rdmaMem) \cup bytes(r)
    BY <1>1, <1>2, <2>3, <2>4, RegionIsInserted
  <2>6. list \in Seq(Regions) /\ Len(list) = Len(m_rdmaMem) + 1
    BY <1>1, <1>2, <2>3, EntryInserted
  <2> HIDE DEF list
  <2>7. k \in 1 .. Len(list) /\ BytesOf(list) \subseteq Memory
    BY <1>1, <1>2, <2>3, <2>5, <2>6, LenProperties
  <2>8. /\ mergeFreeMem(list, k) \in Seq(Regions) /\ Coalesced(mergeFreeMem(list, k))
        /\ BytesOf(mergeFreeMem(list, k)) = BytesOf(list)
    BY <2>5, <2>6, <2>7, NeighboursAreJoined
  <2> QED
    BY <1>1, <1>3, <2>2, <2>5, <2>8
<1>6. CASE m_rdmaMem # <<>> /\ places = {}
  BY <1>3, <1>6 DEF internalFree
<1> QED
  BY <1>4, <1>5, <1>6

-----------------------------------------------------------------------------
(***************************************************************************)
(* The allocator: the invariant                                            *)
(***************************************************************************)
LEMMA InitIsComplete == Init => IInv
<1> SUFFICES ASSUME Init PROVE IInv
  OBVIOUS
<1> DEFINE r == [offset |-> 0, size |-> MemSize]
<1>1. r \in Regions /\ bytes(r) = Memory
  <2>1. r \in Regions
    BY MemAssumption, IntervalIsRegion
  <2>2. r.offset = 0 /\ r.size = MemSize
    OBVIOUS
  <2> QED
    BY <2>1, <2>2, MemAssumption DEF bytes, Memory
<1>2. m_rdmaMem = <<r>> /\ m_usedRdmaMem = {} /\ lost = {} /\ result = "none"
  BY DEF Init
<1> HIDE DEF r
<1>3. m_rdmaMem \in Seq(Regions) /\ DOMAIN m_rdmaMem = {1} /\ m_rdmaMem[1] = r
  BY <1>1, <1>2
<1>4. freeBytes = Memory
  BY <1>1, <1>3 DEF freeBytes
<1> QED
  BY <1>2, <1>3, <1>4 DEF IInv, TypeOK, FreeListCoalesced, Apart, Complete

\* A call of internalAlloc keeps the invariant.
LEMMA AllocKeepsInv ==
    ASSUME IInv, NEW size \in Sizes, internalAlloc(size)
    PROVE  IInv'
<1>1. /\ m_usedRdmaMem \subseteq Regions /\ lost \subseteq Regions /\ m_rdmaMem \in Seq(Regions)
      /\ FreeListCoalesced /\ Apart /\ Complete /\ result \in {"none", "ok", "null", "thrown"}
  BY DEF IInv, TypeOK
<1>2. freeBytes' = BytesOf(m_rdmaMem') /\ freeBytes = BytesOf(m_rdmaMem)
  BY DEF freeBytes, BytesOf
<1>3. CASE result' = "null" /\ UNCHANGED <<m_rdmaMem, m_usedRdmaMem, lost>>
  BY <1>1, <1>3 DEF IInv, TypeOK, FreeListCoalesced, Apart, Complete, freeBytes
<1>4. CASE /\ m_rdmaMem' \in Seq(Regions) /\ Coalesced(m_rdmaMem')
           /\ \E r \in Regions :
                 /\ r.size = size /\ bytes(r) \subseteq freeBytes
                 /\ BytesOf(m_rdmaMem') = freeBytes \ bytes(r)
                 /\ m_usedRdmaMem' = m_usedRdmaMem \cup {r}
           /\ result' = "ok" /\ UNCHANGED lost
  <2>1. PICK r \in Regions : /\ bytes(r) \subseteq freeBytes /\ freeBytes' = freeBytes \ bytes(r)
                             /\ m_usedRdmaMem' = m_usedRdmaMem \cup {r}
    BY <1>2, <1>4
  <2>2. TypeOK'
    BY <1>1, <1>4, <2>1 DEF TypeOK
  <2>3. FreeListCoalesced'
    BY <1>4 DEF FreeListCoalesced, Coalesced, End
  <2>4. Apart'
    <3>1. \A s \in m_usedRdmaMem \cup lost : Disjoint(s, r) /\ Disjoint(r, s)
      BY <1>1, <2>1 DEF Apart, Disjoint
    <3>2. \A s \in m_usedRdmaMem \cup lost : freeBytes' \cap bytes(s) = {}
      BY <1>1, <2>1 DEF Apart
    <3> QED
      BY <1>1, <1>4, <2>1, <3>1, <3>2 DEF Apart
  <2>5. Complete'
    BY <1>1, <1>4, <2>1 DEF Complete
  <2> QED
    BY <2>2, <2>3, <2>4, <2>5 DEF IInv
<1> QED
  BY <1>3, <1>4, AllocStep

\* A call of internalFree keeps it, also when it throws.
LEMMA FreeKeepsInv ==
    ASSUME IInv, NEW r \in m_usedRdmaMem, internalFree(r)
    PROVE  IInv'
<1>1. /\ m_usedRdmaMem \subseteq Regions /\ lost \subseteq Regions /\ m_rdmaMem \in Seq(Regions)
      /\ FreeListCoalesced /\ Apart /\ Complete /\ result \in {"none", "ok", "null", "thrown"}
  BY DEF IInv, TypeOK
<1>2. freeBytes' = BytesOf(m_rdmaMem') /\ freeBytes = BytesOf(m_rdmaMem)
  BY DEF freeBytes, BytesOf
<1>3. m_usedRdmaMem' = m_usedRdmaMem \ {r}
  BY FreeStep
<1>4. /\ \A s \in m_usedRdmaMem \ {r} : Disjoint(s, r) /\ Disjoint(r, s)
      /\ \A s \in lost : Disjoint(s, r) /\ Disjoint(r, s)
      /\ freeBytes \cap bytes(r) = {}
  BY <1>1 DEF Apart, Disjoint
<1>5. CASE /\ m_rdmaMem' \in Seq(Regions) /\ Coalesced(m_rdmaMem')
           /\ BytesOf(m_rdmaMem') = freeBytes \cup bytes(r)
           /\ result' = "ok" /\ UNCHANGED lost
  <2>1. TypeOK'
    BY <1>1, <1>3, <1>5 DEF TypeOK
  <2>2. FreeListCoalesced'
    BY <1>5 DEF FreeListCoalesced, Coalesced, End
  <2>3. Apart'
    <3>1. \A s \in m_usedRdmaMem' \cup lost' : freeBytes' \cap bytes(s) = {}
      BY <1>1, <1>2, <1>3, <1>4, <1>5 DEF Apart, Disjoint
    <3> QED
      BY <1>1, <1>3, <1>5, <3>1 DEF Apart
  <2>4. Complete'
    BY <1>1, <1>2, <1>3, <1>5 DEF Complete
  <2> QED
    BY <2>1, <2>2, <2>3, <2>4 DEF IInv
<1>6. CASE lost' = lost \cup {r} /\ result' = "thrown" /\ UNCHANGED m_rdmaMem
  <2>1. TypeOK'
    BY <1>1, <1>3, <1>6 DEF TypeOK
  <2>2. FreeListCoalesced' /\ freeBytes' = freeBytes
    BY <1>1, <1>2, <1>6 DEF FreeListCoalesced
  <2>3. Apart'
    <3>1. \A s, q \in lost' : s = q \/ Disjoint(s, q)
      BY <1>1, <1>4, <1>6 DEF Apart
    <3>2. \A s \in m_usedRdmaMem', q \in lost' : Disjoint(s, q)
      BY <1>1, <1>3, <1>4, <1>6 DEF Apart
    <3>3. \A s \in m_usedRdmaMem' \cup lost' : freeBytes' \cap bytes(s) = {}
      BY <1>1, <1>3, <1>6, <2>2 DEF Apart
    <3> QED
      BY <1>1, <1>3, <3>1, <3>2, <3>3 DEF Apart
  <2>4. Complete'
    <3>1. m_usedRdmaMem' \cup lost' = m_usedRdmaMem \cup lost
      BY <1>3, <1>6
    <3> QED
      BY <1>1, <2>2, <3>1 DEF Complete
  <2> QED
    BY <2>1, <2>2, <2>3, <2>4 DEF IInv
<1> QED
  BY <1>5, <1>6, FreeStep

\* The invariant is inductive.
THEOREM AllocatorInvariantHolds == Spec => []IInv
<1>1. Init => IInv
  BY InitIsComplete
<1>2. IInv /\ [Next]_vars => IInv'
  <2> SUFFICES ASSUME IInv, [Next]_vars PROVE IInv'
    OBVIOUS
  <2>1. ASSUME NEW size \in Sizes, internalAlloc(size) PROVE IInv'
    BY <2>1, AllocKeepsInv
  <2>2. ASSUME NEW r \in m_usedRdmaMem, internalFree(r) PROVE IInv'
    BY <2>2, FreeKeepsInv
  <2>3. CASE UNCHANGED vars
    BY <2>3 DEF vars, IInv, TypeOK, FreeListCoalesced, Apart, Complete, freeBytes
  <2> QED
    BY <2>1, <2>2, <2>3 DEF Next
<1> QED
  BY <1>1, <1>2, PTL DEF Spec

-----------------------------------------------------------------------------
(***************************************************************************)
(* The allocator: what the calls keep                                      *)
(***************************************************************************)
\* A set of which any two elements are the same has one element or none.
LEMMA AtMostOne ==
    ASSUME NEW S, \A x, y \in S : x = y
    PROVE  Cardinality(S) = IF S = {} THEN 0 ELSE 1
<1>1. CASE S = {}
  BY <1>1, FS_EmptySet
<1>2. CASE S # {}
  <2>1. PICK x : S = {x}
    BY <1>2
  <2> QED
    BY <1>2, <2>1, FS_Singleton
<1> QED
  BY <1>1, <1>2

\* Every byte is in one region, of one of the three kinds.
LEMMA InvByteOnce == IInv => EveryByteOnce
<1> SUFFICES ASSUME IInv, NEW b \in 0 .. MemSize - 1
             PROVE  Cardinality({k \in DOMAIN m_rdmaMem : b \in bytes(m_rdmaMem[k])})
                    + Cardinality({r \in m_usedRdmaMem : b \in bytes(r)})
                    + Cardinality({r \in lost : b \in bytes(r)}) = 1
  BY DEF EveryByteOnce
<1> DEFINE F == {k \in DOMAIN m_rdmaMem : b \in bytes(m_rdmaMem[k])}
           U == {r \in m_usedRdmaMem : b \in bytes(r)}
           X == {r \in lost : b \in bytes(r)}
<1>1. m_rdmaMem \in Seq(Regions) /\ FreeListCoalesced /\ Apart /\ Complete
  BY DEF IInv, TypeOK
<1>2. \A j, k \in F : j = k
  <2>1. ASSUME NEW j \in F, NEW k \in F, j < k PROVE FALSE
    <3>1. End(m_rdmaMem[j]) < m_rdmaMem[k].offset
      BY <1>1, <2>1 DEF FreeListCoalesced, End
    <3>2. /\ b \in Int /\ b < End(m_rdmaMem[j]) /\ m_rdmaMem[k].offset <= b
          /\ End(m_rdmaMem[j]) \in Nat /\ m_rdmaMem[k].offset \in Nat
      BY <1>1, ListFacts
    <3> QED
      BY <3>1, <3>2
  <2>2. \A j \in F : j \in Nat
    BY <1>1, ListFacts
  <2> HIDE DEF F
  <2> QED
    BY <2>1, <2>2
<1>3. (\A r, s \in U : r = s) /\ (\A r, s \in X : r = s)
  BY <1>1 DEF Apart, Disjoint
<1>4. (F = {} \/ U = {}) /\ (F = {} \/ X = {}) /\ (U = {} \/ X = {})
  BY <1>1 DEF Apart, Disjoint, freeBytes
<1>5. ~(F = {} /\ U = {} /\ X = {})
  BY <1>1 DEF Complete, freeBytes, Memory
<1> HIDE DEF F, U, X
<1>6. /\ Cardinality(F) = IF F = {} THEN 0 ELSE 1
      /\ Cardinality(U) = IF U = {} THEN 0 ELSE 1
      /\ Cardinality(X) = IF X = {} THEN 0 ELSE 1
  BY <1>2, <1>3, AtMostOne
<1>7. Cardinality(F) + Cardinality(U) + Cardinality(X) = 1
  BY <1>4, <1>5, <1>6
<1> QED
  BY <1>7 DEF F, U, X

\* Whatever is asked for and released in whatever order: the free list stays sorted and joined,
\* and every byte is in one region that is free, in use or lost (internalAlloc, internalFree,
\* mergeFreeMem).
THEOREM AllocatorInvHolds == Spec => []AllocatorInv
<1>1. IInv => AllocatorInv
  BY InvByteOnce DEF IInv, AllocatorInv
<1> QED
  BY <1>1, AllocatorInvariantHolds, PTL

-----------------------------------------------------------------------------
(***************************************************************************)
(* The allocator: the refinement                                           *)
(***************************************************************************)
\* A run of free bytes lies in one free region: the byte behind a region is not free.
LEMMA RunIsInOneRegion ==
    ASSUME IInv, NEW r \in Regions, bytes(r) \subseteq freeBytes
    PROVE  \E k \in DOMAIN m_rdmaMem : r.size <= m_rdmaMem[k].size
<1>1. /\ m_rdmaMem \in Seq(Regions)
      /\ \A i, j \in DOMAIN m_rdmaMem : i < j => End(m_rdmaMem[i]) < m_rdmaMem[j].offset
  BY DEF IInv, TypeOK, FreeListCoalesced, End
<1>2. /\ DOMAIN m_rdmaMem \subseteq Nat
      /\ \A k \in DOMAIN m_rdmaMem :
            /\ m_rdmaMem[k].offset \in Nat /\ m_rdmaMem[k].size \in Nat /\ End(m_rdmaMem[k]) \in Nat
            /\ End(m_rdmaMem[k]) = m_rdmaMem[k].offset + m_rdmaMem[k].size
            /\ \A b : b \in bytes(m_rdmaMem[k]) <=>
                          b \in Int /\ m_rdmaMem[k].offset <= b /\ b < End(m_rdmaMem[k])
  BY <1>1, ListFacts DEF End
<1>3. /\ r.offset \in Nat /\ r.size \in Nat /\ End(r) = r.offset + r.size
      /\ \A b : b \in bytes(r) <=> b \in Int /\ r.offset <= b /\ b < End(r)
      /\ r.offset \in bytes(r)
  BY RegionIsInterval DEF End
<1>4. \A b \in bytes(r) : \E k \in DOMAIN m_rdmaMem : b \in bytes(m_rdmaMem[k])
  BY DEF freeBytes
<1>5. PICK k \in DOMAIN m_rdmaMem : r.offset \in bytes(m_rdmaMem[k])
  BY <1>3, <1>4
<1> DEFINE e == End(m_rdmaMem[k])
<1>6. End(r) <= e
  <2>1. SUFFICES ASSUME e < End(r) PROVE FALSE
    BY <1>2, <1>3
  <2>2. e \in bytes(r)
    BY <1>2, <1>3, <1>5, <2>1
  <2>3. PICK j \in DOMAIN m_rdmaMem : e \in bytes(m_rdmaMem[j])
    BY <1>4, <2>2
  <2>4. m_rdmaMem[j].offset <= e /\ e < End(m_rdmaMem[j])
    BY <1>2, <2>3
  <2>5. CASE j < k
    <3>1. End(m_rdmaMem[j]) < m_rdmaMem[k].offset
      BY <1>1, <2>5
    <3>2. m_rdmaMem[k].offset <= e
      BY <1>2, <1>5
    <3> QED
      BY <1>2, <2>4, <3>1, <3>2
  <2>6. CASE k < j
    <3>1. e < m_rdmaMem[j].offset
      BY <1>1, <2>6
    <3> QED
      BY <1>2, <2>4, <3>1
  <2>7. CASE j = k
    BY <1>2, <2>4, <2>7
  <2>8. j \in Nat /\ k \in Nat
    BY <1>2
  <2> QED
    BY <2>5, <2>6, <2>7, <2>8
<1>7. m_rdmaMem[k].offset <= r.offset
  BY <1>2, <1>5
<1> QED
  BY <1>2, <1>3, <1>6, <1>7

\* Every call is one of the abstract allocator: a request is refused only when there is no run
\* of free bytes that is long enough, and otherwise gets one.
LEMMA StepRefines == IInv /\ [Next]_vars => [Abstract!Next]_<<freeBytes, m_usedRdmaMem, result>>
<1> SUFFICES ASSUME IInv, [Next]_vars
             PROVE  [Abstract!Next]_<<freeBytes, m_usedRdmaMem, result>>
  OBVIOUS
<1>1. freeBytes' = BytesOf(m_rdmaMem') /\ freeBytes = BytesOf(m_rdmaMem)
  BY DEF freeBytes, BytesOf
<1>2. ASSUME NEW size \in Sizes, internalAlloc(size) PROVE Abstract!Alloc(size)
  <2>1. CASE /\ \A k \in DOMAIN m_rdmaMem : m_rdmaMem[k].size < size
             /\ result' = "null" /\ UNCHANGED <<m_rdmaMem, m_usedRdmaMem, lost>>
    <3>1. Abstract!Runs(size) = {}
      <4>1. ASSUME NEW r \in Abstract!Runs(size) PROVE FALSE
        <5>1. PICK o \in 0 .. MemSize - 1, s \in Sizes : r = [offset |-> o, size |-> s]
          BY DEF Abstract!Runs, Abstract!Regions
        <5>2. r.size = size /\ bytes(r) \subseteq freeBytes /\ r.offset = o /\ s = size
          BY <5>1 DEF Abstract!Runs, Abstract!bytes, bytes
        <5>3. o \in Nat /\ size \in Nat /\ size >= 1
          BY MemAssumption
        <5>4. r \in Regions
          <6>1. o + size - 1 \in bytes(r)
            BY <5>2, <5>3 DEF bytes
          <6>2. o + size - 1 \in Memory
            BY <5>2, <6>1 DEF IInv, Complete
          <6>3. o + size <= MemSize
            BY <5>3, <6>2, MemAssumption DEF Memory
          <6> QED
            BY <5>1, <5>2, <5>3, <6>3, IntervalIsRegion
        <5>5. PICK k \in DOMAIN m_rdmaMem : r.size <= m_rdmaMem[k].size
          BY <5>2, <5>4, RunIsInOneRegion
        <5>6. m_rdmaMem[k].size \in Nat
          BY ListFacts DEF IInv, TypeOK
        <5> QED
          BY <2>1, <5>2, <5>3, <5>5, <5>6
      <4> QED
        BY <4>1
    <3> QED
      BY <2>1, <3>1 DEF Abstract!Alloc, freeBytes
  <2>2. CASE /\ \E r \in Regions :
                   /\ r.size = size /\ bytes(r) \subseteq freeBytes
                   /\ BytesOf(m_rdmaMem') = freeBytes \ bytes(r)
                   /\ m_usedRdmaMem' = m_usedRdmaMem \cup {r}
             /\ result' = "ok"
    <3>1. PICK r \in Regions : /\ r.size = size /\ bytes(r) \subseteq freeBytes
                               /\ freeBytes' = freeBytes \ bytes(r)
                               /\ m_usedRdmaMem' = m_usedRdmaMem \cup {r}
      BY <1>1, <2>2
    <3>2. r = [offset |-> r.offset, size |-> size] /\ r.offset \in 0 .. MemSize - 1
      BY <3>1 DEF Regions
    <3>3. r \in Abstract!Runs(size) /\ Abstract!bytes(r) = bytes(r)
      BY <3>1, <3>2 DEF Abstract!Runs, Abstract!Regions, Abstract!bytes, bytes
    <3> QED
      BY <2>2, <3>1, <3>3 DEF Abstract!Alloc
  <2> QED
    BY <1>2, <2>1, <2>2, AllocStep
<1>3. ASSUME NEW r \in m_usedRdmaMem, internalFree(r) PROVE Abstract!Release(r)
  <2>1. m_usedRdmaMem' = m_usedRdmaMem \ {r} /\ Abstract!bytes(r) = bytes(r)
    BY <1>3, FreeStep DEF Abstract!bytes, bytes
  <2>2. \/ freeBytes' = freeBytes \cup bytes(r) /\ result' = "ok"
        \/ freeBytes' = freeBytes /\ result' = "thrown"
    BY <1>1, <1>3, FreeStep
  <2> QED
    BY <2>1, <2>2 DEF Abstract!Release
<1>4. CASE UNCHANGED vars
  BY <1>4 DEF vars, freeBytes
<1> QED
  BY <1>2, <1>3, <1>4 DEF Next, Abstract!Next

\* The allocator implements AbstractAllocator.
THEOREM AllocatorRefines == Spec => AbstractSpec
<1>1. Init => Abstract!Init
  <2> SUFFICES ASSUME Init PROVE Abstract!Init
    OBVIOUS
  <2>1. IInv /\ m_usedRdmaMem = {} /\ lost = {} /\ result = "none"
    BY InitIsComplete DEF Init
  <2>2. freeBytes = 0 .. MemSize - 1
    BY <2>1 DEF IInv, Complete, Memory
  <2> QED
    BY <2>1, <2>2 DEF Abstract!Init
<1>2. IInv /\ [Next]_vars => [Abstract!Next]_<<freeBytes, m_usedRdmaMem, result>>
  BY StepRefines
<1> QED
  BY <1>1, <1>2, AllocatorInvariantHolds, PTL DEF Spec, AbstractSpec, Abstract!Spec
-----------------------------------------------------------------------------
(***************************************************************************)
(* The verbs objects: the inductive invariant.  Where two states of them   *)
(* are compared, u and v stand for the value of uses, what each object is  *)
(* made of.                                                                *)
(***************************************************************************)
\* Of the objects only those of S are made of x.
Only(u, x, S) == \A o \in DOMAIN u : x \in u[o] => o \in S

Base == {m_res.ib_ctx, m_res.buffer, m_res.pd, m_res.mr}
SrqQueues == {m_srqs[s].recv_cq : s \in DOMAIN m_srqs}
EntryQps == {m_qps[k].qp : k \in DOMAIN m_qps}
Used == {k \in DOMAIN m_qps : m_qps[k] # NoQp}
ActiveKeys == {k \in DOMAIN m_udpMcastConns : m_udpMcastConns[k].active}
InTodo == {todo[p].object : p \in DOMAIN todo}

\* What a member names, other than an object of the base.
Named(o) ==
    \/ o \in PointersOf(qp) \cup PointersOf(m_udqp) \cup SrqQueues
    \/ \E k \in DOMAIN m_qps : o \in PointersOf(m_qps[k])
    \/ \E s \in DOMAIN m_srqs : o = m_srqs[s].shared_rq
    \/ \E k \in ActiveKeys : o \in ObjectsOfGroup(m_udpMcastConns[k])

\* None of the faults after which a destructor may end the program.
NothingLost == Range(faults) \cap {"leave", "queue pair of an srq", "self"} = {}

\* Which types of objects are made of which.
MadeOf ==
    {<<"pd", "ib_ctx">>, <<"cq", "ib_ctx">>, <<"mr", "pd">>, <<"mr", "buffer">>, <<"qp", "pd">>,
     <<"qp", "cq">>, <<"qp", "srq">>, <<"qp", "id">>, <<"srq", "pd">>, <<"ah", "pd">>,
     <<"id", "channel">>, <<"membership", "qp">>}

\* The numbers that are still to come have not been used.
Numbered(u, m) ==
    \A o \in DOMAIN u : o.no <= m /\ \A x \in u[o] : x.no <= m /\ <<o.type, x.type>> \in MadeOf

BaseOK ==
    /\ m_res.ib_ctx.type \in {"ib_ctx", "null"}
    /\ phase \in {"base", "running"} =>
        /\ Base \subseteq Alive /\ Only(uses, m_res.mr, {})
        /\ m_res.ib_ctx.type = "ib_ctx" /\ m_res.buffer.type = "buffer"
        /\ m_res.pd.type = "pd" /\ m_res.mr.type = "mr"

\* A queue pair has its completion queues to itself, except for a receive queue of Q.
PairOK(u, Q, q) ==
    /\ PointersOf(q) \subseteq DOMAIN u
    /\ q.qp.type = "qp" /\ q.send_cq.type = "cq" /\ q.recv_cq.type = "cq"
    /\ q.send_cq # q.recv_cq /\ q.send_cq \in u[q.qp] /\ q.recv_cq \in u[q.qp]
    /\ \A x \in u[q.qp] : x.type = "cq" => x \in {q.send_cq, q.recv_cq}
    /\ Only(u, q.qp, {}) /\ Only(u, q.send_cq, {q.qp})
    /\ q.send_cq \notin Q
    /\ q.recv_cq \in Q \/ Only(u, q.recv_cq, {q.qp})

\* A group has all its objects to itself.
GroupOK(u, g) ==
    /\ ObjectsOfGroup(g) \subseteq DOMAIN u
    /\ g.channel.type = "channel" /\ g.id.type = "id" /\ g.pd.type = "pd" /\ g.mr.type = "mr"
    /\ g.scq.type = "cq" /\ g.rcq.type = "cq" /\ g.qp.type = "qp"
    /\ g.membership.type = "membership" /\ g.ah.type = "ah" /\ g.scq # g.rcq
    /\ Only(u, g.membership, {}) /\ Only(u, g.ah, {}) /\ Only(u, g.qp, {g.membership})
    /\ Only(u, g.scq, {g.qp}) /\ Only(u, g.rcq, {g.qp}) /\ Only(u, g.mr, {})
    /\ Only(u, g.pd, {g.mr, g.qp}) /\ Only(u, g.id, {g.qp}) /\ Only(u, g.channel, {g.id})

\* Before the object is made there is nothing.
Early ==
    phase \in {"unmade", "base"} =>
        /\ todo = << >> /\ m_qps = << >> /\ m_srqs = << >> /\ m_udqp = NoQp /\ qp = NoQp
        /\ m_udpMcastConns = << >> /\ faults = << >> /\ m_connected = {}
        /\ phase = "unmade" => Alive = {}
        /\ phase = "base" => transport = "ud"

Ended == phase \in {"gone", "terminated", "crashed", "dangling"} => todo = << >>

ReliableOK ==
    transport = "rc" =>
        /\ m_udpMcastConns = << >> /\ m_udqp = NoQp
        /\ phase = "running" =>
            /\ \A k \in Used : PairOK(uses, SrqQueues, m_qps[k])
            /\ \A j, k \in Used : j # k => m_qps[j].qp # m_qps[k].qp
            /\ qp # NoQp => /\ PairOK(uses, SrqQueues, qp) /\ qp.recv_cq \notin SrqQueues
                            /\ \A k \in Used : m_qps[k].qp # qp.qp

SrqsOK ==
    transport = "rc" /\ phase = "running" =>
        /\ \A s \in DOMAIN m_srqs :
             /\ m_srqs[s].shared_rq \in Alive /\ m_srqs[s].shared_rq.type = "srq"
             /\ m_srqs[s].recv_cq \in Alive /\ m_srqs[s].recv_cq.type = "cq"
             /\ NothingLost => /\ Only(uses, m_srqs[s].shared_rq, EntryQps)
                               /\ Only(uses, m_srqs[s].recv_cq, EntryQps)
        /\ \A s, t \in DOMAIN m_srqs : s # t => m_srqs[s].shared_rq # m_srqs[t].shared_rq

UnreliableOK ==
    transport = "ud" =>
        /\ m_srqs = << >>
        /\ phase = "running" =>
            /\ m_udqp # NoQp /\ PairOK(uses, {}, m_udqp)
            /\ \A k \in DOMAIN m_qps : m_qps[k] \in {NoQp, m_udqp}
            /\ qp \in {NoQp, m_udqp}
            /\ \A k \in ActiveKeys :
                 /\ GroupOK(uses, m_udpMcastConns[k])
                 /\ ObjectsOfGroup(m_udpMcastConns[k]) \cap (Base \cup PointersOf(m_udqp)) = {}
            /\ \A j, k \in ActiveKeys :
                 j # k => ObjectsOfGroup(m_udpMcastConns[j]) \cap ObjectsOfGroup(m_udpMcastConns[k]) = {}

ConnectedOK == \A id \in m_connected : id + 1 \in Used

\* The calls that destroy, or end what is going on: not those that may leave their object.
Firm(res) == {c \in Calls : c.busy # "log" /\ c # Call(res.pd, "ignore") /\ c # Call(res.ib_ctx, "force")}
Throws == {c \in Calls : c.busy = "throw"}

\* Before an object is destroyed by a call of C all that are made of it are.
UsersFirst(cs, u, C) ==
    \A p \in DOMAIN cs : cs[p] \in C =>
        \A o \in DOMAIN u : cs[p].object \in u[o] =>
            \E b \in DOMAIN cs : b < p /\ cs[b] \in C /\ cs[b].object = o

\* Between two calls for the same object there is one for an object that is made of it.
UsedBetween(cs, u) ==
    \A p, r \in DOMAIN cs : p < r /\ cs[p].object = cs[r].object /\ cs[p].object \in DOMAIN u =>
        /\ cs[p].busy # "force"
        /\ \E b \in DOMAIN cs : /\ p < b /\ b < r /\ cs[b].object \in DOMAIN u
                                /\ cs[p].object \in u[cs[b].object]

\* A queue that may be left because of others is tried again after them.
TriedAgain(cs, u, C) ==
    \A p \in DOMAIN cs : cs[p].busy = "log" =>
        \A o \in DOMAIN u : cs[p].object \in u[o] =>
            \E b \in DOMAIN cs :
                /\ cs[b] \in C /\ cs[b].object = o
                /\ b < p \/ \E r \in DOMAIN cs : p < r /\ cs[r].object = cs[p].object

\* When its turn comes, only address handles that stay are made of the protection domain.
OnlyHandlesLeft(cs, u, res) ==
    \A p \in DOMAIN cs : cs[p].object = res.pd =>
        \A o \in DOMAIN u : res.pd \in u[o] =>
            \/ o.type = "ah" /\ \A b \in DOMAIN cs : cs[b].object # o
            \/ \E b \in DOMAIN cs : b < p /\ cs[b] \in Firm(res) /\ cs[b].object = o

TodoOK ==
    /\ \A p \in DOMAIN todo :
         \/ todo[p].object \in Alive
         \/ todo[p].object = nullptr /\ transport = "ud" /\ phase = "running"
    /\ UsedBetween(todo, uses)
    /\ phase = "running" => \A x \in InTodo : x = nullptr \/ (x \notin Base /\ ~Named(x))
    /\ phase = "destroying" /\ NothingLost => UsersFirst(todo, uses, Throws)
    /\ faults = << >> => UsersFirst(todo, uses, Firm(m_res)) /\ TriedAgain(todo, uses, Firm(m_res))
    /\ phase = "destroying" /\ faults = << >> => OnlyHandlesLeft(todo, uses, m_res)

\* What may be left behind.
Left(o) ==
    \/ o.type \in {"ah", "addrinfo"}
    \/ o = m_res.pd /\ \E ah \in Alive \ InTodo : ah.type = "ah" /\ o \in uses[ah]
    \/ o \in SrqQueues /\ \A k \in DOMAIN m_qps : m_qps[k].recv_cq # o

\* Every object has a member that names it, is to be destroyed, or may be left behind.
Accounted ==
    faults = << >> =>
        /\ phase \in {"base", "running"} =>
             \A o \in Alive : o.type \in {"ah", "addrinfo"} \/ o \in InTodo \/ o \in Base \/ Named(o)
        /\ phase \in {"destroying", "gone"} => \A o \in Alive : o \in InTodo \/ Left(o)

Core ==
    /\ Numbered(uses, made) /\ BaseOK /\ Early /\ Ended /\ ReliableOK /\ SrqsOK /\ UnreliableOK
    /\ ConnectedOK /\ TodoOK /\ Accounted

\* The key of the next group is behind those of all groups.
KeysBounded == Len(m_udpMcastConns) <= m_lastMCastConnKey

QueuePairsInvariant == QueuePairsInv /\ Core /\ KeysBounded

-----------------------------------------------------------------------------
(***************************************************************************)
(* One list of many                                                        *)
(***************************************************************************)
\* The first m of these sequences are in c one behind the other, the k-th behind start[k].
Layout(seqs, m, c, start) ==
    /\ start \in [1 .. m -> Nat]
    /\ \A k \in 1 .. m :
         /\ start[k] + Len(seqs[k]) <= Len(c)
         /\ \A i \in 1 .. Len(seqs[k]) : c[start[k] + i] = seqs[k][i]
    /\ \A j, k \in 1 .. m : j < k => start[j] + Len(seqs[j]) <= start[k]
    /\ \A p \in 1 .. Len(c) : \E k \in 1 .. m : start[k] < p /\ p <= start[k] + Len(seqs[k])

\* One more sequence.
LEMMA LayoutExtends ==
    ASSUME NEW S, NEW seqs \in Seq(Seq(S)), NEW m \in Nat, m + 1 \in DOMAIN seqs,
           NEW c \in Seq(S), NEW start, Layout(seqs, m, c, start)
    PROVE  \E t : Layout(seqs, m + 1, c \o seqs[m + 1], t)
<1> DEFINE e == seqs[m + 1]
           d == c \o e
           t == [k \in 1 .. m + 1 |-> IF k <= m THEN start[k] ELSE Len(c)]
<1>1. /\ e \in Seq(S) /\ Len(e) \in Nat /\ Len(c) \in Nat /\ Len(seqs) \in Nat
      /\ \A k \in 1 .. m : seqs[k] \in Seq(S) /\ Len(seqs[k]) \in Nat
  <2>1. e \in Seq(S)
    BY ElementOfSeq
  <2>2. \A k \in 1 .. m : seqs[k] \in Seq(S)
    BY LenProperties, ElementOfSeq
  <2> QED
    BY <2>1, <2>2, LenProperties
<1>2. /\ d \in Seq(S) /\ Len(d) = Len(c) + Len(e)
      /\ \A i \in 1 .. Len(c) : d[i] = c[i]
      /\ \A i \in 1 .. Len(e) : d[Len(c) + i] = e[i]
  <2>1. d \in Seq(S) /\ Len(d) = Len(c) + Len(e)
    BY <1>1, ConcatProperties
  <2>2. \A i \in 1 .. Len(c) + Len(e) : d[i] = IF i <= Len(c) THEN c[i] ELSE e[i - Len(c)]
    BY <1>1, ConcatProperties
  <2> HIDE DEF d, e
  <2>3. ASSUME NEW i \in 1 .. Len(c) PROVE d[i] = c[i]
    <3>1. i \in 1 .. Len(c) + Len(e) /\ i <= Len(c)
      BY <1>1
    <3> QED
      BY <2>2, <3>1
  <2>4. ASSUME NEW i \in 1 .. Len(e) PROVE d[Len(c) + i] = e[i]
    <3>1. Len(c) + i \in 1 .. Len(c) + Len(e) /\ ~(Len(c) + i <= Len(c)) /\ Len(c) + i - Len(c) = i
      BY <1>1
    <3>2. d[Len(c) + i] = e[Len(c) + i - Len(c)]
      BY <2>2, <3>1
    <3> QED
      BY <3>1, <3>2
  <2> QED
    BY <2>1, <2>3, <2>4
<1>3. /\ t \in [1 .. m + 1 -> Nat]
      /\ \A k \in 1 .. m : t[k] = start[k] /\ start[k] \in Nat
      /\ t[m + 1] = Len(c)
  BY <1>1 DEF Layout
<1> HIDE DEF t, d, e
<1>4. ASSUME NEW k \in 1 .. m + 1
      PROVE  /\ t[k] + Len(seqs[k]) <= Len(d)
             /\ \A i \in 1 .. Len(seqs[k]) : d[t[k] + i] = seqs[k][i]
  <2>1. CASE k \in 1 .. m
    <3>1. start[k] + Len(seqs[k]) <= Len(c) /\ \A i \in 1 .. Len(seqs[k]) : c[start[k] + i] = seqs[k][i]
      BY <2>1 DEF Layout
    <3>2. PICK a \in Nat, b \in Nat, l \in Nat : a = start[k] /\ b = Len(seqs[k]) /\ l = Len(c)
      BY <1>1, <1>3, <2>1
    <3>3. a + b <= l /\ \A i \in 1 .. b : a + i \in 1 .. l
      <4>1. start[k] + Len(seqs[k]) <= Len(c)
        BY <3>1
      <4>2. a + b <= l
        BY ONLY <3>2, <4>1
      <4> QED
        BY ONLY <4>2, a \in Nat, b \in Nat, l \in Nat
    <3>4. t[k] = a /\ Len(d) = l + Len(e) /\ Len(e) \in Nat
      BY <1>1, <1>2, <1>3, <2>1, <3>2
    <3>5. ASSUME NEW i \in 1 .. b PROVE d[a + i] = seqs[k][i]
      <4>1. d[a + i] = c[a + i]
        BY <1>2, <3>2, <3>3
      <4>2. c[a + i] = seqs[k][i]
        BY <3>1, <3>2
      <4> QED
        BY <4>1, <4>2
    <3>6. t[k] + Len(seqs[k]) <= Len(d)
      BY <3>2, <3>3, <3>4, SMTT(30)
    <3> QED
      BY <3>2, <3>4, <3>5, <3>6
  <2>2. CASE k = m + 1
    <3>1. seqs[k] = e /\ t[k] = Len(c)
      BY <1>3, <2>2 DEF e
    <3>2. Len(c) + Len(e) <= Len(d)
      BY <1>1, <1>2
    <3> QED
      BY <1>2, <3>1, <3>2
  <2> QED
    BY <2>1, <2>2, SMTT(30)
<1>5. ASSUME NEW j \in 1 .. m + 1, NEW k \in 1 .. m + 1, j < k
      PROVE  t[j] + Len(seqs[j]) <= t[k]
  <2>1. j \in 1 .. m
    BY <1>5
  <2>2. CASE k \in 1 .. m
    BY <1>3, <1>5, <2>1, <2>2 DEF Layout
  <2>3. CASE k = m + 1
    BY <1>3, <2>1, <2>3 DEF Layout
  <2> QED
    BY <2>2, <2>3
<1>6. ASSUME NEW p \in 1 .. Len(d)
      PROVE  \E k \in 1 .. m + 1 : t[k] < p /\ p <= t[k] + Len(seqs[k])
  <2>1. CASE p <= Len(c)
    <3>1. PICK k \in 1 .. m : start[k] < p /\ p <= start[k] + Len(seqs[k])
      BY <1>1, <2>1 DEF Layout
    <3> QED
      BY <1>3, <3>1, SMTT(30)
  <2>2. CASE Len(c) < p
    BY <1>1, <1>2, <1>3, <2>2 DEF e
  <2> QED
    BY <1>1, <2>1, <2>2
<1>7. Layout(seqs, m + 1, d, t)
  BY <1>3, <1>4, <1>5, <1>6 DEF Layout
<1> QED
  BY <1>7 DEF d, e

\* FlattenSeq, as it is defined by a recursive function.
Flattened(seqs, f) == [i \in 1 .. Len(seqs) |-> IF i = 1 THEN seqs[i] ELSE f[i - 1] \o seqs[i]]

\* There is such a function.
LEMMA FlattenedExists ==
    ASSUME NEW seqs, Len(seqs) \in Nat
    PROVE  \E f : f = Flattened(seqs, f)
<1> DEFINE n == Len(seqs)
           Good(f, m) == \A i \in 1 .. m : f[i] = IF i = 1 THEN seqs[i] ELSE f[i - 1] \o seqs[i]
           Has == {m \in Nat : \E f : Good(f, m)}
           T == Nat \ Has
           R == OpToRel(<, Nat)
<1>1. T = {}
  <2>1. SUFFICES ASSUME T # {} PROVE FALSE
    OBVIOUS
  <2>2. PICK m \in T : \A y \in T : <<y, m>> \notin R
    <3>1. IsWellFoundedOn(R, Nat)
      BY NatLessThanWellFounded
    <3>2. T \subseteq Nat
      OBVIOUS
    <3> HIDE DEF T, R
    <3> QED
      BY <2>1, <3>1, <3>2, WFMin
  <2>3. m \in Nat /\ m \notin Has
    <3> HIDE DEF Has, R
    <3> QED
      BY <2>2
  <2>4. CASE m = 0
    <3>1. Good([i \in {} |-> << >>], 0)
      OBVIOUS
    <3> QED
      BY <2>3, <2>4, <3>1
  <2>5. CASE m # 0
    <3>1. m - 1 \in Nat /\ <<m - 1, m>> \in R
      BY <2>3, <2>5 DEF OpToRel
    <3>2. m - 1 \in Has
      <4> HIDE DEF Has, R
      <4> QED
        BY <2>2, <3>1
    <3>3. PICK g : Good(g, m - 1)
      BY <3>2
    <3> DEFINE f == [i \in 1 .. m |-> IF i < m THEN g[i]
                                      ELSE IF i = 1 THEN seqs[i] ELSE g[i - 1] \o seqs[i]]
    <3>4. \A i \in 1 .. m - 1 : f[i] = g[i]
      BY <2>3
    <3>5. f[m] = IF m = 1 THEN seqs[m] ELSE g[m - 1] \o seqs[m]
      BY <2>3, <2>5
    <3> HIDE DEF f
    <3>6. ASSUME NEW i \in 1 .. m PROVE f[i] = IF i = 1 THEN seqs[i] ELSE f[i - 1] \o seqs[i]
      <4>1. CASE i = 1
        BY <2>3, <3>3, <3>4, <3>5, <4>1
      <4>2. CASE i # 1 /\ i = m
        <5>1. i - 1 \in 1 .. m - 1
          BY <2>3, <4>2
        <5> QED
          BY <3>4, <3>5, <4>2, <5>1
      <4>3. CASE i # 1 /\ i # m
        <5>1. i - 1 \in 1 .. m - 1 /\ i \in 1 .. m - 1
          BY <2>3, <4>3
        <5> QED
          BY <3>3, <3>4, <4>3, <5>1
      <4> QED
        BY <4>1, <4>2, <4>3
    <3>7. Good(f, m)
      BY <3>6
    <3>8. \E h : Good(h, m)
      <4> HIDE DEF Good
      <4> QED
        BY <3>7
    <3> HIDE DEF Good
    <3> QED
      BY <2>3, <3>8
  <2> QED
    BY <2>4, <2>5
<1>2. n \in Has
  <2> HIDE DEF Has, R
  <2> QED
    BY <1>1
<1>3. PICK g : Good(g, n)
  BY <1>2
<1> DEFINE f == [i \in 1 .. n |-> g[i]]
<1>4. \A i \in 1 .. n : f[i] = g[i]
  OBVIOUS
<1>5. ASSUME NEW i \in 1 .. n PROVE f[i] = IF i = 1 THEN seqs[i] ELSE f[i - 1] \o seqs[i]
  <2>1. i # 1 => i - 1 \in 1 .. n
    OBVIOUS
  <2> HIDE DEF f
  <2> QED
    BY <1>3, <1>4, <2>1
<1>6. f = Flattened(seqs, f)
  <2>1. f = [i \in 1 .. n |-> f[i]]
    OBVIOUS
  <2> HIDE DEF f
  <2> QED
    BY <1>5, <2>1 DEF Flattened
<1> QED
  <2> HIDE DEF f
  <2> QED
    BY <1>6

\* FlattenSeq puts the sequences one behind the other.
LEMMA FlattenLayout ==
    ASSUME NEW S, NEW seqs \in Seq(Seq(S))
    PROVE  /\ FlattenSeq(seqs) \in Seq(S)
           /\ \E start : Layout(seqs, Len(seqs), FlattenSeq(seqs), start)
<1> DEFINE n == Len(seqs)
<1>1. n \in Nat /\ DOMAIN seqs = 1 .. n /\ \A k \in 1 .. n : seqs[k] \in Seq(S)
  BY LenProperties, ElementOfSeq
<1>2. CASE n = 0
  <2>1. seqs = << >>
    BY <1>2, EmptySeq
  <2>2. FlattenSeq(seqs) = << >>
    BY <1>2, <2>1 DEF FlattenSeq
  <2>3. << >> \in Seq(S) /\ Len(<< >>) = 0
    OBVIOUS
  <2>4. Layout(seqs, 0, << >>, [k \in 1 .. 0 |-> 0])
    BY <2>3 DEF Layout
  <2> QED
    BY <1>2, <2>2, <2>3, <2>4
<1>3. CASE n # 0
  <2> DEFINE f == CHOOSE g : g = Flattened(seqs, g)
  <2>1. f = Flattened(seqs, f)
    BY <1>1, FlattenedExists
  <2>2. FlattenSeq(seqs) = f[n]
    BY <1>3, Zenon DEF FlattenSeq, Flattened
  <2> HIDE DEF f
  <2>3. \A i \in 1 .. n : f[i] = IF i = 1 THEN seqs[i] ELSE f[i - 1] \o seqs[i]
    BY <2>1 DEF Flattened
  <2> DEFINE Has == {m \in Nat : m = 0 \/ ~(m \in 1 .. n)
                                 \/ (f[m] \in Seq(S) /\ \E start : Layout(seqs, m, f[m], start))}
             T == Nat \ Has
             R == OpToRel(<, Nat)
  <2>4. T = {}
    <3>1. SUFFICES ASSUME T # {} PROVE FALSE
      OBVIOUS
    <3>2. PICK m \in T : \A y \in T : <<y, m>> \notin R
      <4>1. IsWellFoundedOn(R, Nat)
        BY NatLessThanWellFounded
      <4>2. T \subseteq Nat
        OBVIOUS
      <4> HIDE DEF T, R
      <4> QED
        BY <3>1, <4>1, <4>2, WFMin
    <3>3. m \in Nat /\ m \in 1 .. n /\ ~(f[m] \in Seq(S) /\ \E start : Layout(seqs, m, f[m], start))
      <4>1. m \in Nat /\ m \notin Has
        <5> HIDE DEF Has, R
        <5> QED
          BY <3>2
      <4> QED
        BY <4>1
    <3>4. CASE m = 1
      <4>1. << >> \in Seq(S) /\ Len(<< >>) = 0
        OBVIOUS
      <4>2. Layout(seqs, 0, << >>, [k \in 1 .. 0 |-> 0])
        BY <4>1 DEF Layout
      <4>3. 0 + 1 \in DOMAIN seqs
        BY <1>1, <3>3, <3>4
      <4>4. \E t : Layout(seqs, 0 + 1, << >> \o seqs[0 + 1], t)
        BY <4>1, <4>2, <4>3, LayoutExtends
      <4>5. << >> \o seqs[1] = seqs[1] /\ seqs[1] \in Seq(S) /\ f[m] = seqs[1] /\ 0 + 1 = 1
        BY <1>1, <2>3, <3>3, <3>4, ConcatEmptySeq
      <4> QED
        BY <3>3, <3>4, <4>4, <4>5
    <3>5. CASE m # 1
      <4>1. m - 1 \in Nat /\ m - 1 \in 1 .. n /\ m - 1 # 0 /\ <<m - 1, m>> \in R /\ m - 1 + 1 = m
        BY <1>1, <3>3, <3>5 DEF OpToRel
      <4>2. m - 1 \in Has
        <5> HIDE DEF Has, R
        <5> QED
          BY <3>2, <4>1
      <4>3. f[m - 1] \in Seq(S) /\ \E start : Layout(seqs, m - 1, f[m - 1], start)
        BY <4>1, <4>2
      <4>4. f[m] = f[m - 1] \o seqs[m]
        BY <2>3, <3>3, <3>5
      <4>5. PICK start : Layout(seqs, m - 1, f[m - 1], start)
        BY <4>3
      <4>6. m - 1 + 1 \in DOMAIN seqs
        BY <1>1, <3>3, <4>1
      <4> HIDE DEF R, Has, n
      <4>7. \E t : Layout(seqs, m - 1 + 1, f[m - 1] \o seqs[m - 1 + 1], t)
        BY <4>1, <4>3, <4>5, <4>6, LayoutExtends
      <4>8. f[m - 1] \o seqs[m] \in Seq(S)
        BY <1>1, <3>3, <4>3, ConcatProperties
      <4> QED
        BY <3>3, <4>1, <4>4, <4>7, <4>8
    <3> QED
      BY <3>4, <3>5
  <2>5. n \in Has /\ n \in 1 .. n
    <3> HIDE DEF Has, R
    <3> QED
      BY <1>1, <1>3, <2>4
  <2> QED
    BY <1>3, <2>2, <2>5
<1> QED
  BY <1>2, <1>3

-----------------------------------------------------------------------------
(***************************************************************************)
(* The list of the calls still to be made, when its first has been made    *)
(***************************************************************************)
\* Less is there than before.
Shrunk(u, v) == \A o \in DOMAIN v : o \in DOMAIN u /\ v[o] = u[o]

\* A list without its first call.
LEMMA TailOfCalls ==
    ASSUME NEW S, NEW cs \in Seq(S), cs # << >>
    PROVE  /\ Tail(cs) \in Seq(S) /\ 1 \in DOMAIN cs /\ Head(cs) = cs[1] /\ Head(cs) \in S
           /\ \A p \in DOMAIN cs : p \in Nat /\ p >= 1
           /\ \A p \in DOMAIN Tail(cs) : p \in Nat /\ p + 1 \in DOMAIN cs /\ Tail(cs)[p] = cs[p + 1]
           /\ \A p \in DOMAIN cs : p > 1 => p - 1 \in DOMAIN Tail(cs) /\ Tail(cs)[p - 1] = cs[p]
<1>1. /\ Len(cs) \in Nat /\ Len(cs) > 0 /\ DOMAIN cs = 1 .. Len(cs)
      /\ Tail(cs) \in Seq(S) /\ Head(cs) = cs[1]
      /\ DOMAIN Tail(cs) = 1 .. Len(cs) - 1
      /\ \A p \in 1 .. Len(cs) - 1 : Tail(cs)[p] = cs[p + 1]
  BY LenProperties, HeadTailProperties, EmptySeq
<1>2. \A p \in 1 .. Len(cs) : p > 1 => p - 1 \in 1 .. Len(cs) - 1 /\ p - 1 + 1 = p
  BY <1>1
<1>3. \A p \in 1 .. Len(cs) - 1 : p \in Nat /\ p + 1 \in 1 .. Len(cs)
  BY <1>1
<1>4. 1 \in DOMAIN cs /\ cs[1] \in S
  BY <1>1, ElementOfSeq
<1>5. \A p \in DOMAIN cs : p > 1 => p - 1 \in DOMAIN Tail(cs) /\ Tail(cs)[p - 1] = cs[p]
  BY <1>1, <1>2
<1> QED
  BY <1>1, <1>3, <1>4, <1>5

\* Users are first in the rest as well, when the object is gone or its call is none of these.
LEMMA UsersFirstInTail ==
    ASSUME NEW S, NEW cs \in Seq(S), cs # << >>, NEW u, NEW v, NEW C,
           UsersFirst(cs, u, C), Shrunk(u, v), Head(cs).object \notin DOMAIN v \/ Head(cs) \notin C
    PROVE  UsersFirst(Tail(cs), v, C)
<1> SUFFICES ASSUME NEW p \in DOMAIN Tail(cs), Tail(cs)[p] \in C,
                    NEW o \in DOMAIN v, Tail(cs)[p].object \in v[o]
             PROVE  \E b \in DOMAIN Tail(cs) : b < p /\ Tail(cs)[b] \in C /\ Tail(cs)[b].object = o
  BY DEF UsersFirst
<1>1. p \in Nat /\ p + 1 \in DOMAIN cs /\ Tail(cs)[p] = cs[p + 1]
  BY TailOfCalls
<1>2. o \in DOMAIN u /\ Tail(cs)[p].object \in u[o]
  BY DEF Shrunk
<1>3. PICK b \in DOMAIN cs : b < p + 1 /\ cs[b] \in C /\ cs[b].object = o
  BY <1>1, <1>2 DEF UsersFirst
<1>4. b \in Nat /\ b >= 1 /\ Head(cs) = cs[1]
  BY TailOfCalls
<1>5. b > 1
  BY <1>3, <1>4
<1>6. b - 1 \in DOMAIN Tail(cs) /\ Tail(cs)[b - 1] = cs[b] /\ b - 1 < p
  BY <1>1, <1>3, <1>4, <1>5, TailOfCalls
<1> QED
  BY <1>3, <1>6

\* The first object is not destroyed again, when it has been destroyed.
LEMMA NotAgain ==
    ASSUME NEW S, NEW cs \in Seq(S), cs # << >>, NEW u, UsedBetween(cs, u), Head(cs).object \in DOMAIN u,
           Head(cs).busy = "force" \/ \A o \in DOMAIN u : Head(cs).object \notin u[o],
           NEW p \in DOMAIN Tail(cs)
    PROVE  Tail(cs)[p].object # Head(cs).object
<1>1. p \in Nat /\ p + 1 \in DOMAIN cs /\ Tail(cs)[p] = cs[p + 1]
  BY TailOfCalls
<1>2. 1 \in DOMAIN cs /\ Head(cs) = cs[1] /\ 1 < p + 1
  BY <1>1, TailOfCalls
<1> SUFFICES ASSUME cs[1].object = cs[p + 1].object PROVE FALSE
  BY <1>1, <1>2
<1>3. cs[1].busy # "force" /\ \E b \in DOMAIN cs : cs[b].object \in DOMAIN u /\ cs[1].object \in u[cs[b].object]
  BY <1>1, <1>2 DEF UsedBetween
<1> QED
  BY <1>2, <1>3

\* There is a user between two calls for the same object in the rest as well.
LEMMA UsedBetweenInTail ==
    ASSUME NEW S, NEW cs \in Seq(S), cs # << >>, NEW u, NEW v, UsedBetween(cs, u), Shrunk(u, v),
           \A p \in DOMAIN Tail(cs) : Tail(cs)[p].object \in DOMAIN u => Tail(cs)[p].object \in DOMAIN v
    PROVE  UsedBetween(Tail(cs), v)
<1> SUFFICES ASSUME NEW p \in DOMAIN Tail(cs), NEW r \in DOMAIN Tail(cs), p < r,
                    Tail(cs)[p].object = Tail(cs)[r].object, Tail(cs)[p].object \in DOMAIN v
             PROVE  /\ Tail(cs)[p].busy # "force"
                    /\ \E b \in DOMAIN Tail(cs) :
                          /\ p < b /\ b < r /\ Tail(cs)[b].object \in DOMAIN v
                          /\ Tail(cs)[p].object \in v[Tail(cs)[b].object]
  BY DEF UsedBetween
<1>1. /\ p \in Nat /\ p + 1 \in DOMAIN cs /\ Tail(cs)[p] = cs[p + 1]
      /\ r \in Nat /\ r + 1 \in DOMAIN cs /\ Tail(cs)[r] = cs[r + 1]
  BY TailOfCalls
<1>2. cs[p + 1].object \in DOMAIN u
  BY <1>1 DEF Shrunk
<1>3. PICK b \in DOMAIN cs : /\ cs[p + 1].busy # "force" /\ p + 1 < b /\ b < r + 1
                             /\ cs[b].object \in DOMAIN u /\ cs[p + 1].object \in u[cs[b].object]
  <2>1. p + 1 < r + 1
    BY <1>1
  <2> QED
    BY <1>1, <1>2, <2>1 DEF UsedBetween
<1>4. b \in Nat /\ b > 1
  BY <1>1, <1>3, TailOfCalls
<1>5. b - 1 \in DOMAIN Tail(cs) /\ Tail(cs)[b - 1] = cs[b]
  BY <1>4, TailOfCalls
<1>6. p < b - 1 /\ b - 1 < r
  BY <1>1, <1>3, <1>4
<1>7. Tail(cs)[b - 1].object \in DOMAIN v
  BY <1>3, <1>5
<1>8. Tail(cs)[p].object \in v[Tail(cs)[b - 1].object]
  BY <1>1, <1>3, <1>5, <1>7 DEF Shrunk
<1> QED
  BY <1>1, <1>3, <1>5, <1>6, <1>7, <1>8

\* What is left for later is tried again in the rest as well.
LEMMA TriedAgainInTail ==
    ASSUME NEW S, NEW cs \in Seq(S), cs # << >>, NEW u, NEW v, NEW C,
           TriedAgain(cs, u, C), Shrunk(u, v), Head(cs).object \notin DOMAIN v \/ Head(cs) \notin C
    PROVE  TriedAgain(Tail(cs), v, C)
<1> SUFFICES ASSUME NEW p \in DOMAIN Tail(cs), Tail(cs)[p].busy = "log",
                    NEW o \in DOMAIN v, Tail(cs)[p].object \in v[o]
             PROVE  \E b \in DOMAIN Tail(cs) :
                       /\ Tail(cs)[b] \in C /\ Tail(cs)[b].object = o
                       /\ b < p \/ \E r \in DOMAIN Tail(cs) : p < r /\ Tail(cs)[r].object = Tail(cs)[p].object
  BY DEF TriedAgain
<1>1. p \in Nat /\ p + 1 \in DOMAIN cs /\ Tail(cs)[p] = cs[p + 1]
  BY TailOfCalls
<1>2. o \in DOMAIN u /\ Tail(cs)[p].object \in u[o]
  BY DEF Shrunk
<1>3. PICK b \in DOMAIN cs : /\ cs[b] \in C /\ cs[b].object = o
                             /\ b < p + 1 \/ \E r \in DOMAIN cs : p + 1 < r /\ cs[r].object = cs[p + 1].object
  BY <1>1, <1>2 DEF TriedAgain
<1>4. b \in Nat /\ b >= 1 /\ Head(cs) = cs[1]
  BY TailOfCalls
<1>5. b > 1
  BY <1>3, <1>4
<1>6. b - 1 \in DOMAIN Tail(cs) /\ Tail(cs)[b - 1] = cs[b] /\ (b < p + 1 => b - 1 < p)
  BY <1>1, <1>4, <1>5, TailOfCalls
<1>7. CASE b < p + 1
  BY <1>3, <1>6, <1>7
<1>8. CASE \E r \in DOMAIN cs : p + 1 < r /\ cs[r].object = cs[p + 1].object
  <2>1. PICK r \in DOMAIN cs : p + 1 < r /\ cs[r].object = cs[p + 1].object
    BY <1>8
  <2>2. r \in Nat /\ r > 1 /\ p < r - 1
    BY <1>1, <2>1, TailOfCalls
  <2>3. r - 1 \in DOMAIN Tail(cs) /\ Tail(cs)[r - 1] = cs[r]
    BY <2>2, TailOfCalls
  <2> QED
    BY <1>1, <1>3, <1>6, <2>1, <2>2, <2>3
<1> QED
  BY <1>3, <1>7, <1>8

\* Only address handles will be left of the users of the protection domain in the rest as well.
LEMMA OnlyHandlesLeftInTail ==
    ASSUME NEW S, NEW cs \in Seq(S), cs # << >>, NEW u, NEW v, NEW res,
           OnlyHandlesLeft(cs, u, res), Shrunk(u, v),
           Head(cs).object \notin DOMAIN v \/ Head(cs) \notin Firm(res)
    PROVE  OnlyHandlesLeft(Tail(cs), v, res)
<1> SUFFICES ASSUME NEW p \in DOMAIN Tail(cs), Tail(cs)[p].object = res.pd,
                    NEW o \in DOMAIN v, res.pd \in v[o]
             PROVE  \/ o.type = "ah" /\ \A b \in DOMAIN Tail(cs) : Tail(cs)[b].object # o
                    \/ \E b \in DOMAIN Tail(cs) : b < p /\ Tail(cs)[b] \in Firm(res) /\ Tail(cs)[b].object = o
  BY DEF OnlyHandlesLeft
<1>1. p \in Nat /\ p + 1 \in DOMAIN cs /\ Tail(cs)[p] = cs[p + 1]
  BY TailOfCalls
<1>2. o \in DOMAIN u /\ res.pd \in u[o]
  BY DEF Shrunk
<1>3. \/ o.type = "ah" /\ \A b \in DOMAIN cs : cs[b].object # o
      \/ \E b \in DOMAIN cs : b < p + 1 /\ cs[b] \in Firm(res) /\ cs[b].object = o
  BY <1>1, <1>2 DEF OnlyHandlesLeft
<1>4. CASE o.type = "ah" /\ \A b \in DOMAIN cs : cs[b].object # o
  <2>1. \A b \in DOMAIN Tail(cs) : Tail(cs)[b].object # o
    BY <1>4, TailOfCalls
  <2> QED
    BY <1>4, <2>1
<1>5. CASE \E b \in DOMAIN cs : b < p + 1 /\ cs[b] \in Firm(res) /\ cs[b].object = o
  <2>1. PICK b \in DOMAIN cs : b < p + 1 /\ cs[b] \in Firm(res) /\ cs[b].object = o
    BY <1>5
  <2>2. b \in Nat /\ b >= 1 /\ Head(cs) = cs[1]
    BY TailOfCalls
  <2>3. b > 1
    BY <2>1, <2>2
  <2>4. b - 1 \in DOMAIN Tail(cs) /\ Tail(cs)[b - 1] = cs[b] /\ b - 1 < p
    BY <1>1, <2>1, <2>2, <2>3, TailOfCalls
  <2> QED
    BY <2>1, <2>4
<1> QED
  BY <1>3, <1>4, <1>5

-----------------------------------------------------------------------------
(***************************************************************************)
(* Lists of calls one behind the other                                     *)
(***************************************************************************)
\* The calls of two lists.
LEMMA ConcatOfCalls ==
    ASSUME NEW S, NEW a \in Seq(S), NEW b \in Seq(S)
    PROVE  /\ a \o b \in Seq(S) /\ Len(a) \in Nat
           /\ \A p \in DOMAIN a : p \in Nat /\ p <= Len(a) /\ p \in DOMAIN (a \o b) /\ (a \o b)[p] = a[p]
           /\ \A p \in DOMAIN b : /\ p \in Nat /\ p >= 1 /\ Len(a) + p \in DOMAIN (a \o b)
                                  /\ (a \o b)[Len(a) + p] = b[p]
           /\ \A p \in DOMAIN (a \o b) : p \in DOMAIN a \/ \E q \in DOMAIN b : p = Len(a) + q
<1> DEFINE c == a \o b
<1>1. PICK m \in Nat, n \in Nat : m = Len(a) /\ n = Len(b)
  BY LenProperties
<1>2. /\ DOMAIN a = 1 .. m /\ DOMAIN b = 1 .. n
      /\ c \in Seq(S) /\ Len(c) = m + n /\ DOMAIN c = 1 .. m + n
      /\ \A i \in 1 .. m + n : c[i] = IF i <= m THEN a[i] ELSE b[i - m]
  BY <1>1, LenProperties, ConcatProperties
<1> HIDE DEF c
<1>3. ASSUME NEW p \in 1 .. m PROVE p \in Nat /\ p <= m /\ p \in 1 .. m + n /\ c[p] = a[p]
  BY <1>2
<1>4. ASSUME NEW p \in 1 .. n
      PROVE  p \in Nat /\ p >= 1 /\ m + p \in 1 .. m + n /\ c[m + p] = b[p]
  <2>1. m + p \in 1 .. m + n /\ ~(m + p <= m) /\ m + p - m = p /\ p \in Nat /\ p >= 1
    OBVIOUS
  <2>2. c[m + p] = b[m + p - m]
    BY <1>2, <2>1
  <2> QED
    BY <2>1, <2>2
<1>5. ASSUME NEW p \in 1 .. m + n, p \notin 1 .. m PROVE \E q \in 1 .. n : p = m + q
  <2>1. p - m \in 1 .. n /\ p = m + (p - m)
    BY <1>5
  <2> QED
    BY <2>1
<1>6. \A p \in DOMAIN a : p \in Nat /\ p <= Len(a) /\ p \in DOMAIN c /\ c[p] = a[p]
  BY <1>1, <1>2, <1>3
<1>7. \A p \in DOMAIN b : p \in Nat /\ p >= 1 /\ Len(a) + p \in DOMAIN c /\ c[Len(a) + p] = b[p]
  BY <1>1, <1>2, <1>4
<1>8. \A p \in DOMAIN c : p \in DOMAIN a \/ \E q \in DOMAIN b : p = Len(a) + q
  BY <1>1, <1>2, <1>5, ZenonT(60)
<1> QED
  BY <1>1, <1>2, <1>6, <1>7, <1>8 DEF c

\* Users are first in both, when those of the objects of the second are in the first or first in it.
LEMMA UsersFirstInConcat ==
    ASSUME NEW S, NEW a \in Seq(S), NEW b \in Seq(S), NEW u, NEW C, UsersFirst(a, u, C),
           \A p \in DOMAIN b : b[p] \in C =>
               \A o \in DOMAIN u : b[p].object \in u[o] =>
                   \/ \E i \in DOMAIN a : a[i] \in C /\ a[i].object = o
                   \/ \E i \in DOMAIN b : i < p /\ b[i] \in C /\ b[i].object = o
    PROVE  UsersFirst(a \o b, u, C)
<1> DEFINE c == a \o b
<1>1. /\ Len(a) \in Nat
      /\ \A p \in DOMAIN a : p \in Nat /\ p <= Len(a) /\ p \in DOMAIN c /\ c[p] = a[p]
      /\ \A p \in DOMAIN b : p \in Nat /\ p >= 1 /\ Len(a) + p \in DOMAIN c /\ c[Len(a) + p] = b[p]
      /\ \A p \in DOMAIN c : p \in DOMAIN a \/ \E q \in DOMAIN b : p = Len(a) + q
  BY ONLY a \in Seq(S), b \in Seq(S), ConcatOfCalls, SMTT(30)
<1> HIDE DEF c
<1>2. ASSUME NEW p \in DOMAIN c, c[p] \in C, NEW o \in DOMAIN u, c[p].object \in u[o]
      PROVE  \E i \in DOMAIN c : i < p /\ c[i] \in C /\ c[i].object = o
  <2>1. CASE p \in DOMAIN a
    <3>1. PICK i \in DOMAIN a : i < p /\ a[i] \in C /\ a[i].object = o
      BY <1>1, <1>2, <2>1 DEF UsersFirst
    <3> QED
      BY <1>1, <3>1
  <2>2. CASE p \notin DOMAIN a
    <3>1. PICK q \in DOMAIN b : p = Len(a) + q
      BY <1>1, <2>2
    <3>2. b[q] \in C /\ b[q].object \in u[o] /\ q \in Nat /\ q >= 1
      BY <1>1, <1>2, <3>1
    <3>3. CASE \E i \in DOMAIN a : a[i] \in C /\ a[i].object = o
      BY <1>1, <3>1, <3>2, <3>3
    <3>4. CASE \E i \in DOMAIN b : i < q /\ b[i] \in C /\ b[i].object = o
      <4>1. PICK i \in DOMAIN b : i < q /\ b[i] \in C /\ b[i].object = o
        BY <3>4
      <4>2. Len(a) + i < p
        BY <1>1, <3>1, <3>2, <4>1
      <4> QED
        BY <1>1, <4>1, <4>2
    <3> QED
      BY <3>2, <3>3, <3>4
  <2> QED
    BY <2>1, <2>2
<1> QED
  BY <1>2 DEF UsersFirst, c

\* There are users between two calls for the same object in both, when they share no object.
LEMMA UsedBetweenInConcat ==
    ASSUME NEW S, NEW a \in Seq(S), NEW b \in Seq(S), NEW u, UsedBetween(a, u), UsedBetween(b, u),
           \A p \in DOMAIN a, r \in DOMAIN b : a[p].object # b[r].object
    PROVE  UsedBetween(a \o b, u)
<1> DEFINE c == a \o b
<1>1. /\ Len(a) \in Nat
      /\ \A p \in DOMAIN a : p \in Nat /\ p <= Len(a) /\ p \in DOMAIN c /\ c[p] = a[p]
      /\ \A p \in DOMAIN b : p \in Nat /\ p >= 1 /\ Len(a) + p \in DOMAIN c /\ c[Len(a) + p] = b[p]
      /\ \A p \in DOMAIN c : p \in DOMAIN a \/ \E q \in DOMAIN b : p = Len(a) + q
  BY ONLY a \in Seq(S), b \in Seq(S), ConcatOfCalls, SMTT(30)
<1> HIDE DEF c
<1>2. ASSUME NEW p \in DOMAIN c, NEW r \in DOMAIN c, p < r, c[p].object = c[r].object, c[p].object \in DOMAIN u
      PROVE  /\ c[p].busy # "force"
             /\ \E i \in DOMAIN c : p < i /\ i < r /\ c[i].object \in DOMAIN u /\ c[p].object \in u[c[i].object]
  <2>1. CASE p \in DOMAIN a /\ r \in DOMAIN a
    <3>1. a[p].busy # "force" /\ \E i \in DOMAIN a : /\ p < i /\ i < r /\ a[i].object \in DOMAIN u
                                                     /\ a[p].object \in u[a[i].object]
      BY <1>1, <1>2, <2>1 DEF UsedBetween
    <3> QED
      BY <1>1, <2>1, <3>1
  <2>2. CASE p \in DOMAIN a /\ r \notin DOMAIN a
    <3>1. PICK q \in DOMAIN b : r = Len(a) + q
      BY <1>1, <2>2
    <3> QED
      BY <1>1, <1>2, <2>2, <3>1
  <2>3. CASE p \notin DOMAIN a
    <3>1. PICK x \in DOMAIN b : p = Len(a) + x
      BY <1>1, <2>3
    <3>2. r \notin DOMAIN a
      BY <1>1, <1>2, <3>1
    <3>3. PICK y \in DOMAIN b : r = Len(a) + y
      BY <1>1, <3>2
    <3>4. x < y /\ b[x].object = b[y].object /\ b[x].object \in DOMAIN u /\ c[p] = b[x]
      BY <1>1, <1>2, <3>1, <3>3
    <3>5. b[x].busy # "force" /\ \E i \in DOMAIN b : /\ x < i /\ i < y /\ b[i].object \in DOMAIN u
                                                     /\ b[x].object \in u[b[i].object]
      BY <3>4 DEF UsedBetween
    <3>6. PICK i \in DOMAIN b : x < i /\ i < y /\ b[i].object \in DOMAIN u /\ b[x].object \in u[b[i].object]
      BY <3>5
    <3>7. p < Len(a) + i /\ Len(a) + i < r /\ Len(a) + i \in DOMAIN c /\ c[Len(a) + i] = b[i]
      BY <1>1, <3>1, <3>3, <3>6
    <3> QED
      BY <3>4, <3>5, <3>6, <3>7
  <2> QED
    BY <2>1, <2>2, <2>3
<1> QED
  BY <1>2 DEF UsedBetween, c

\* What is left for later is tried again in both, when users of what may be left in the second go first.
LEMMA TriedAgainInConcat ==
    ASSUME NEW S, NEW a \in Seq(S), NEW b \in Seq(S), NEW u, NEW C, TriedAgain(a, u, C),
           \A p \in DOMAIN b : b[p].busy = "log" =>
               \A o \in DOMAIN u : b[p].object \in u[o] =>
                   \E i \in DOMAIN b : i < p /\ b[i] \in C /\ b[i].object = o
    PROVE  TriedAgain(a \o b, u, C)
<1> DEFINE c == a \o b
<1>1. /\ Len(a) \in Nat
      /\ \A p \in DOMAIN a : p \in Nat /\ p <= Len(a) /\ p \in DOMAIN c /\ c[p] = a[p]
      /\ \A p \in DOMAIN b : p \in Nat /\ p >= 1 /\ Len(a) + p \in DOMAIN c /\ c[Len(a) + p] = b[p]
      /\ \A p \in DOMAIN c : p \in DOMAIN a \/ \E q \in DOMAIN b : p = Len(a) + q
  BY ONLY a \in Seq(S), b \in Seq(S), ConcatOfCalls, SMTT(30)
<1> HIDE DEF c
<1>2. ASSUME NEW p \in DOMAIN c, c[p].busy = "log", NEW o \in DOMAIN u, c[p].object \in u[o]
      PROVE  \E i \in DOMAIN c : /\ c[i] \in C /\ c[i].object = o
                                 /\ i < p \/ \E r \in DOMAIN c : p < r /\ c[r].object = c[p].object
  <2>1. CASE p \in DOMAIN a
    <3>1. PICK i \in DOMAIN a : /\ a[i] \in C /\ a[i].object = o
                                /\ i < p \/ \E r \in DOMAIN a : p < r /\ a[r].object = a[p].object
      BY <1>1, <1>2, <2>1 DEF TriedAgain
    <3> QED
      BY <1>1, <2>1, <3>1
  <2>2. CASE p \notin DOMAIN a
    <3>1. PICK q \in DOMAIN b : p = Len(a) + q
      BY <1>1, <2>2
    <3>2. PICK i \in DOMAIN b : i < q /\ b[i] \in C /\ b[i].object = o
      BY <1>1, <1>2, <3>1
    <3>3. Len(a) + i < p
      BY <1>1, <3>1, <3>2
    <3> QED
      BY <1>1, <3>2, <3>3
  <2> QED
    BY <2>1, <2>2
<1> QED
  BY <1>2 DEF TriedAgain, c

-----------------------------------------------------------------------------
(***************************************************************************)
(* The calls for the queue pairs of the connections                        *)
(***************************************************************************)
\* The calls for one queue pair.
LEMMA CallsOfPair ==
    ASSUME NEW q \in Pairs
    PROVE  /\ destroyQP(q) \in Seq(Calls) /\ Len(destroyQP(q)) = 3 /\ DOMAIN destroyQP(q) = 1 .. 3
           /\ destroyQP(q)[1] = Call(q.qp, "throw") /\ destroyQP(q)[2] = Call(q.send_cq, "throw")
           /\ destroyQP(q)[3] = Call(q.recv_cq, "log")
<1> DEFINE x == Call(q.qp, "throw")
           y == Call(q.send_cq, "throw")
           z == Call(q.recv_cq, "log")
           a == <<x>>
           b == <<y, z>>
<1>1. x \in Calls /\ y \in Calls /\ z \in Calls
  BY DEF Calls, Call, Pairs
<1>2. destroyQP(q) = a \o b
  BY DEF destroyQP, destroyCQ
<1> HIDE DEF x, y, z
<1>3. /\ a \in Seq(Calls) /\ Len(a) = 1 /\ a[1] = x
      /\ b \in Seq(Calls) /\ Len(b) = 2 /\ b[1] = y /\ b[2] = z
  BY <1>1
<1> HIDE DEF a, b
<1>4. /\ a \o b \in Seq(Calls) /\ Len(a \o b) = 3 /\ DOMAIN (a \o b) = 1 .. 3
      /\ (a \o b)[1] = a[1] /\ (a \o b)[2] = b[1] /\ (a \o b)[3] = b[2]
  <2>1. /\ a \o b \in Seq(Calls) /\ Len(a \o b) = Len(a) + Len(b)
        /\ \A i \in 1 .. Len(a) + Len(b) : (a \o b)[i] = IF i <= Len(a) THEN a[i] ELSE b[i - Len(a)]
    BY <1>3, ConcatProperties
  <2>2. \A i \in 1 .. 3 : (a \o b)[i] = IF i <= 1 THEN a[i] ELSE b[i - 1]
    BY <1>3, <2>1
  <2>3. Len(a \o b) = 3
    BY <1>3, <2>1
  <2>4. DOMAIN (a \o b) = 1 .. 3
    BY <2>1, <2>3, LenProperties
  <2> QED
    BY <2>1, <2>2, <2>3, <2>4
<1> QED
  BY <1>2, <1>3, <1>4 DEF x, y, z

EntryCalls(entries) ==
    FlattenSeq([k \in DOMAIN entries |->
                   IF entries[k].qp # nullptr THEN destroyQP(entries[k]) ELSE << >>])

\* The entries with a queue pair.
Filled(entries) == {k \in DOMAIN entries : entries[k].qp # nullptr}

\* The three calls for the k-th entry come behind at[k].
EntriesAt(cs, entries, at) ==
    /\ \A k \in Filled(entries) :
         /\ at[k] \in Nat
         /\ at[k] + 1 \in DOMAIN cs /\ cs[at[k] + 1] = Call(entries[k].qp, "throw")
         /\ at[k] + 2 \in DOMAIN cs /\ cs[at[k] + 2] = Call(entries[k].send_cq, "throw")
         /\ at[k] + 3 \in DOMAIN cs /\ cs[at[k] + 3] = Call(entries[k].recv_cq, "log")
    /\ \A j, k \in Filled(entries) : j < k => at[j] + 3 <= at[k]
    /\ \A p \in DOMAIN cs : p \in Nat /\ \E k \in Filled(entries) : p = at[k] + 1 \/ p = at[k] + 2 \/ p = at[k] + 3

\* Where those for the k-th entry are.
LEMMA EntryCallsPlaced ==
    ASSUME NEW entries \in Seq(Pairs)
    PROVE  EntryCalls(entries) \in Seq(Calls) /\ \E at : EntriesAt(EntryCalls(entries), entries, at)
<1> DEFINE seqs == [k \in DOMAIN entries |->
                        IF entries[k].qp # nullptr THEN destroyQP(entries[k]) ELSE << >>]
           cs == EntryCalls(entries)
           n == Len(entries)
<1>1. n \in Nat /\ DOMAIN entries = 1 .. n /\ \A k \in 1 .. n : entries[k] \in Pairs
  BY LenProperties, ElementOfSeq
<1>2. ASSUME NEW k \in 1 .. n, entries[k].qp # nullptr
      PROVE  /\ seqs[k] \in Seq(Calls) /\ Len(seqs[k]) = 3
             /\ seqs[k][1] = Call(entries[k].qp, "throw") /\ seqs[k][2] = Call(entries[k].send_cq, "throw")
             /\ seqs[k][3] = Call(entries[k].recv_cq, "log")
  <2>1. seqs[k] = destroyQP(entries[k]) /\ entries[k] \in Pairs
    BY <1>1, <1>2
  <2> HIDE DEF seqs
  <2> QED
    BY <2>1, CallsOfPair
<1>3. ASSUME NEW k \in 1 .. n, entries[k].qp = nullptr
      PROVE  seqs[k] \in Seq(Calls) /\ Len(seqs[k]) = 0
  <2>1. seqs[k] = << >>
    BY <1>1, <1>3
  <2> HIDE DEF seqs
  <2> QED
    BY <2>1, EmptySeq
<1>4. \A k \in 1 .. n : seqs[k] \in Seq(Calls)
  BY <1>2, <1>3
<1>5. seqs \in Seq(Seq(Calls)) /\ Len(seqs) = n
  <2>1. seqs = [k \in 1 .. n |-> seqs[k]]
    BY <1>1
  <2>2. seqs \in [1 .. n -> Seq(Calls)]
    <3> HIDE DEF seqs
    <3> QED
      BY <1>4, <2>1
  <2> HIDE DEF seqs, n
  <2> QED
    BY <1>1, <2>2, SeqDef, LenProperties
<1>6. cs = FlattenSeq(seqs)
  BY DEF EntryCalls
<1> HIDE DEF seqs, cs
<1>7. cs \in Seq(Calls)
  BY <1>5, <1>6, FlattenLayout
<1>8. PICK at : Layout(seqs, n, cs, at)
  BY <1>5, <1>6, FlattenLayout
<1>9. DOMAIN cs = 1 .. Len(cs) /\ Len(cs) \in Nat
  BY <1>7, LenProperties
<1>10. ASSUME NEW k \in Filled(entries)
       PROVE  /\ at[k] \in Nat
              /\ at[k] + 1 \in DOMAIN cs /\ cs[at[k] + 1] = Call(entries[k].qp, "throw")
              /\ at[k] + 2 \in DOMAIN cs /\ cs[at[k] + 2] = Call(entries[k].send_cq, "throw")
              /\ at[k] + 3 \in DOMAIN cs /\ cs[at[k] + 3] = Call(entries[k].recv_cq, "log")
  <2>1. k \in 1 .. n /\ entries[k].qp # nullptr
    BY <1>1 DEF Filled
  <2>2. at[k] \in Nat /\ at[k] + 3 <= Len(cs) /\ \A i \in 1 .. 3 : cs[at[k] + i] = seqs[k][i]
    BY <1>2, <1>8, <2>1 DEF Layout
  <2>3. at[k] + 1 \in 1 .. Len(cs) /\ at[k] + 2 \in 1 .. Len(cs) /\ at[k] + 3 \in 1 .. Len(cs)
    BY <1>9, <2>2, SMTT(30)
  <2>4. cs[at[k] + 1] = seqs[k][1] /\ cs[at[k] + 2] = seqs[k][2] /\ cs[at[k] + 3] = seqs[k][3]
    BY <2>2
  <2> QED
    BY <1>2, <1>9, <2>1, <2>2, <2>3, <2>4
<1>11. ASSUME NEW j \in Filled(entries), NEW k \in Filled(entries), j < k PROVE at[j] + 3 <= at[k]
  <2>1. j \in 1 .. n /\ k \in 1 .. n /\ Len(seqs[j]) = 3
    BY <1>1, <1>2 DEF Filled
  <2> QED
    BY <1>8, <1>11, <2>1 DEF Layout
<1>12. ASSUME NEW p \in DOMAIN cs
       PROVE  p \in Nat /\ \E k \in Filled(entries) : p = at[k] + 1 \/ p = at[k] + 2 \/ p = at[k] + 3
  <2>1. PICK k \in 1 .. n : at[k] < p /\ p <= at[k] + Len(seqs[k])
    BY <1>8, <1>9 DEF Layout
  <2>2. at[k] \in Nat /\ p \in Nat
    <3>1. at \in [1 .. n -> Nat]
      BY <1>8 DEF Layout
    <3> QED
      BY <1>9, <3>1
  <2>3. Len(seqs[k]) # 0
    BY <2>1, <2>2
  <2>4. k \in Filled(entries) /\ Len(seqs[k]) = 3
    BY <1>1, <1>2, <1>3, <2>3 DEF Filled
  <2> QED
    BY <2>1, <2>2, <2>4
<1>13. EntriesAt(cs, entries, at)
  BY <1>10, <1>11, <1>12 DEF EntriesAt
<1> QED
  BY <1>7, <1>13 DEF cs

\* Of the pairs of these entries none is that of two, and each has its queues to itself.
EntriesOK(entries, u, Q) ==
    /\ \A k \in Filled(entries) : PairOK(u, Q, entries[k])
    /\ \A j, k \in Filled(entries) : j # k => entries[j].qp # entries[k].qp

\* Users are first in the calls for entries.
LEMMA EntryUsersFirst ==
    ASSUME NEW entries, NEW u, NEW Q, EntriesOK(entries, u, Q), NEW cs, NEW at, EntriesAt(cs, entries, at),
           NEW C, \A p \in DOMAIN cs : cs[p] \in C <=> cs[p].busy # "log"
    PROVE  UsersFirst(cs, u, C)
<1> SUFFICES ASSUME NEW p \in DOMAIN cs, cs[p] \in C, NEW o \in DOMAIN u, cs[p].object \in u[o]
             PROVE  \E b \in DOMAIN cs : b < p /\ cs[b] \in C /\ cs[b].object = o
  BY DEF UsersFirst
<1>1. PICK k \in Filled(entries) : p \in Nat /\ (p = at[k] + 1 \/ p = at[k] + 2 \/ p = at[k] + 3)
  BY DEF EntriesAt
<1>2. /\ at[k] \in Nat
      /\ at[k] + 1 \in DOMAIN cs /\ cs[at[k] + 1] = Call(entries[k].qp, "throw")
      /\ cs[at[k] + 2] = Call(entries[k].send_cq, "throw")
      /\ cs[at[k] + 3] = Call(entries[k].recv_cq, "log")
  BY DEF EntriesAt
<1>3. Only(u, entries[k].qp, {}) /\ Only(u, entries[k].send_cq, {entries[k].qp})
  BY DEF EntriesOK, PairOK
<1>4. CASE p = at[k] + 1
  <2>1. cs[p].object = entries[k].qp
    BY <1>2, <1>4 DEF Call
  <2> QED
    BY <1>3, <2>1 DEF Only
<1>5. CASE p = at[k] + 2
  <2>1. cs[p].object = entries[k].send_cq
    BY <1>2, <1>5 DEF Call
  <2>2. o = entries[k].qp
    BY <1>3, <2>1 DEF Only
  <2>3. cs[at[k] + 1].object = o /\ cs[at[k] + 1].busy # "log"
    BY <1>2, <2>2 DEF Call
  <2>4. at[k] + 1 < p
    BY <1>2, <1>5
  <2> QED
    BY <1>2, <2>3, <2>4
<1>6. CASE p = at[k] + 3
  BY <1>2, <1>6 DEF Call
<1> QED
  BY <1>1, <1>4, <1>5, <1>6

\* There are users between two calls for the same object in them.
LEMMA EntryUsedBetween ==
    ASSUME NEW entries, NEW u, NEW Q, EntriesOK(entries, u, Q), NEW cs, NEW at, EntriesAt(cs, entries, at),
           DOMAIN entries \subseteq Nat
    PROVE  UsedBetween(cs, u)
<1> SUFFICES ASSUME NEW p \in DOMAIN cs, NEW r \in DOMAIN cs, p < r, cs[p].object = cs[r].object
             PROVE  /\ cs[p].busy # "force"
                    /\ \E b \in DOMAIN cs : /\ p < b /\ b < r /\ cs[b].object \in DOMAIN u
                                            /\ cs[p].object \in u[cs[b].object]
  BY DEF UsedBetween
<1>1. PICK j \in Filled(entries) : p \in Nat /\ (p = at[j] + 1 \/ p = at[j] + 2 \/ p = at[j] + 3)
  BY DEF EntriesAt
<1>2. PICK k \in Filled(entries) : r \in Nat /\ (r = at[k] + 1 \/ r = at[k] + 2 \/ r = at[k] + 3)
  BY DEF EntriesAt
<1>3. \A i \in {j, k} :
          /\ at[i] \in Nat
          /\ cs[at[i] + 1] = Call(entries[i].qp, "throw")
          /\ cs[at[i] + 2] = Call(entries[i].send_cq, "throw")
          /\ cs[at[i] + 3] = Call(entries[i].recv_cq, "log")
  BY DEF EntriesAt
<1>4. at[k] + 1 \in DOMAIN cs
  BY DEF EntriesAt
<1>5. PairOK(u, Q, entries[j]) /\ PairOK(u, Q, entries[k]) /\ (j # k => entries[j].qp # entries[k].qp)
  BY DEF EntriesOK
<1>6. j \in Nat /\ k \in Nat
  BY DEF Filled
<1>7. ~(k < j)
  <2>1. k < j => at[k] + 3 <= at[j]
    BY DEF EntriesAt
  <2> QED
    BY <1>1, <1>2, <1>3, <2>1
<1>8. /\ p = at[j] + 1 => cs[p].object = entries[j].qp
      /\ p = at[j] + 2 => cs[p].object = entries[j].send_cq
      /\ p = at[j] + 3 => cs[p].object = entries[j].recv_cq /\ cs[p].busy = "log"
      /\ r = at[k] + 1 => cs[r].object = entries[k].qp
      /\ r = at[k] + 2 => cs[r].object = entries[k].send_cq
      /\ r = at[k] + 3 => cs[r].object = entries[k].recv_cq
  BY <1>3 DEF Call
<1>9. \A i \in {j, k} :
          /\ entries[i].qp \in DOMAIN u
          /\ entries[i].qp.type = "qp" /\ entries[i].send_cq.type = "cq" /\ entries[i].recv_cq.type = "cq"
          /\ entries[i].send_cq # entries[i].recv_cq
          /\ entries[i].send_cq \in u[entries[i].qp] /\ entries[i].recv_cq \in u[entries[i].qp]
          /\ \A o \in DOMAIN u : entries[i].send_cq \in u[o] => o = entries[i].qp
  BY <1>5 DEF PairOK, PointersOf, Only
<1>10. j # k
  <2>1. SUFFICES ASSUME j = k PROVE FALSE
    OBVIOUS
  <2>2. \/ p = at[j] + 1 /\ (r = at[j] + 2 \/ r = at[j] + 3)
        \/ p = at[j] + 2 /\ r = at[j] + 3
    BY <1>1, <1>2, <1>3, <2>1
  <2> QED
    BY <1>8, <1>9, <2>1, <2>2
<1>11. at[j] + 3 <= at[k]
  BY <1>6, <1>7, <1>10 DEF EntriesAt
<1>12. p = at[j] + 3 /\ r = at[k] + 3
  BY <1>1, <1>2, <1>5, <1>8, <1>9, <1>10
<1>13. cs[at[k] + 1].object = entries[k].qp
  BY <1>3 DEF Call
<1>14. p < at[k] + 1 /\ at[k] + 1 < r
  BY <1>3, <1>11, <1>12
<1>15. cs[p].busy # "force" /\ cs[p].object \in u[entries[k].qp] /\ entries[k].qp \in DOMAIN u
  BY <1>8, <1>9, <1>12
<1> QED
  BY <1>4, <1>13, <1>14, <1>15

\* What may be left because of others is tried again after them.
LEMMA EntriesTriedAgain ==
    ASSUME NEW entries, NEW u, NEW Q, EntriesOK(entries, u, Q), NEW cs, NEW at, EntriesAt(cs, entries, at),
           DOMAIN entries \subseteq Nat, nullptr \notin DOMAIN u,
           NEW C, \A p \in DOMAIN cs : cs[p] \in C <=> cs[p].busy # "log",
           \A k \in Filled(entries) : Only(u, entries[k].recv_cq, {entries[i].qp : i \in DOMAIN entries})
    PROVE  TriedAgain(cs, u, C)
<1> SUFFICES ASSUME NEW p \in DOMAIN cs, cs[p].busy = "log", NEW o \in DOMAIN u, cs[p].object \in u[o]
             PROVE  \E b \in DOMAIN cs :
                       /\ cs[b] \in C /\ cs[b].object = o
                       /\ b < p \/ \E r \in DOMAIN cs : p < r /\ cs[r].object = cs[p].object
  BY DEF TriedAgain
<1>1. PICK j \in Filled(entries) : p \in Nat /\ (p = at[j] + 1 \/ p = at[j] + 2 \/ p = at[j] + 3)
  BY DEF EntriesAt
<1>2. /\ cs[at[j] + 1] = Call(entries[j].qp, "throw")
      /\ cs[at[j] + 2] = Call(entries[j].send_cq, "throw")
      /\ cs[at[j] + 3] = Call(entries[j].recv_cq, "log")
      /\ at[j] \in Nat
  BY DEF EntriesAt
<1>3. p = at[j] + 3 /\ cs[p].object = entries[j].recv_cq
  BY <1>1, <1>2 DEF Call
<1>4. PICK i \in DOMAIN entries : o = entries[i].qp
  BY <1>3 DEF Only
<1>5. i \in Filled(entries)
  BY <1>4 DEF Filled
<1>6. /\ at[i] \in Nat /\ at[i] + 1 \in DOMAIN cs /\ at[i] + 3 \in DOMAIN cs
      /\ cs[at[i] + 1] = Call(entries[i].qp, "throw") /\ cs[at[i] + 3] = Call(entries[i].recv_cq, "log")
  BY <1>5 DEF EntriesAt
<1>7. PairOK(u, Q, entries[j]) /\ PairOK(u, Q, entries[i]) /\ (i # j => entries[j].qp # entries[i].qp)
  BY <1>5 DEF EntriesOK
<1>8. cs[at[i] + 1].object = o /\ cs[at[i] + 1] \in C
  BY <1>4, <1>6 DEF Call
<1>9. i \in Nat /\ j \in Nat
  BY <1>5 DEF Filled
<1>10. CASE i = j
  <2>1. at[i] + 1 < p
    BY <1>3, <1>6, <1>10
  <2> QED
    BY <1>6, <1>8, <2>1
<1>11. CASE i < j
  <2>1. at[i] + 3 <= at[j]
    BY <1>5, <1>11 DEF EntriesAt
  <2>2. at[i] + 1 < p
    BY <1>2, <1>3, <1>6, <2>1
  <2> QED
    BY <1>6, <1>8, <2>2
<1>12. CASE j < i
  <2>1. at[j] + 3 <= at[i]
    BY <1>5, <1>12 DEF EntriesAt
  <2>2. p < at[i] + 3
    BY <1>2, <1>3, <1>6, <2>1
  <2>3. entries[j].recv_cq.type = "cq" /\ entries[j].recv_cq \in u[entries[j].qp] /\ entries[j].qp \in DOMAIN u
    BY <1>7 DEF PairOK, PointersOf
  <2>4. entries[j].recv_cq \in {entries[i].send_cq, entries[i].recv_cq}
    BY <1>3, <1>4, <1>7, <2>3 DEF PairOK
  <2>5. entries[j].recv_cq # entries[i].send_cq
    BY <1>7, <1>9, <1>12, <2>3 DEF PairOK, Only
  <2>6. cs[at[i] + 3].object = cs[p].object
    BY <1>3, <1>6, <2>4, <2>5 DEF Call
  <2> QED
    BY <1>6, <1>8, <2>2, <2>6
<1> QED
  BY <1>9, <1>10, <1>11, <1>12

-----------------------------------------------------------------------------
(***************************************************************************)
(* The calls for the groups                                                *)
(***************************************************************************)
\* The calls of one list are those of the many.
LEMMA CallsOfAll ==
    ASSUME NEW S, NEW seqs \in Seq(Seq(S)), NEW start,
           Layout(seqs, Len(seqs), FlattenSeq(seqs), start)
    PROVE  /\ \A k \in DOMAIN seqs : \A i \in DOMAIN seqs[k] :
                 /\ i \in Nat /\ start[k] + i \in DOMAIN FlattenSeq(seqs)
                 /\ FlattenSeq(seqs)[start[k] + i] = seqs[k][i]
           /\ \A p \in DOMAIN FlattenSeq(seqs) :
                 \E k \in DOMAIN seqs : \E i \in DOMAIN seqs[k] : p = start[k] + i
           /\ \A k \in DOMAIN seqs : start[k] \in Nat
           /\ \A j, k \in DOMAIN seqs : j < k => \A i \in DOMAIN seqs[j] : start[j] + i <= start[k]
<1> DEFINE n == Len(seqs)
           c == FlattenSeq(seqs)
<1>1. /\ n \in Nat /\ DOMAIN seqs = 1 .. n
      /\ \A k \in 1 .. n : Len(seqs[k]) \in Nat /\ DOMAIN seqs[k] = 1 .. Len(seqs[k])
  <2>1. n \in Nat /\ DOMAIN seqs = 1 .. n
    BY LenProperties
  <2>2. \A k \in 1 .. n : seqs[k] \in Seq(S)
    BY <2>1, ElementOfSeq
  <2> QED
    BY <2>1, <2>2, LenProperties
<1>2. DOMAIN c = 1 .. Len(c) /\ Len(c) \in Nat
  <2>1. c \in Seq(S)
    BY FlattenLayout
  <2> QED
    BY <2>1, LenProperties
<1>3. Layout(seqs, n, c, start)
  OBVIOUS
<1> HIDE DEF c, n
<1>4. \A k \in 1 .. n : start[k] \in Nat
  BY <1>3 DEF Layout
<1>5. ASSUME NEW k \in 1 .. n, NEW i \in 1 .. Len(seqs[k])
      PROVE  i \in Nat /\ start[k] + i \in DOMAIN c /\ c[start[k] + i] = seqs[k][i]
  <2>1. start[k] + Len(seqs[k]) <= Len(c) /\ c[start[k] + i] = seqs[k][i]
    BY <1>3 DEF Layout
  <2>2. PICK a \in Nat, b \in Nat, l \in Nat : a = start[k] /\ b = Len(seqs[k]) /\ l = Len(c)
    BY <1>1, <1>2, <1>4
  <2>3. i \in 1 .. b /\ a + b <= l
    BY <2>1, <2>2
  <2>4. a + i \in 1 .. l /\ i \in Nat
    BY <2>3
  <2> QED
    BY <1>2, <2>1, <2>2, <2>4
<1>6. ASSUME NEW p \in 1 .. Len(c)
      PROVE  \E k \in 1 .. n : \E i \in 1 .. Len(seqs[k]) : p = start[k] + i
  <2>1. PICK k \in 1 .. n : start[k] < p /\ p <= start[k] + Len(seqs[k])
    BY <1>3 DEF Layout
  <2>2. p - start[k] \in 1 .. Len(seqs[k]) /\ p = start[k] + (p - start[k])
    BY <1>1, <1>4, <2>1
  <2> QED
    BY <2>2
<1>7. ASSUME NEW j \in 1 .. n, NEW k \in 1 .. n, j < k, NEW i \in 1 .. Len(seqs[j])
      PROVE  start[j] + i <= start[k]
  <2>1. start[j] + Len(seqs[j]) <= start[k]
    BY <1>3, <1>7 DEF Layout
  <2> QED
    BY <1>1, <1>4, <2>1
<1>8. \A k \in DOMAIN seqs : DOMAIN seqs[k] = 1 .. Len(seqs[k])
  BY <1>1
<1>9. \A k \in DOMAIN seqs : \A i \in DOMAIN seqs[k] :
         i \in Nat /\ start[k] + i \in DOMAIN c /\ c[start[k] + i] = seqs[k][i]
  BY <1>1, <1>5, <1>8
<1>10. \A p \in DOMAIN c : \E k \in DOMAIN seqs : \E i \in DOMAIN seqs[k] : p = start[k] + i
  BY <1>1, <1>2, <1>6, <1>8
<1>11. \A j, k \in DOMAIN seqs : j < k => \A i \in DOMAIN seqs[j] : start[j] + i <= start[k]
  BY <1>1, <1>7, <1>8
<1> QED
  BY <1>1, <1>4, <1>9, <1>10, <1>11 DEF c

\* Users are first in the whole, when they are in each of its lists.
LEMMA UsersFirstInAll ==
    ASSUME NEW S, NEW seqs \in Seq(Seq(S)), NEW u, NEW C,
           \A k \in DOMAIN seqs : UsersFirst(seqs[k], u, C)
    PROVE  UsersFirst(FlattenSeq(seqs), u, C)
<1> DEFINE c == FlattenSeq(seqs)
<1>1. PICK start : Layout(seqs, Len(seqs), c, start)
  BY FlattenLayout
<1>2. /\ \A k \in DOMAIN seqs : \A i \in DOMAIN seqs[k] :
            i \in Nat /\ start[k] + i \in DOMAIN c /\ c[start[k] + i] = seqs[k][i]
      /\ \A p \in DOMAIN c : \E k \in DOMAIN seqs : \E i \in DOMAIN seqs[k] : p = start[k] + i
      /\ \A k \in DOMAIN seqs : start[k] \in Nat
  BY <1>1, CallsOfAll
<1> HIDE DEF c
<1>3. ASSUME NEW p \in DOMAIN c, c[p] \in C, NEW o \in DOMAIN u, c[p].object \in u[o]
      PROVE  \E b \in DOMAIN c : b < p /\ c[b] \in C /\ c[b].object = o
  <2>1. PICK k \in DOMAIN seqs : \E i \in DOMAIN seqs[k] : p = start[k] + i
    BY <1>2
  <2>2. PICK i \in DOMAIN seqs[k] : p = start[k] + i
    BY <2>1
  <2>3. c[p] = seqs[k][i]
    BY <1>2, <2>2
  <2>4. PICK b \in DOMAIN seqs[k] : b < i /\ seqs[k][b] \in C /\ seqs[k][b].object = o
    BY <1>3, <2>3 DEF UsersFirst
  <2>5. start[k] \in Nat /\ i \in Nat /\ b \in Nat
    BY <1>2
  <2>6. start[k] + b < p
    BY ONLY <2>2, <2>4, <2>5
  <2> QED
    BY <1>2, <2>4, <2>6
<1> QED
  BY <1>3 DEF UsersFirst, c

\* No two calls of a list are for the same object.
Different(cs) == \A p, r \in DOMAIN cs : p < r => cs[p].object # cs[r].object

\* No two calls of all the lists are for the same object, when no two of one or of two lists are.
LEMMA DifferentInAll ==
    ASSUME NEW S, NEW seqs \in Seq(Seq(S)), \A k \in DOMAIN seqs : Different(seqs[k]),
           \A j, k \in DOMAIN seqs : j # k =>
               \A i \in DOMAIN seqs[j], l \in DOMAIN seqs[k] : seqs[j][i].object # seqs[k][l].object
    PROVE  Different(FlattenSeq(seqs))
<1> DEFINE c == FlattenSeq(seqs)
<1>1. PICK start : Layout(seqs, Len(seqs), c, start)
  BY FlattenLayout
<1>2. /\ \A k \in DOMAIN seqs : \A i \in DOMAIN seqs[k] :
            i \in Nat /\ start[k] + i \in DOMAIN c /\ c[start[k] + i] = seqs[k][i]
      /\ \A p \in DOMAIN c : \E k \in DOMAIN seqs : \E i \in DOMAIN seqs[k] : p = start[k] + i
      /\ \A k \in DOMAIN seqs : start[k] \in Nat
  BY <1>1, CallsOfAll
<1> HIDE DEF c
<1>3. ASSUME NEW p \in DOMAIN c, NEW r \in DOMAIN c, p < r PROVE c[p].object # c[r].object
  <2>1. PICK j \in DOMAIN seqs : \E i \in DOMAIN seqs[j] : p = start[j] + i
    BY <1>2
  <2>2. PICK i \in DOMAIN seqs[j] : p = start[j] + i
    BY <2>1
  <2>3. PICK k \in DOMAIN seqs : \E l \in DOMAIN seqs[k] : r = start[k] + l
    BY <1>2
  <2>4. PICK l \in DOMAIN seqs[k] : r = start[k] + l
    BY <2>3
  <2>5. c[p] = seqs[j][i] /\ c[r] = seqs[k][l] /\ i \in Nat /\ l \in Nat
    BY <1>2, <2>2, <2>4
  <2>6. CASE j = k
    <3>1. start[k] \in Nat /\ p = start[k] + i /\ r = start[k] + l
      BY <1>2, <2>2, <2>4, <2>6
    <3>2. i < l
      BY ONLY <1>3, <2>5, <3>1
    <3> QED
      BY <2>5, <2>6, <3>2 DEF Different
  <2>7. CASE j # k
    BY <2>5, <2>7
  <2> QED
    BY <2>6, <2>7
<1> QED
  BY <1>3 DEF Different, c

\* What leaveMCastGroup calls for a group that is joined.
LEMMA CallsOfGroup ==
    ASSUME NEW g \in Groups, g.active
    PROVE  /\ leaveCalls(g) \in Seq(Calls) /\ DOMAIN leaveCalls(g) = 1 .. 9
           /\ leaveCalls(g)[1].object = g.membership /\ leaveCalls(g)[1].busy = "throw"
           /\ leaveCalls(g)[2].object = g.ah /\ leaveCalls(g)[2].busy = "ignore"
           /\ leaveCalls(g)[3].object = g.qp /\ leaveCalls(g)[3].busy = "ignore"
           /\ leaveCalls(g)[4].object = g.scq /\ leaveCalls(g)[4].busy = "ignore"
           /\ leaveCalls(g)[5].object = g.rcq /\ leaveCalls(g)[5].busy = "ignore"
           /\ leaveCalls(g)[6].object = g.mr /\ leaveCalls(g)[6].busy = "ignore"
           /\ leaveCalls(g)[7].object = g.pd /\ leaveCalls(g)[7].busy = "ignore"
           /\ leaveCalls(g)[8].object = g.id /\ leaveCalls(g)[8].busy = "ignore"
           /\ leaveCalls(g)[9].object = g.channel /\ leaveCalls(g)[9].busy = "force"
<1>1. /\ Call(g.membership, "throw") \in Calls /\ Call(g.ah, "ignore") \in Calls
      /\ Call(g.qp, "ignore") \in Calls /\ Call(g.scq, "ignore") \in Calls
      /\ Call(g.rcq, "ignore") \in Calls /\ Call(g.mr, "ignore") \in Calls
      /\ Call(g.pd, "ignore") \in Calls /\ Call(g.id, "ignore") \in Calls
      /\ Call(g.channel, "force") \in Calls
  BY DEF Calls, Call, Groups
<1>2. /\ leaveCalls(g) \in Seq(Calls) /\ DOMAIN leaveCalls(g) = 1 .. 9
      /\ leaveCalls(g)[1] = Call(g.membership, "throw") /\ leaveCalls(g)[2] = Call(g.ah, "ignore")
      /\ leaveCalls(g)[3] = Call(g.qp, "ignore") /\ leaveCalls(g)[4] = Call(g.scq, "ignore")
      /\ leaveCalls(g)[5] = Call(g.rcq, "ignore") /\ leaveCalls(g)[6] = Call(g.mr, "ignore")
      /\ leaveCalls(g)[7] = Call(g.pd, "ignore") /\ leaveCalls(g)[8] = Call(g.id, "ignore")
      /\ leaveCalls(g)[9] = Call(g.channel, "force")
  BY <1>1 DEF leaveCalls
<1>3. \A x, b : Call(x, b).object = x /\ Call(x, b).busy = b
  BY DEF Call
<1> QED
  BY ONLY <1>2, <1>3

\* The calls for a group, without their order: each object, and how it is asked for.
LEMMA CallOfGroup ==
    ASSUME NEW g \in Groups, g.active, NEW i \in DOMAIN leaveCalls(g)
    PROVE  leaveCalls(g)[i].object \in ObjectsOfGroup(g) /\ leaveCalls(g)[i].busy # "log"
<1> DEFINE c == leaveCalls(g)
<1>1. /\ DOMAIN c = 1 .. 9
      /\ c[1].object = g.membership /\ c[1].busy = "throw"
      /\ c[2].object = g.ah /\ c[2].busy = "ignore"
      /\ c[3].object = g.qp /\ c[3].busy = "ignore"
      /\ c[4].object = g.scq /\ c[4].busy = "ignore"
      /\ c[5].object = g.rcq /\ c[5].busy = "ignore"
      /\ c[6].object = g.mr /\ c[6].busy = "ignore"
      /\ c[7].object = g.pd /\ c[7].busy = "ignore"
      /\ c[8].object = g.id /\ c[8].busy = "ignore"
      /\ c[9].object = g.channel /\ c[9].busy = "force"
  BY ONLY g \in Groups, g.active, CallsOfGroup
<1> HIDE DEF c
<1>2. i = 1 \/ i = 2 \/ i = 3 \/ i = 4 \/ i = 5 \/ i = 6 \/ i = 7 \/ i = 8 \/ i = 9
  <2>1. i \in DOMAIN c
    BY DEF c
  <2>2. i \in 1 .. 9
    BY <1>1, <2>1
  <2> QED
    BY ONLY <2>2
<1>3. c[i].object \in ObjectsOfGroup(g) /\ c[i].busy # "log"
  BY ONLY <1>1, <1>2 DEF ObjectsOfGroup
<1> QED
  BY <1>3 DEF c

\* No two calls for a group are for the same object.
LEMMA GroupCallsDifferent ==
    ASSUME NEW g \in Groups, g.active, NEW u, GroupOK(u, g)
    PROVE  Different(leaveCalls(g))
<1> DEFINE c == leaveCalls(g)
<1>1. /\ DOMAIN c = 1 .. 9
      /\ c[1].object = g.membership /\ c[2].object = g.ah /\ c[3].object = g.qp /\ c[4].object = g.scq
      /\ c[5].object = g.rcq /\ c[6].object = g.mr /\ c[7].object = g.pd /\ c[8].object = g.id
      /\ c[9].object = g.channel
  BY ONLY g \in Groups, g.active, CallsOfGroup
<1> HIDE DEF c
<1>2. /\ g.channel.type = "channel" /\ g.id.type = "id" /\ g.pd.type = "pd" /\ g.mr.type = "mr"
      /\ g.scq.type = "cq" /\ g.rcq.type = "cq" /\ g.qp.type = "qp"
      /\ g.membership.type = "membership" /\ g.ah.type = "ah" /\ g.scq # g.rcq
  BY DEF GroupOK
<1>3. ASSUME NEW p \in 1 .. 9, NEW r \in 1 .. 9, p < r PROVE c[p].object # c[r].object
  <2>1. p = 4 /\ r = 5 => c[p].object # c[r].object
    BY <1>1, <1>2
  <2>2. \A i \in 1 .. 9 : /\ c[i].object.type = "cq" <=> i = 4 \/ i = 5
                          /\ c[i].object.type = "membership" <=> i = 1
                          /\ c[i].object.type = "ah" <=> i = 2
                          /\ c[i].object.type = "qp" <=> i = 3
                          /\ c[i].object.type = "mr" <=> i = 6
                          /\ c[i].object.type = "pd" <=> i = 7
                          /\ c[i].object.type = "id" <=> i = 8
                          /\ c[i].object.type = "channel" <=> i = 9
    <3>1. ASSUME NEW i \in 1 .. 9 PROVE i = 1 \/ i = 2 \/ i = 3 \/ i = 4 \/ i = 5 \/ i = 6 \/ i = 7 \/ i = 8 \/ i = 9
      OBVIOUS
    <3> QED
      BY <1>1, <1>2, <3>1
  <2>3. p = 1 \/ p = 2 \/ p = 3 \/ p = 4 \/ p = 5 \/ p = 6 \/ p = 7 \/ p = 8 \/ p = 9
    OBVIOUS
  <2> QED
    BY <1>3, <2>1, <2>2, <2>3
<1> QED
  BY <1>1, <1>3 DEF Different, c

\* Users are first in them.
LEMMA GroupUsersFirst ==
    ASSUME NEW g \in Groups, g.active, NEW u, GroupOK(u, g), NEW C,
           \/ \A i \in 1 .. 9 : leaveCalls(g)[i] \in C
           \/ \A i \in 2 .. 9 : leaveCalls(g)[i] \notin C
    PROVE  UsersFirst(leaveCalls(g), u, C)
<1> DEFINE c == leaveCalls(g)
<1>1. /\ DOMAIN c = 1 .. 9
      /\ c[1].object = g.membership /\ c[2].object = g.ah /\ c[3].object = g.qp /\ c[4].object = g.scq
      /\ c[5].object = g.rcq /\ c[6].object = g.mr /\ c[7].object = g.pd /\ c[8].object = g.id
      /\ c[9].object = g.channel
  BY ONLY g \in Groups, g.active, CallsOfGroup
<1> HIDE DEF c
<1>2. ASSUME NEW p \in 1 .. 9, c[p] \in C, NEW o \in DOMAIN u, c[p].object \in u[o]
      PROVE  \E b \in 1 .. 9 : b < p /\ c[b] \in C /\ c[b].object = o
  <2>1. p = 1 \/ p = 2 \/ p = 3 \/ p = 4 \/ p = 5 \/ p = 6 \/ p = 7 \/ p = 8 \/ p = 9
    OBVIOUS
  <2>2. p # 1 => \A i \in 1 .. 9 : c[i] \in C
    <3>1. p # 1 => p \in 2 .. 9
      OBVIOUS
    <3> QED
      BY <1>2, <3>1 DEF c
  <2>3. /\ p # 1 /\ p # 2 /\ p # 6
        /\ p = 3 => o = c[1].object
        /\ p \in {4, 5} => o = c[3].object
        /\ p = 7 => o = c[6].object \/ o = c[3].object
        /\ p = 8 => o = c[3].object
        /\ p = 9 => o = c[8].object
    BY <1>1, <1>2 DEF GroupOK, Only
  <2> QED
    BY <2>1, <2>2, <2>3
<1> QED
  BY <1>1, <1>2 DEF UsersFirst, c

-----------------------------------------------------------------------------
(***************************************************************************)
(* The calls of the destructors                                            *)
(***************************************************************************)
\* Two queue pairs have nothing in common but a receive queue of Q.
LEMMA PairsApart ==
    ASSUME NEW u, NEW Q, NEW q, NEW r, PairOK(u, Q, q), PairOK(u, Q, r), q.qp # r.qp
    PROVE  PointersOf(q) \cap PointersOf(r) \subseteq Q
<1>1. /\ q.qp \in DOMAIN u /\ q.qp.type = "qp" /\ q.send_cq.type = "cq" /\ q.recv_cq.type = "cq"
      /\ q.send_cq \in u[q.qp] /\ q.recv_cq \in u[q.qp]
      /\ q.recv_cq \in Q \/ \A o \in DOMAIN u : q.recv_cq \in u[o] => o = q.qp
      /\ \A o \in DOMAIN u : q.send_cq \in u[o] => o = q.qp
  BY DEF PairOK, PointersOf, Only
<1>2. /\ r.qp \in DOMAIN u /\ r.qp.type = "qp" /\ r.send_cq.type = "cq" /\ r.recv_cq.type = "cq"
      /\ r.send_cq \in u[r.qp] /\ r.recv_cq \in u[r.qp]
      /\ r.recv_cq \in Q \/ \A o \in DOMAIN u : r.recv_cq \in u[o] => o = r.qp
      /\ \A o \in DOMAIN u : r.send_cq \in u[o] => o = r.qp
  BY DEF PairOK, PointersOf, Only
<1> QED
  BY ONLY <1>1, <1>2, q.qp # r.qp DEF PointersOf

\* The null pointer names no object.
LEMMA NullIsNone == nullptr \notin Objects /\ nullptr \in Pointers /\ nullptr.type = "null"
  BY DEF nullptr, Objects, Types, Pointers

\* They are those for the only one of some entries.
LEMMA OnePairPlaced ==
    ASSUME NEW q \in Pairs, q.qp # nullptr
    PROVE  /\ EntriesAt(destroyQP(q), [k \in {1} |-> q], [k \in {1} |-> 0])
           /\ Filled([k \in {1} |-> q]) = {1}
<1> DEFINE c == destroyQP(q)
           e == [k \in {1} |-> q]
           at == [k \in {1} |-> 0]
<1>1. /\ DOMAIN c = 1 .. 3 /\ c[1] = Call(q.qp, "throw") /\ c[2] = Call(q.send_cq, "throw")
      /\ c[3] = Call(q.recv_cq, "log")
  BY CallsOfPair
<1>2. DOMAIN e = {1} /\ e[1] = q /\ at[1] = 0 /\ Filled(e) = {1}
  BY DEF Filled
<1> HIDE DEF c, e, at
<1>3. \A p \in 1 .. 3 : p \in Nat /\ (p = 0 + 1 \/ p = 0 + 2 \/ p = 0 + 3)
  OBVIOUS
<1>4. EntriesAt(c, e, at)
  BY <1>1, <1>2, <1>3 DEF EntriesAt
<1> QED
  BY <1>2, <1>4 DEF c, e, at

\* They are made in a good order.
LEMMA PairCallsOK ==
    ASSUME NEW q \in Pairs, q.qp # nullptr, NEW u, NEW Q, PairOK(u, Q, q), q.recv_cq \notin Q,
           nullptr \notin DOMAIN u, NEW C, \A p \in 1 .. 3 : destroyQP(q)[p] \in C <=> destroyQP(q)[p].busy # "log"
    PROVE  /\ UsedBetween(destroyQP(q), u) /\ UsersFirst(destroyQP(q), u, C)
           /\ TriedAgain(destroyQP(q), u, C)
<1> DEFINE c == destroyQP(q)
           e == [k \in {1} |-> q]
           at == [k \in {1} |-> 0]
<1>1. EntriesAt(c, e, at) /\ Filled(e) = {1}
  BY OnePairPlaced
<1>2. DOMAIN e = {1} /\ e[1] = q /\ DOMAIN e \subseteq Nat /\ {e[i].qp : i \in DOMAIN e} = {q.qp}
  OBVIOUS
<1>3. DOMAIN c = 1 .. 3
  BY CallsOfPair
<1>4. \A p \in DOMAIN c : c[p] \in C <=> c[p].busy # "log"
  BY <1>3
<1> HIDE DEF c, e, at
<1>5. EntriesOK(e, u, Q)
  BY <1>1, <1>2 DEF EntriesOK
<1>6. \A k \in Filled(e) : Only(u, e[k].recv_cq, {e[i].qp : i \in DOMAIN e})
  BY <1>1, <1>2 DEF PairOK
<1>7. UsersFirst(c, u, C)
  BY <1>1, <1>4, <1>5, EntryUsersFirst
<1>8. UsedBetween(c, u)
  BY <1>1, <1>2, <1>5, EntryUsedBetween
<1>9. TriedAgain(c, u, C)
  BY <1>1, <1>2, <1>4, <1>5, <1>6, EntriesTriedAgain
<1> QED
  BY <1>7, <1>8, <1>9 DEF c

\* What the calls of a destructor for the members of its transport must be like.
CallsOK(D) ==
    /\ D \in Seq(Calls)
    /\ \A p \in DOMAIN D : /\ D[p].object \in Alive \ Base
                           /\ D[p].busy = "log" => D[p].object.type = "cq"
    /\ UsedBetween(D, uses)
    /\ NothingLost => UsersFirst(D, uses, Throws)
    /\ faults = << >> => UsersFirst(D, uses, Firm(m_res)) /\ TriedAgain(D, uses, Firm(m_res))
    /\ \A o \in Alive : Named(o) =>
          \/ \E p \in DOMAIN D : D[p].object = o /\ (D[p].busy # "log" \/ o.type = "cq")
          \/ o \in SrqQueues /\ \A k \in DOMAIN m_qps : m_qps[k].recv_cq # o

\* The calls for the shared receive queues.
SrqCalls == [k \in DOMAIN m_srqs |-> Call(m_srqs[k].shared_rq, "throw")]

\* They are what they are for.
LEMMA SrqCallsPlaced ==
    ASSUME QueuePairsTypeOK
    PROVE  /\ SrqCalls \in Seq(Calls) /\ DOMAIN SrqCalls = DOMAIN m_srqs
           /\ \A k \in DOMAIN m_srqs : SrqCalls[k] = Call(m_srqs[k].shared_rq, "throw")
<1>1. m_srqs \in Seq([shared_rq : Objects, recv_cq : Objects])
  BY DEF QueuePairsTypeOK
<1>2. /\ Len(m_srqs) \in Nat /\ DOMAIN m_srqs = 1 .. Len(m_srqs)
      /\ \A k \in 1 .. Len(m_srqs) : m_srqs[k] \in [shared_rq : Objects, recv_cq : Objects]
  BY <1>1, LenProperties, ElementOfSeq
<1>3. \A k \in 1 .. Len(m_srqs) : Call(m_srqs[k].shared_rq, "throw") \in Calls
  BY <1>2 DEF Calls, Call, Pointers
<1>4. SrqCalls \in [1 .. Len(m_srqs) -> Calls]
  BY <1>2, <1>3 DEF SrqCalls
<1>5. SrqCalls \in Seq(Calls)
  BY <1>2, <1>4, SeqDef
<1> QED
  BY <1>5 DEF SrqCalls

\* The memory, the protection domain, the registration and the device are not queues.
LEMMA BaseTypes ==
    ASSUME BaseOK, phase \in {"base", "running"}, NEW o, o \in Base
    PROVE  o.type \in {"ib_ctx", "buffer", "pd", "mr"} /\ o \in Alive
BY DEF BaseOK, Base

\* The calls of ~ReliableRDMA.
LEMMA ReliableCalls ==
    ASSUME QueuePairsTypeOK, BaseOK, ReliableOK, SrqsOK, phase = "running", transport = "rc", qp = NoQp
    PROVE  CallsOK(destroyQPs(m_qps, m_srqs))
<1> DEFINE a == EntryCalls(m_qps)
           b == SrqCalls
           D == a \o b
           Used0 == Filled(m_qps)
<1> USE DEF Alive
<1>1. destroyQPs(m_qps, m_srqs) = D
  BY DEF destroyQPs, EntryCalls, SrqCalls
<1>2. /\ m_qps \in Seq(Pairs) /\ Alive \subseteq Objects /\ nullptr \notin Alive
      /\ DOMAIN m_qps \subseteq Nat /\ \A k \in DOMAIN m_qps : m_qps[k] \in Pairs
  <2>1. m_qps \in Seq(Pairs) /\ Alive \subseteq Objects
    BY DEF QueuePairsTypeOK
  <2>2. DOMAIN m_qps \subseteq Nat /\ \A k \in DOMAIN m_qps : m_qps[k] \in Pairs
    BY <2>1, LenProperties, ElementOfSeq
  <2> QED
    BY <2>1, <2>2, NullIsNone
<1>3. a \in Seq(Calls) /\ \E at : EntriesAt(a, m_qps, at)
  BY <1>2, EntryCallsPlaced
<1>4. PICK at : EntriesAt(a, m_qps, at)
  BY <1>3
<1>5. /\ b \in Seq(Calls) /\ DOMAIN b = DOMAIN m_srqs
      /\ \A k \in DOMAIN m_srqs : b[k] = Call(m_srqs[k].shared_rq, "throw")
  BY SrqCallsPlaced
<1> HIDE DEF a, b
<1>6. Used0 = Used /\ EntriesOK(m_qps, uses, SrqQueues)
  <2>1. ASSUME NEW k \in DOMAIN m_qps, m_qps[k] # NoQp PROVE m_qps[k].qp # nullptr
    <3>1. PairOK(uses, SrqQueues, m_qps[k])
      BY <2>1 DEF ReliableOK, Used
    <3>2. m_qps[k].qp \in Alive
      BY <3>1 DEF PairOK, PointersOf
    <3> QED
      BY <1>2, <3>2
  <2>2. Used0 = Used
    BY <2>1 DEF Filled, Used, NoQp
  <2> QED
    BY <2>2 DEF EntriesOK, ReliableOK
<1> HIDE DEF Used0
<1>7. \A k \in Used : /\ PairOK(uses, SrqQueues, m_qps[k]) /\ PointersOf(m_qps[k]) \subseteq Alive
                      /\ m_qps[k].qp.type = "qp" /\ m_qps[k].send_cq.type = "cq" /\ m_qps[k].recv_cq.type = "cq"
  <2>1. \A k \in Used : PairOK(uses, SrqQueues, m_qps[k])
    BY DEF ReliableOK
  <2> QED
    BY <2>1 DEF PairOK
<1>8. ASSUME NEW p \in DOMAIN a
      PROVE  /\ a[p].object \in Alive /\ a[p].object.type \in {"qp", "cq"} /\ a[p].busy \in {"throw", "log"}
             /\ a[p].busy = "log" => a[p].object.type = "cq"
  <2>1. PICK k \in Used : p = at[k] + 1 \/ p = at[k] + 2 \/ p = at[k] + 3
    BY <1>4, <1>6 DEF EntriesAt, Used0
  <2>2. /\ a[at[k] + 1] = Call(m_qps[k].qp, "throw") /\ a[at[k] + 2] = Call(m_qps[k].send_cq, "throw")
        /\ a[at[k] + 3] = Call(m_qps[k].recv_cq, "log")
    BY <1>4, <1>6 DEF EntriesAt, Used0
  <2>3. \E x \in PointersOf(m_qps[k]) : \E y \in {"throw", "log"} :
           a[p] = Call(x, y) /\ (y = "log" => x = m_qps[k].recv_cq)
    BY <2>1, <2>2 DEF PointersOf
  <2> QED
    BY <1>7, <2>3 DEF Call, PointersOf
<1>9. ASSUME NEW s \in DOMAIN b
      PROVE  /\ b[s].object = m_srqs[s].shared_rq /\ b[s].busy = "throw"
             /\ b[s].object \in Alive /\ b[s].object.type = "srq"
  BY <1>5 DEF SrqsOK, Call
<1>10. /\ Len(a) \in Nat /\ D \in Seq(Calls)
       /\ \A p \in DOMAIN a : p \in DOMAIN D /\ D[p] = a[p]
       /\ \A p \in DOMAIN b : Len(a) + p \in DOMAIN D /\ D[Len(a) + p] = b[p]
       /\ \A p \in DOMAIN D : p \in DOMAIN a \/ \E q \in DOMAIN b : p = Len(a) + q
  <2>1. a \in Seq(Calls)
    BY <1>3
  <2>2. b \in Seq(Calls)
    BY <1>5
  <2> QED
    BY ONLY <2>1, <2>2, ConcatOfCalls, SMTT(30)
<1> HIDE DEF D
<1>11. \A p \in DOMAIN D : D[p].object \in Alive \ Base /\ (D[p].busy = "log" => D[p].object.type = "cq")
  <2>1. ASSUME NEW p \in DOMAIN D
        PROVE  /\ D[p].object \in Alive /\ D[p].object.type \in {"qp", "cq", "srq"}
               /\ D[p].busy = "log" => D[p].object.type = "cq"
    BY <1>8, <1>9, <1>10
  <2> QED
    BY <2>1, BaseTypes
<1>12. UsedBetween(D, uses)
  <2>1. UsedBetween(a, uses)
    BY <1>2, <1>4, <1>6, EntryUsedBetween
  <2>2. UsedBetween(b, uses)
    BY <1>5, <1>9 DEF UsedBetween, SrqsOK
  <2>3. \A p \in DOMAIN a, r \in DOMAIN b : a[p].object # b[r].object
    BY <1>8, <1>9
  <2> QED
    BY <1>3, <1>5, <2>1, <2>2, <2>3, UsedBetweenInConcat DEF D
<1>13. ASSUME NothingLost, NEW C, \A p \in DOMAIN a : a[p] \in C <=> a[p].busy # "log"
       PROVE  UsersFirst(D, uses, C)
  <2>1. UsersFirst(a, uses, C)
    BY <1>4, <1>6, <1>13, EntryUsersFirst
  <2>2. ASSUME NEW p \in DOMAIN b, NEW o \in Alive, b[p].object \in uses[o]
        PROVE  \E i \in DOMAIN a : a[i] \in C /\ a[i].object = o
    <3>1. o \in EntryQps
      BY <1>5, <1>9, <1>13, <2>2 DEF SrqsOK, Only
    <3>2. PICK k \in DOMAIN m_qps : m_qps[k].qp = o
      BY <3>1 DEF EntryQps
    <3>3. k \in Used0
      BY <1>2, <3>2 DEF Filled, Used0
    <3>4. at[k] + 1 \in DOMAIN a /\ a[at[k] + 1] = Call(o, "throw")
      BY <1>4, <3>2, <3>3 DEF EntriesAt, Used0
    <3>5. a[at[k] + 1].object = o /\ a[at[k] + 1].busy # "log"
      BY <3>4 DEF Call
    <3> QED
      BY <1>13, <3>4, <3>5
  <2>3. \A p \in DOMAIN b : b[p] \in C => \A o \in DOMAIN uses : b[p].object \in uses[o] =>
             \/ \E i \in DOMAIN a : a[i] \in C /\ a[i].object = o
             \/ \E i \in DOMAIN b : i < p /\ b[i] \in C /\ b[i].object = o
    BY <2>2
  <2> QED
    BY ONLY <1>3, <1>5, <2>1, <2>3, UsersFirstInConcat DEF D
<1>14. \A p \in DOMAIN a : a[p] \in Calls
  BY <1>3, ElementOfSeq, LenProperties
<1>15. \A p \in DOMAIN a : a[p] \in Throws <=> a[p].busy # "log"
  BY <1>8, <1>14 DEF Throws
<1>16. \A p \in DOMAIN a : a[p] \in Firm(m_res) <=> a[p].busy # "log"
  BY <1>8, <1>14 DEF Firm, Call
<1>17. ASSUME faults = << >> PROVE TriedAgain(D, uses, Firm(m_res)) /\ NothingLost
  <2>1. NothingLost
    BY <1>17 DEF NothingLost, Range
  <2>2. ASSUME NEW k \in Used0 PROVE Only(uses, m_qps[k].recv_cq, {m_qps[i].qp : i \in DOMAIN m_qps})
    <3>1. m_qps[k].recv_cq \in SrqQueues \/ Only(uses, m_qps[k].recv_cq, {m_qps[k].qp})
      BY <1>6, <1>7 DEF PairOK
    <3>2. m_qps[k].recv_cq \in SrqQueues => Only(uses, m_qps[k].recv_cq, EntryQps)
      BY <2>1 DEF SrqsOK, SrqQueues
    <3>3. k \in DOMAIN m_qps
      BY DEF Used0, Filled
    <3> QED
      BY <3>1, <3>2, <3>3 DEF Only, EntryQps
  <2>3. \A k \in Filled(m_qps) : Only(uses, m_qps[k].recv_cq, {m_qps[i].qp : i \in DOMAIN m_qps})
    BY <2>2 DEF Used0
  <2>4. TriedAgain(a, uses, Firm(m_res))
    BY <1>2, <1>4, <1>6, <1>16, <2>3, EntriesTriedAgain
  <2>5. \A p \in DOMAIN b : b[p].busy = "log" => \A o \in DOMAIN uses : b[p].object \in uses[o] =>
             \E i \in DOMAIN b : i < p /\ b[i] \in Firm(m_res) /\ b[i].object = o
    BY <1>9
  <2> QED
    BY ONLY <1>3, <1>5, <2>1, <2>4, <2>5, TriedAgainInConcat DEF D
<1>18. ASSUME NEW o \in Alive, Named(o)
       PROVE  \/ \E p \in DOMAIN D : D[p].object = o /\ (D[p].busy # "log" \/ o.type = "cq")
              \/ o \in SrqQueues /\ \A k \in DOMAIN m_qps : m_qps[k].recv_cq # o
  <2>1. o # nullptr /\ o \notin PointersOf(qp) /\ o \notin PointersOf(m_udqp) /\ ActiveKeys = {}
    BY <1>2 DEF ReliableOK, PointersOf, NoQp, ActiveKeys
  <2>2. ASSUME NEW k \in DOMAIN m_qps, o \in PointersOf(m_qps[k])
        PROVE  \E p \in DOMAIN D : D[p].object = o /\ (D[p].busy # "log" \/ o.type = "cq")
    <3>1. k \in Used
      BY <2>1, <2>2 DEF Used, PointersOf, NoQp
    <3>2. /\ at[k] + 1 \in DOMAIN a /\ a[at[k] + 1] = Call(m_qps[k].qp, "throw")
          /\ at[k] + 2 \in DOMAIN a /\ a[at[k] + 2] = Call(m_qps[k].send_cq, "throw")
          /\ at[k] + 3 \in DOMAIN a /\ a[at[k] + 3] = Call(m_qps[k].recv_cq, "log")
      BY <1>4, <1>6, <3>1 DEF EntriesAt, Used0
    <3>3. \E p \in DOMAIN a : a[p].object = o /\ (a[p].busy # "log" \/ o.type = "cq")
      BY <1>7, <2>2, <3>1, <3>2 DEF Call, PointersOf
    <3> QED
      BY <1>10, <3>3
  <2>3. ASSUME NEW s \in DOMAIN m_srqs, o = m_srqs[s].shared_rq
        PROVE  \E p \in DOMAIN D : D[p].object = o /\ (D[p].busy # "log" \/ o.type = "cq")
    <3>1. s \in DOMAIN b
      BY <1>5
    <3>2. b[s].object = o /\ b[s].busy # "log"
      BY <1>9, <2>3, <3>1
    <3> QED
      BY <1>10, <3>1, <3>2
  <2>4. ASSUME o \in SrqQueues, NEW k \in DOMAIN m_qps, m_qps[k].recv_cq = o
        PROVE  \E p \in DOMAIN D : D[p].object = o /\ (D[p].busy # "log" \/ o.type = "cq")
    BY <2>2, <2>4 DEF PointersOf
  <2> QED
    BY <1>18, <2>1, <2>2, <2>3, <2>4 DEF Named
<1>19. NothingLost => UsersFirst(D, uses, Throws)
  BY <1>13, <1>15
<1>20. faults = << >> => UsersFirst(D, uses, Firm(m_res)) /\ TriedAgain(D, uses, Firm(m_res))
  BY <1>13, <1>16, <1>17
<1> QED
  BY <1>1, <1>10, <1>11, <1>12, <1>18, <1>19, <1>20 DEF CallsOK

\* Each object of a group that is joined is asked for.
LEMMA GroupObjectsCalled ==
    ASSUME NEW g \in Groups, g.active, NEW o \in ObjectsOfGroup(g)
    PROVE  \E i \in DOMAIN leaveCalls(g) : leaveCalls(g)[i].object = o
<1> DEFINE c == leaveCalls(g)
<1>1. /\ DOMAIN c = 1 .. 9
      /\ c[1].object = g.membership /\ c[2].object = g.ah /\ c[3].object = g.qp /\ c[4].object = g.scq
      /\ c[5].object = g.rcq /\ c[6].object = g.mr /\ c[7].object = g.pd /\ c[8].object = g.id
      /\ c[9].object = g.channel
  BY ONLY g \in Groups, g.active, CallsOfGroup
<1> HIDE DEF c
<1>2. \E i \in 1 .. 9 : c[i].object = o
  BY <1>1 DEF ObjectsOfGroup
<1> QED
  BY <1>1, <1>2 DEF c

\* The calls for the groups, one list for each.
GroupCalls == [k \in DOMAIN m_udpMcastConns |-> leaveCalls(m_udpMcastConns[k])]

\* What these lists are.
LEMMA GroupCallsPlaced ==
    ASSUME QueuePairsTypeOK
    PROVE  /\ GroupCalls \in Seq(Seq(Calls)) /\ DOMAIN GroupCalls = DOMAIN m_udpMcastConns
           /\ \A k \in DOMAIN GroupCalls :
                 /\ GroupCalls[k] = leaveCalls(m_udpMcastConns[k]) /\ m_udpMcastConns[k] \in Groups
                 /\ k \notin ActiveKeys => GroupCalls[k] = << >>
<1>1. m_udpMcastConns \in Seq(Groups)
  BY DEF QueuePairsTypeOK
<1>2. /\ Len(m_udpMcastConns) \in Nat /\ DOMAIN m_udpMcastConns = 1 .. Len(m_udpMcastConns)
      /\ \A k \in 1 .. Len(m_udpMcastConns) : m_udpMcastConns[k] \in Groups
  BY <1>1, LenProperties, ElementOfSeq
<1>3. ASSUME NEW k \in 1 .. Len(m_udpMcastConns)
      PROVE  /\ leaveCalls(m_udpMcastConns[k]) \in Seq(Calls)
             /\ k \notin ActiveKeys => leaveCalls(m_udpMcastConns[k]) = << >>
  <2>1. CASE m_udpMcastConns[k].active
    BY <1>2, <2>1, CallsOfGroup DEF ActiveKeys
  <2>2. CASE ~m_udpMcastConns[k].active
    BY <2>2 DEF leaveCalls
  <2> QED
    BY <2>1, <2>2
<1>4. GroupCalls \in [1 .. Len(m_udpMcastConns) -> Seq(Calls)]
  BY <1>2, <1>3 DEF GroupCalls
<1>5. GroupCalls \in Seq(Seq(Calls))
  BY <1>2, <1>4, SeqDef
<1>6. DOMAIN GroupCalls = 1 .. Len(m_udpMcastConns)
  BY <1>2 DEF GroupCalls
<1>7. \A k \in 1 .. Len(m_udpMcastConns) : GroupCalls[k] = leaveCalls(m_udpMcastConns[k])
  BY <1>2 DEF GroupCalls
<1> QED
  BY <1>2, <1>3, <1>5, <1>6, <1>7

\* All of them together.
LEMMA AllGroupCalls ==
    ASSUME QueuePairsTypeOK, UnreliableOK, transport = "ud", phase = "running"
    PROVE  /\ FlattenSeq(GroupCalls) \in Seq(Calls) /\ Different(FlattenSeq(GroupCalls))
           /\ \A p \in DOMAIN FlattenSeq(GroupCalls) :
                 /\ \E k \in ActiveKeys : FlattenSeq(GroupCalls)[p].object \in ObjectsOfGroup(m_udpMcastConns[k])
                 /\ FlattenSeq(GroupCalls)[p].busy # "log"
           /\ \A k \in ActiveKeys : \A o \in ObjectsOfGroup(m_udpMcastConns[k]) :
                 \E p \in DOMAIN FlattenSeq(GroupCalls) : FlattenSeq(GroupCalls)[p].object = o
           /\ UsersFirst(FlattenSeq(GroupCalls), uses, Throws)
           /\ UsersFirst(FlattenSeq(GroupCalls), uses, Firm(m_res))
<1> DEFINE seqs == GroupCalls
           c == FlattenSeq(seqs)
<1>1. /\ seqs \in Seq(Seq(Calls)) /\ DOMAIN seqs = DOMAIN m_udpMcastConns
      /\ \A k \in DOMAIN seqs : /\ seqs[k] = leaveCalls(m_udpMcastConns[k]) /\ m_udpMcastConns[k] \in Groups
                                /\ k \notin ActiveKeys => seqs[k] = << >>
  BY GroupCallsPlaced
<1> HIDE DEF seqs, c
<1>2. c \in Seq(Calls)
  BY <1>1, FlattenLayout DEF c
<1>3. PICK start : Layout(seqs, Len(seqs), c, start)
  BY <1>1, FlattenLayout DEF c
<1>4. /\ \A k \in DOMAIN seqs : \A i \in DOMAIN seqs[k] :
            start[k] + i \in DOMAIN c /\ c[start[k] + i] = seqs[k][i]
      /\ \A p \in DOMAIN c : \E k \in DOMAIN seqs : \E i \in DOMAIN seqs[k] : p = start[k] + i
  BY <1>1, <1>3, CallsOfAll DEF c
<1>5. \A k \in ActiveKeys : /\ k \in DOMAIN seqs /\ m_udpMcastConns[k].active
                            /\ GroupOK(uses, m_udpMcastConns[k])
                            /\ ObjectsOfGroup(m_udpMcastConns[k]) \cap Base = {}
  BY <1>1 DEF ActiveKeys, UnreliableOK
<1>6. ASSUME NEW k \in DOMAIN seqs, NEW i \in DOMAIN seqs[k]
      PROVE  /\ k \in ActiveKeys /\ seqs[k][i].object \in ObjectsOfGroup(m_udpMcastConns[k])
             /\ seqs[k][i].busy # "log" /\ seqs[k][i] \in Calls
  <2>1. k \in ActiveKeys
    BY <1>1
  <2>2. m_udpMcastConns[k] \in Groups /\ m_udpMcastConns[k].active /\ seqs[k] = leaveCalls(m_udpMcastConns[k])
    BY <1>1, <1>5, <2>1
  <2>3. seqs[k] \in Seq(Calls)
    BY <2>2, CallsOfGroup
  <2>4. seqs[k][i] \in Calls
    BY <2>3, LenProperties, ElementOfSeq
  <2> QED
    BY <2>1, <2>2, <2>4, CallOfGroup
<1>7. ASSUME NEW p \in DOMAIN c
      PROVE  /\ \E k \in ActiveKeys : c[p].object \in ObjectsOfGroup(m_udpMcastConns[k])
             /\ c[p].busy # "log"
  <2>1. PICK k \in DOMAIN seqs : \E i \in DOMAIN seqs[k] : p = start[k] + i
    BY <1>4
  <2>2. PICK i \in DOMAIN seqs[k] : p = start[k] + i
    BY <2>1
  <2>3. c[p] = seqs[k][i]
    BY <1>4, <2>2
  <2> QED
    BY <1>6, <2>3
<1>8. ASSUME NEW k \in ActiveKeys, NEW o \in ObjectsOfGroup(m_udpMcastConns[k])
      PROVE  \E p \in DOMAIN c : c[p].object = o
  <2>1. PICK i \in DOMAIN seqs[k] : seqs[k][i].object = o
    <3>1. /\ m_udpMcastConns[k] \in Groups /\ m_udpMcastConns[k].active
          /\ seqs[k] = leaveCalls(m_udpMcastConns[k])
      BY <1>1, <1>5
    <3> QED
      BY <3>1, GroupObjectsCalled
  <2> QED
    BY <1>4, <1>5, <2>1
<1>9. Different(c)
  <2>1. ASSUME NEW k \in DOMAIN seqs PROVE Different(seqs[k])
    <3>1. CASE k \in ActiveKeys
      <4>1. /\ m_udpMcastConns[k] \in Groups /\ m_udpMcastConns[k].active
            /\ seqs[k] = leaveCalls(m_udpMcastConns[k]) /\ GroupOK(uses, m_udpMcastConns[k])
        BY <1>1, <1>5, <3>1
      <4> QED
        BY <4>1, GroupCallsDifferent
    <3>2. CASE k \notin ActiveKeys
      BY <1>1, <3>2 DEF Different
    <3> QED
      BY <3>1, <3>2
  <2>2. ASSUME NEW j \in DOMAIN seqs, NEW k \in DOMAIN seqs, j # k, NEW i \in DOMAIN seqs[j], NEW l \in DOMAIN seqs[k]
        PROVE  seqs[j][i].object # seqs[k][l].object
    <3>1. j \in ActiveKeys /\ k \in ActiveKeys
      BY <1>6
    <3>2. ObjectsOfGroup(m_udpMcastConns[j]) \cap ObjectsOfGroup(m_udpMcastConns[k]) = {}
      BY <2>2, <3>1 DEF UnreliableOK
    <3> QED
      BY <1>6, <3>2
  <2> QED
    BY <1>1, <2>1, <2>2, DifferentInAll DEF c
<1>10. ASSUME NEW C, \/ \A k \in DOMAIN seqs : \A i \in DOMAIN seqs[k] : seqs[k][i] \in C
                     \/ C = Throws
       PROVE  UsersFirst(c, uses, C)
  <2>1. ASSUME NEW k \in DOMAIN seqs PROVE UsersFirst(seqs[k], uses, C)
    <3>1. CASE k \in ActiveKeys
      <4>1. /\ m_udpMcastConns[k] \in Groups /\ m_udpMcastConns[k].active
            /\ seqs[k] = leaveCalls(m_udpMcastConns[k]) /\ GroupOK(uses, m_udpMcastConns[k])
        BY <1>1, <1>5, <3>1
      <4>2. DOMAIN seqs[k] = 1 .. 9 /\ \A i \in 2 .. 9 : seqs[k][i].busy \in {"ignore", "force"}
        <5> DEFINE d == leaveCalls(m_udpMcastConns[k])
        <5>1. /\ DOMAIN d = 1 .. 9 /\ d[2].busy = "ignore" /\ d[3].busy = "ignore" /\ d[4].busy = "ignore"
              /\ d[5].busy = "ignore" /\ d[6].busy = "ignore" /\ d[7].busy = "ignore" /\ d[8].busy = "ignore"
              /\ d[9].busy = "force"
          BY <4>1, CallsOfGroup
        <5> HIDE DEF d
        <5>2. ASSUME NEW i \in 2 .. 9
              PROVE  i = 2 \/ i = 3 \/ i = 4 \/ i = 5 \/ i = 6 \/ i = 7 \/ i = 8 \/ i = 9
          OBVIOUS
        <5>3. \A i \in 2 .. 9 : d[i].busy \in {"ignore", "force"}
          BY <5>1, <5>2
        <5> QED
          BY <4>1, <5>1, <5>3 DEF d
      <4>3. \/ \A i \in 1 .. 9 : leaveCalls(m_udpMcastConns[k])[i] \in C
            \/ \A i \in 2 .. 9 : leaveCalls(m_udpMcastConns[k])[i] \notin C
        BY <1>10, <4>1, <4>2 DEF Throws
      <4> QED
        BY <4>1, <4>3, GroupUsersFirst
    <3>2. CASE k \notin ActiveKeys
      BY <1>1, <3>2 DEF UsersFirst
    <3> QED
      BY <3>1, <3>2
  <2> QED
    BY <1>1, <2>1, UsersFirstInAll DEF c
<1>11. ASSUME NEW k \in DOMAIN seqs, NEW i \in DOMAIN seqs[k] PROVE seqs[k][i] \in Firm(m_res)
  <2>1. seqs[k][i].object \notin Base /\ seqs[k][i].busy # "log" /\ seqs[k][i] \in Calls
    BY <1>5, <1>6
  <2> QED
    BY <2>1 DEF Firm, Call, Base
<1>12. UsersFirst(c, uses, Throws) /\ UsersFirst(c, uses, Firm(m_res))
  BY <1>10, <1>11
<1> QED
  BY <1>2, <1>7, <1>8, <1>9, <1>12 DEF c, seqs

\* There is nothing between two calls for the same object when there are no two.
LEMMA DifferentNotBetween ==
    ASSUME NEW cs, NEW u, Different(cs)
    PROVE  UsedBetween(cs, u)
BY DEF Different, UsedBetween

\* The calls of ~UnreliableRDMA.
LEMMA UnreliableCalls ==
    ASSUME QueuePairsTypeOK, BaseOK, UnreliableOK, phase = "running", transport = "ud", qp = NoQp
    PROVE  CallsOK(destroyUdQPs(m_udpMcastConns, m_udqp))
<1> DEFINE a == FlattenSeq(GroupCalls)
           b == destroyQP(m_udqp)
           D == a \o b
<1> USE DEF Alive
<1>1. destroyUdQPs(m_udpMcastConns, m_udqp) = D
  BY DEF destroyUdQPs, GroupCalls
<1>2. Alive \subseteq Objects /\ nullptr \notin Alive /\ m_udqp \in Pairs
  <2>1. Alive \subseteq Objects /\ m_udqp \in Pairs
    BY DEF QueuePairsTypeOK
  <2> QED
    BY <2>1, NullIsNone
<1>3. /\ PairOK(uses, {}, m_udqp) /\ PointersOf(m_udqp) \subseteq Alive
      /\ m_udqp.qp.type = "qp" /\ m_udqp.send_cq.type = "cq" /\ m_udqp.recv_cq.type = "cq"
      /\ m_udqp.qp # nullptr
  <2>1. PairOK(uses, {}, m_udqp)
    BY DEF UnreliableOK
  <2> QED
    BY <1>2, <2>1 DEF PairOK, PointersOf
<1>4. /\ a \in Seq(Calls) /\ Different(a)
      /\ \A p \in DOMAIN a : /\ \E k \in ActiveKeys : a[p].object \in ObjectsOfGroup(m_udpMcastConns[k])
                             /\ a[p].busy # "log"
      /\ \A k \in ActiveKeys : \A o \in ObjectsOfGroup(m_udpMcastConns[k]) :
            \E p \in DOMAIN a : a[p].object = o
      /\ UsersFirst(a, uses, Throws) /\ UsersFirst(a, uses, Firm(m_res))
  BY AllGroupCalls
<1>5. /\ b \in Seq(Calls) /\ DOMAIN b = 1 .. 3
      /\ b[1] = Call(m_udqp.qp, "throw") /\ b[2] = Call(m_udqp.send_cq, "throw")
      /\ b[3] = Call(m_udqp.recv_cq, "log")
  BY <1>2, CallsOfPair
<1> HIDE DEF a, b
<1>6. \A p \in DOMAIN b : /\ b[p].object \in PointersOf(m_udqp) /\ b[p].object.type \in {"qp", "cq"}
                          /\ b[p].busy \in {"throw", "log"} /\ b[p] \in Calls
                          /\ b[p].busy = "log" => b[p].object.type = "cq"
  <2>1. ASSUME NEW p \in 1 .. 3 PROVE p = 1 \/ p = 2 \/ p = 3
    OBVIOUS
  <2>2. \A p \in 1 .. 3 : b[p] \in Calls
    BY <1>5, ElementOfSeq, LenProperties
  <2> QED
    BY <1>3, <1>5, <2>1, <2>2 DEF Call, PointersOf
<1>7. ASSUME NEW k \in ActiveKeys
      PROVE  /\ ObjectsOfGroup(m_udpMcastConns[k]) \subseteq Alive \ Base
             /\ ObjectsOfGroup(m_udpMcastConns[k]) \cap PointersOf(m_udqp) = {}
  BY DEF UnreliableOK, GroupOK
<1>8. /\ Len(a) \in Nat /\ D \in Seq(Calls)
      /\ \A p \in DOMAIN a : p \in DOMAIN D /\ D[p] = a[p]
      /\ \A p \in DOMAIN b : Len(a) + p \in DOMAIN D /\ D[Len(a) + p] = b[p]
      /\ \A p \in DOMAIN D : p \in DOMAIN a \/ \E q \in DOMAIN b : p = Len(a) + q
  <2>1. a \in Seq(Calls)
    BY <1>4
  <2>2. b \in Seq(Calls)
    BY <1>5
  <2> QED
    BY ONLY <2>1, <2>2, ConcatOfCalls, SMTT(30)
<1> HIDE DEF D
<1>9. \A p \in DOMAIN D : D[p].object \in Alive \ Base /\ (D[p].busy = "log" => D[p].object.type = "cq")
  <2>1. \A p \in DOMAIN a : a[p].object \in Alive \ Base /\ a[p].busy # "log"
    BY <1>4, <1>7
  <2>2. \A p \in DOMAIN b : b[p].object \in Alive \ Base /\ (b[p].busy = "log" => b[p].object.type = "cq")
    BY <1>3, <1>6, BaseTypes
  <2> QED
    BY <1>8, <2>1, <2>2
<1>10. \A p \in DOMAIN b : b[p] \in Throws <=> b[p].busy # "log"
  BY <1>6 DEF Throws
<1>11. \A p \in DOMAIN b : b[p] \in Firm(m_res) <=> b[p].busy # "log"
  BY <1>6 DEF Firm, Call
<1>12. ASSUME NEW C, \A p \in DOMAIN b : b[p] \in C <=> b[p].busy # "log"
       PROVE  UsedBetween(b, uses) /\ UsersFirst(b, uses, C) /\ TriedAgain(b, uses, C)
  <2>1. \A p \in 1 .. 3 : destroyQP(m_udqp)[p] \in C <=> destroyQP(m_udqp)[p].busy # "log"
    BY <1>5, <1>12 DEF b
  <2> QED
    BY <1>2, <1>3, <2>1, PairCallsOK DEF b
<1>13. UsedBetween(D, uses)
  <2>1. UsedBetween(a, uses) /\ UsedBetween(b, uses)
    BY <1>4, <1>10, <1>12, DifferentNotBetween
  <2>2. \A p \in DOMAIN a, r \in DOMAIN b : a[p].object # b[r].object
    BY <1>4, <1>6, <1>7
  <2> QED
    BY <1>4, <1>5, <2>1, <2>2, UsedBetweenInConcat DEF D
<1>14. ASSUME NEW C, UsersFirst(a, uses, C), \A p \in DOMAIN b : b[p] \in C <=> b[p].busy # "log"
       PROVE  UsersFirst(D, uses, C)
  <2>1. \A p \in DOMAIN b : b[p] \in C => \A o \in DOMAIN uses : b[p].object \in uses[o] =>
             \/ \E i \in DOMAIN a : a[i] \in C /\ a[i].object = o
             \/ \E i \in DOMAIN b : i < p /\ b[i] \in C /\ b[i].object = o
    BY <1>12, <1>14 DEF UsersFirst
  <2> QED
    BY ONLY <1>4, <1>5, <1>14, <2>1, UsersFirstInConcat DEF D
<1>15. TriedAgain(D, uses, Firm(m_res))
  <2>1. TriedAgain(a, uses, Firm(m_res))
    BY <1>4 DEF TriedAgain
  <2>2. \A p \in DOMAIN b : b[p].busy = "log" => \A o \in DOMAIN uses : b[p].object \in uses[o] =>
             \E i \in DOMAIN b : i < p /\ b[i] \in Firm(m_res) /\ b[i].object = o
    <3>1. ASSUME NEW p \in DOMAIN b, b[p].busy = "log", NEW o \in DOMAIN uses, b[p].object \in uses[o]
          PROVE  \E i \in DOMAIN b : i < p /\ b[i] \in Firm(m_res) /\ b[i].object = o
      <4>1. b[1].busy = "throw" /\ b[2].busy = "throw" /\ b[1].object = m_udqp.qp /\ b[3].object = m_udqp.recv_cq
        BY <1>5 DEF Call
      <4>2. p = 3 /\ 1 \in DOMAIN b /\ 1 < 3
        BY <1>5, <3>1, <4>1
      <4>3. o = m_udqp.qp
        BY <1>3, <3>1, <4>1, <4>2 DEF PairOK, Only
      <4> QED
        BY <1>11, <4>1, <4>2, <4>3
    <3> QED
      BY <3>1
  <2> QED
    BY ONLY <1>4, <1>5, <2>1, <2>2, TriedAgainInConcat DEF D
<1>16. ASSUME NEW o \in Alive, Named(o)
       PROVE  \E p \in DOMAIN D : D[p].object = o /\ (D[p].busy # "log" \/ o.type = "cq")
  <2>1. o # nullptr /\ o \notin PointersOf(NoQp) /\ DOMAIN m_srqs = {}
    BY <1>2 DEF UnreliableOK, PointersOf, NoQp
  <2>2. o \in PointersOf(m_udqp) \/ \E k \in ActiveKeys : o \in ObjectsOfGroup(m_udpMcastConns[k])
    BY <1>16, <2>1 DEF Named, SrqQueues, UnreliableOK
  <2>3. CASE o \in PointersOf(m_udqp)
    <3>1. \E p \in DOMAIN b : b[p].object = o /\ (b[p].busy # "log" \/ o.type = "cq")
      <4>1. 1 \in 1 .. 3 /\ 2 \in 1 .. 3 /\ 3 \in 1 .. 3
        OBVIOUS
      <4> QED
        BY <1>3, <1>5, <2>3, <4>1 DEF PointersOf, Call
    <3> QED
      BY <1>8, <3>1
  <2>4. CASE \E k \in ActiveKeys : o \in ObjectsOfGroup(m_udpMcastConns[k])
    <3>1. PICK p \in DOMAIN a : a[p].object = o
      BY <1>4, <2>4
    <3>2. a[p].busy # "log"
      BY <1>4
    <3>3. p \in DOMAIN D /\ D[p] = a[p]
      BY <1>8
    <3> QED
      BY <3>1, <3>2, <3>3
  <2> QED
    BY <2>2, <2>3, <2>4
<1> QED
  BY <1>1, <1>4, <1>8, <1>9, <1>10, <1>11, <1>13, <1>14, <1>15, <1>16 DEF CallsOK

\* The calls of ~BaseRDMA.
LEMMA BaseCallsPlaced ==
    ASSUME QueuePairsTypeOK, BaseOK, phase \in {"base", "running"}
    PROVE  /\ baseCalls(m_res) \in Seq(Calls) /\ DOMAIN baseCalls(m_res) = 1 .. 4
           /\ baseCalls(m_res)[1] = Call(m_res.mr, "ignore")
           /\ baseCalls(m_res)[2] = Call(m_res.buffer, "force")
           /\ baseCalls(m_res)[3] = Call(m_res.pd, "ignore")
           /\ baseCalls(m_res)[4] = Call(m_res.ib_ctx, "force")
           /\ Different(baseCalls(m_res))
           /\ \A p \in DOMAIN baseCalls(m_res) :
                 baseCalls(m_res)[p].object \in Base /\ baseCalls(m_res)[p].busy \in {"ignore", "force"}
<1> DEFINE b == baseCalls(m_res)
<1>1. /\ Call(m_res.mr, "ignore") \in Calls /\ Call(m_res.buffer, "force") \in Calls
      /\ Call(m_res.pd, "ignore") \in Calls /\ Call(m_res.ib_ctx, "force") \in Calls
  BY DEF QueuePairsTypeOK, Calls, Call
<1>2. /\ b \in Seq(Calls) /\ DOMAIN b = 1 .. 4
      /\ b[1] = Call(m_res.mr, "ignore") /\ b[2] = Call(m_res.buffer, "force")
      /\ b[3] = Call(m_res.pd, "ignore") /\ b[4] = Call(m_res.ib_ctx, "force")
  BY <1>1 DEF baseCalls
<1>3. /\ b[1].object = m_res.mr /\ b[2].object = m_res.buffer /\ b[3].object = m_res.pd
      /\ b[4].object = m_res.ib_ctx
      /\ b[1].busy = "ignore" /\ b[2].busy = "force" /\ b[3].busy = "ignore" /\ b[4].busy = "force"
  BY <1>2 DEF Call
<1> HIDE DEF b
<1>4. \A p \in 1 .. 4 : p = 1 \/ p = 2 \/ p = 3 \/ p = 4
  OBVIOUS
<1>5. /\ m_res.ib_ctx.type = "ib_ctx" /\ m_res.buffer.type = "buffer"
      /\ m_res.pd.type = "pd" /\ m_res.mr.type = "mr"
  BY DEF BaseOK
<1>6. \A p \in 1 .. 4 : b[p].object \in Base /\ b[p].busy \in {"ignore", "force"}
  BY <1>3, <1>4 DEF Base
<1>7. \A p, r \in 1 .. 4 : p # r => b[p].object # b[r].object
  BY <1>3, <1>4, <1>5
<1>8. Different(b)
  BY <1>2, <1>7 DEF Different
<1> QED
  BY <1>2, <1>6, <1>8 DEF b

\* What shared receive queues have are completion queues.
LEMMA SrqQueuesTyped ==
    ASSUME QueuePairsTypeOK, SrqsOK, UnreliableOK, phase = "running", NEW o, o \in SrqQueues
    PROVE  o.type = "cq" /\ o \in Alive
<1>1. transport = "rc" \/ transport = "ud"
  BY QueuePairsAssumption DEF QueuePairsTypeOK
<1>2. transport # "ud"
  BY DEF UnreliableOK, SrqQueues
<1> QED
  BY <1>1, <1>2 DEF SrqsOK, SrqQueues

\* All the calls of a destructor: those for the members of the transport, and those for the base.
LEMMA CallsWithBase ==
    ASSUME QueuePairsTypeOK, Numbered(uses, made), BaseOK, SrqsOK, UnreliableOK, Accounted,
           phase = "running", todo = << >>,
           NEW D, CallsOK(D)
    PROVE  /\ \A p \in DOMAIN (D \o baseCalls(m_res)) : (D \o baseCalls(m_res))[p].object \in Alive
           /\ D \o baseCalls(m_res) \in Seq(Calls)
           /\ UsedBetween(D \o baseCalls(m_res), uses)
           /\ NothingLost => UsersFirst(D \o baseCalls(m_res), uses, Throws)
           /\ faults = << >> =>
                /\ UsersFirst(D \o baseCalls(m_res), uses, Firm(m_res))
                /\ TriedAgain(D \o baseCalls(m_res), uses, Firm(m_res))
                /\ OnlyHandlesLeft(D \o baseCalls(m_res), uses, m_res)
                /\ \A o \in Alive :
                     \/ \E p \in DOMAIN (D \o baseCalls(m_res)) : (D \o baseCalls(m_res))[p].object = o
                     \/ o.type \in {"ah", "addrinfo"}
                     \/ o \in SrqQueues /\ \A k \in DOMAIN m_qps : m_qps[k].recv_cq # o
<1> DEFINE b == baseCalls(m_res)
           T == D \o b
<1> USE DEF Alive
<1>1. /\ D \in Seq(Calls) /\ UsedBetween(D, uses)
      /\ \A p \in DOMAIN D : /\ D[p].object \in Alive \ Base /\ D[p] \in Calls
                             /\ D[p].busy = "log" => D[p].object.type = "cq"
      /\ \A o \in Alive : Named(o) =>
            \/ \E p \in DOMAIN D : D[p].object = o /\ (D[p].busy # "log" \/ o.type = "cq")
            \/ o \in SrqQueues /\ \A k \in DOMAIN m_qps : m_qps[k].recv_cq # o
  <2>1. D \in Seq(Calls)
    BY DEF CallsOK
  <2>2. \A p \in DOMAIN D : D[p] \in Calls
    BY <2>1, LenProperties, ElementOfSeq
  <2> QED
    BY <2>2 DEF CallsOK
<1>2. /\ b \in Seq(Calls) /\ DOMAIN b = 1 .. 4 /\ Different(b)
      /\ b[1] = Call(m_res.mr, "ignore") /\ b[2] = Call(m_res.buffer, "force")
      /\ b[3] = Call(m_res.pd, "ignore") /\ b[4] = Call(m_res.ib_ctx, "force")
      /\ \A p \in DOMAIN b : b[p].object \in Base /\ b[p].busy \in {"ignore", "force"}
  BY BaseCallsPlaced
<1>3. /\ Base \subseteq Alive /\ Only(uses, m_res.mr, {})
      /\ m_res.ib_ctx.type = "ib_ctx" /\ m_res.buffer.type = "buffer"
      /\ m_res.pd.type = "pd" /\ m_res.mr.type = "mr"
  BY DEF BaseOK
<1> HIDE DEF b
<1>4. /\ b[1].object = m_res.mr /\ b[2].object = m_res.buffer /\ b[3].object = m_res.pd
      /\ b[4].object = m_res.ib_ctx
      /\ b[1].busy = "ignore" /\ b[2].busy = "force" /\ b[3].busy = "ignore" /\ b[4].busy = "force"
  BY <1>2 DEF Call
<1>5. /\ Len(D) \in Nat /\ T \in Seq(Calls)
      /\ \A p \in DOMAIN D : p \in Nat /\ p <= Len(D) /\ p \in DOMAIN T /\ T[p] = D[p]
      /\ \A p \in DOMAIN b : p \in Nat /\ p >= 1 /\ Len(D) + p \in DOMAIN T /\ T[Len(D) + p] = b[p]
      /\ \A p \in DOMAIN T : p \in DOMAIN D \/ \E q \in DOMAIN b : p = Len(D) + q
  <2>1. D \in Seq(Calls)
    BY <1>1
  <2>2. b \in Seq(Calls)
    BY <1>2
  <2> QED
    BY ONLY <2>1, <2>2, ConcatOfCalls, SMTT(30)
<1> HIDE DEF T
<1>6. \A p \in DOMAIN T : T[p].object \in Alive
  <2>1. \A p \in DOMAIN D : D[p].object \in Alive
    BY <1>1
  <2>2. \A p \in DOMAIN b : b[p].object \in Alive
    BY <1>2, <1>3
  <2> QED
    BY <1>5, <2>1, <2>2
<1>7. UsedBetween(T, uses)
  <2>1. UsedBetween(b, uses)
    BY <1>2, DifferentNotBetween
  <2>2. \A p \in DOMAIN D, r \in DOMAIN b : D[p].object # b[r].object
    BY <1>1, <1>2
  <2> QED
    BY <1>1, <1>2, <2>1, <2>2, UsedBetweenInConcat DEF T
<1>8. ASSUME NothingLost PROVE UsersFirst(T, uses, Throws)
  <2>1. UsersFirst(D, uses, Throws)
    BY <1>8 DEF CallsOK
  <2>2. \A p \in DOMAIN b : b[p] \in Throws => \A o \in DOMAIN uses : b[p].object \in uses[o] =>
             \/ \E i \in DOMAIN D : D[i] \in Throws /\ D[i].object = o
             \/ \E i \in DOMAIN b : i < p /\ b[i] \in Throws /\ b[i].object = o
    BY <1>2 DEF Throws
  <2> QED
    BY ONLY <1>1, <1>2, <2>1, <2>2, UsersFirstInConcat DEF T
<1>9. 1 \in DOMAIN b /\ 2 \in DOMAIN b /\ 3 \in DOMAIN b /\ 4 \in DOMAIN b
  BY <1>2
<1>10. \A p \in DOMAIN b : p = 1 \/ p = 2 \/ p = 3 \/ p = 4
  BY <1>2
<1>11. ASSUME faults = << >>
       PROVE  /\ UsersFirst(T, uses, Firm(m_res)) /\ TriedAgain(T, uses, Firm(m_res))
              /\ OnlyHandlesLeft(T, uses, m_res)
              /\ \A o \in Alive : \/ \E p \in DOMAIN T : T[p].object = o
                                  \/ o.type \in {"ah", "addrinfo"}
                                  \/ o \in SrqQueues /\ \A k \in DOMAIN m_qps : m_qps[k].recv_cq # o
  <2>1. UsersFirst(D, uses, Firm(m_res)) /\ TriedAgain(D, uses, Firm(m_res))
    BY <1>11 DEF CallsOK
  <2>2. \A o \in Alive : o.type \in {"ah", "addrinfo"} \/ o \in Base \/ Named(o)
    BY <1>11 DEF Accounted, InTodo
  <2>3. \A o \in Base : \E p \in DOMAIN b : b[p].object = o
    BY <1>4, <1>9 DEF Base
  <2>4. ASSUME NEW o \in Alive
        PROVE  \/ \E p \in DOMAIN T : T[p].object = o
               \/ o.type \in {"ah", "addrinfo"}
               \/ o \in SrqQueues /\ \A k \in DOMAIN m_qps : m_qps[k].recv_cq # o
    <3>1. CASE o \in Base
      <4>1. PICK p \in DOMAIN b : b[p].object = o
        BY <2>3, <3>1
      <4> QED
        BY <1>5, <4>1
    <3>2. CASE Named(o) /\ \E p \in DOMAIN D : D[p].object = o
      BY <1>5, <3>2
    <3> QED
      BY <1>1, <2>2, <3>1, <3>2
  <2>5. ASSUME NEW o \in Alive, o.type \notin {"ah", "addrinfo", "cq"}, o \notin Base
        PROVE  \E p \in DOMAIN D : D[p] \in Firm(m_res) /\ D[p].object = o
    <3>1. Named(o)
      BY <2>2, <2>5
    <3>2. o \notin SrqQueues
      BY <2>5, SrqQueuesTyped
    <3>3. PICK p \in DOMAIN D : D[p].object = o /\ D[p].busy # "log"
      BY <1>1, <2>5, <3>1, <3>2
    <3>4. D[p] \in Firm(m_res)
      BY <1>1, <2>5, <3>3 DEF Firm, Call, Base
    <3> QED
      BY <3>3, <3>4
  <2>6. b[1] \in Firm(m_res) /\ b[2] \in Firm(m_res) /\ b[3] \notin Firm(m_res) /\ b[4] \notin Firm(m_res)
    <3>1. b[1] \in Calls /\ b[2] \in Calls
      BY <1>2, <1>9, ElementOfSeq, LenProperties
    <3> QED
      BY <1>2, <1>3, <3>1 DEF Firm, Call
  <2>7. UsersFirst(T, uses, Firm(m_res))
    <3>1. ASSUME NEW p \in DOMAIN b, b[p] \in Firm(m_res), NEW o \in DOMAIN uses, b[p].object \in uses[o]
          PROVE  \/ \E i \in DOMAIN D : D[i] \in Firm(m_res) /\ D[i].object = o
                 \/ \E i \in DOMAIN b : i < p /\ b[i] \in Firm(m_res) /\ b[i].object = o
      <4>1. p = 2
        BY <1>3, <1>4, <1>10, <2>6, <3>1 DEF Only
      <4>2. o.type = "mr"
        BY <1>3, <1>4, <3>1, <4>1 DEF Numbered, MadeOf
      <4>3. CASE o \in Base
        BY <1>3, <1>4, <1>9, <2>6, <4>1, <4>2, <4>3 DEF Base
      <4>4. CASE o \notin Base
        BY <2>5, <4>2, <4>4
      <4> QED
        BY <4>3, <4>4
    <3>2. \A p \in DOMAIN b : b[p] \in Firm(m_res) => \A o \in DOMAIN uses : b[p].object \in uses[o] =>
             \/ \E i \in DOMAIN D : D[i] \in Firm(m_res) /\ D[i].object = o
             \/ \E i \in DOMAIN b : i < p /\ b[i] \in Firm(m_res) /\ b[i].object = o
      BY <3>1
    <3> QED
      BY ONLY <1>1, <1>2, <2>1, <3>2, UsersFirstInConcat DEF T
  <2>8. TriedAgain(T, uses, Firm(m_res))
    <3>1. \A p \in DOMAIN b : b[p].busy = "log" => \A o \in DOMAIN uses : b[p].object \in uses[o] =>
             \E i \in DOMAIN b : i < p /\ b[i] \in Firm(m_res) /\ b[i].object = o
      BY <1>2
    <3> QED
      BY ONLY <1>1, <1>2, <2>1, <3>1, TriedAgainInConcat DEF T
  <2>9. OnlyHandlesLeft(T, uses, m_res)
    <3>1. SUFFICES ASSUME NEW p \in DOMAIN T, T[p].object = m_res.pd, NEW o \in DOMAIN uses, m_res.pd \in uses[o]
                   PROVE  \/ o.type = "ah" /\ \A i \in DOMAIN T : T[i].object # o
                          \/ \E i \in DOMAIN T : i < p /\ T[i] \in Firm(m_res) /\ T[i].object = o
      BY DEF OnlyHandlesLeft
    <3>2. p = Len(D) + 3
      <4>1. p \notin DOMAIN D
        BY <1>1, <1>5, <3>1 DEF Base
      <4>2. PICK q \in DOMAIN b : p = Len(D) + q
        BY <1>5, <4>1
      <4>3. b[q].object = m_res.pd
        BY <1>5, <3>1, <4>2
      <4>4. q = 3
        BY <1>3, <1>4, <1>10, <4>3
      <4> QED
        BY <4>2, <4>4
    <3>3. \A i \in DOMAIN D : i < p /\ i \in DOMAIN T /\ T[i] = D[i]
      BY <1>5, <3>2
    <3>4. o.type \in {"mr", "qp", "srq", "ah"}
      BY <1>3, <3>1 DEF Numbered, MadeOf
    <3>5. CASE o = m_res.mr
      <4>1. Len(D) \in Nat /\ 1 \in DOMAIN b
        BY <1>1, <1>9
      <4>2. Len(D) + 1 \in DOMAIN T /\ T[Len(D) + 1] = b[1]
        BY <1>5, <4>1
      <4>3. Len(D) + 1 < p
        BY <3>2, <4>1
      <4> QED
        BY <1>4, <2>6, <3>5, <4>2, <4>3
    <3>6. CASE o # m_res.mr /\ o.type # "ah"
      <4>1. o \notin Base
        BY <1>3, <3>4, <3>6 DEF Base
      <4>2. PICK i \in DOMAIN D : D[i] \in Firm(m_res) /\ D[i].object = o
        BY <2>5, <3>4, <3>6, <4>1
      <4> QED
        BY <3>3, <4>2
    <3>7. CASE o.type = "ah"
      <4>1. CASE \E i \in DOMAIN D : D[i].object = o
        <5>1. PICK i \in DOMAIN D : D[i].object = o
          BY <4>1
        <5>2. D[i].busy # "log"
          BY <1>1, <3>7, <5>1
        <5>3. D[i] \in Firm(m_res)
          BY <1>1, <5>1, <5>2 DEF Firm, Call, Base
        <5> QED
          BY <3>3, <5>1, <5>3
      <4>2. CASE \A i \in DOMAIN D : D[i].object # o
        <5>1. \A q \in DOMAIN b : b[q].object # o
          BY <1>2, <1>3, <3>7 DEF Base
        <5>2. \A i \in DOMAIN T : T[i].object # o
          BY <1>5, <4>2, <5>1
        <5> QED
          BY <3>7, <5>2
      <4> QED
        BY <4>1, <4>2
    <3> QED
      BY <3>4, <3>5, <3>6, <3>7
  <2> QED
    BY <2>4, <2>7, <2>8, <2>9
<1> QED
  BY <1>5, <1>6, <1>7, <1>8, <1>11 DEF T, b

-----------------------------------------------------------------------------
(***************************************************************************)
(* Less exists                                                             *)
(***************************************************************************)
\* Nothing that is there gets another user when others go.
LEMMA OnlyShrunk ==
    ASSUME NEW u, NEW v, NEW x, NEW S, Shrunk(u, v), Only(u, x, S)
    PROVE  Only(v, x, S)
BY DEF Shrunk, Only

\* A queue pair stays what it is when others go.
LEMMA PairShrunk ==
    ASSUME NEW u, NEW v, NEW Q, NEW q, Shrunk(u, v), PairOK(u, Q, q), PointersOf(q) \subseteq DOMAIN v
    PROVE  PairOK(v, Q, q)
<1>1. q.qp \in DOMAIN v /\ v[q.qp] = u[q.qp]
  BY DEF PointersOf, Shrunk
<1>2. Only(v, q.qp, {}) /\ Only(v, q.send_cq, {q.qp}) /\ (q.recv_cq \in Q \/ Only(v, q.recv_cq, {q.qp}))
  BY OnlyShrunk DEF PairOK
<1> QED
  BY <1>1, <1>2 DEF PairOK

\* So does a group.
LEMMA GroupShrunk ==
    ASSUME NEW u, NEW v, NEW g, Shrunk(u, v), GroupOK(u, g), ObjectsOfGroup(g) \subseteq DOMAIN v
    PROVE  GroupOK(v, g)
<1>1. /\ Only(v, g.membership, {}) /\ Only(v, g.ah, {}) /\ Only(v, g.qp, {g.membership})
      /\ Only(v, g.scq, {g.qp}) /\ Only(v, g.rcq, {g.qp}) /\ Only(v, g.mr, {})
      /\ Only(v, g.pd, {g.mr, g.qp}) /\ Only(v, g.id, {g.qp}) /\ Only(v, g.channel, {g.id})
  BY OnlyShrunk DEF GroupOK
<1> QED
  BY <1>1 DEF GroupOK

\* The members are the same.
SameMembers == UNCHANGED <<m_res, m_qps, m_srqs, m_udqp, m_udpMcastConns, qp>>

\* Then what they name is.
LEMMA MembersSame ==
    ASSUME SameMembers
    PROVE  /\ Base' = Base /\ SrqQueues' = SrqQueues /\ EntryQps' = EntryQps /\ Used' = Used
           /\ ActiveKeys' = ActiveKeys /\ \A o : Named(o)' <=> Named(o)
<1>1. /\ m_res' = m_res /\ m_qps' = m_qps /\ m_srqs' = m_srqs /\ m_udqp' = m_udqp
      /\ m_udpMcastConns' = m_udpMcastConns /\ qp' = qp
  BY DEF SameMembers
<1>2. /\ Base' = Base /\ SrqQueues' = SrqQueues /\ EntryQps' = EntryQps /\ Used' = Used
      /\ ActiveKeys' = ActiveKeys
  BY <1>1 DEF Base, SrqQueues, EntryQps, Used, ActiveKeys
<1>3. ASSUME NEW o PROVE Named(o)' <=> Named(o)
  BY <1>1, <1>2 DEF Named
<1> QED
  BY <1>2, <1>3

\* What has been lost stays lost.
LEMMA LostForGood ==
    ASSUME Range(faults) \subseteq Range(faults'), NothingLost'
    PROVE  NothingLost
BY DEF NothingLost

\* The members stay as they are when only what none of them names goes, and the object lives on.
LEMMA MembersShrunk ==
    ASSUME Numbered(uses, made), BaseOK, ReliableOK, SrqsOK, UnreliableOK, ConnectedOK,
           SameMembers, UNCHANGED <<transport, m_connected, made>>,
           phase' = phase \/ phase' \notin {"base", "running"},
           Shrunk(uses, uses'), Range(faults) \subseteq Range(faults'),
           phase' = "running" => \A o \in Alive \ Alive' : o \notin Base /\ ~Named(o),
           phase' = "base" => uses' = uses
    PROVE  Numbered(uses', made') /\ BaseOK' /\ ReliableOK' /\ SrqsOK' /\ UnreliableOK' /\ ConnectedOK'
<1> USE DEF Alive
<1>1. /\ m_res' = m_res /\ m_qps' = m_qps /\ m_srqs' = m_srqs /\ m_udqp' = m_udqp
      /\ m_udpMcastConns' = m_udpMcastConns /\ qp' = qp /\ transport' = transport
      /\ m_connected' = m_connected /\ made' = made
  BY DEF SameMembers
<1>2. /\ Base' = Base /\ SrqQueues' = SrqQueues /\ EntryQps' = EntryQps /\ Used' = Used
      /\ ActiveKeys' = ActiveKeys
  BY MembersSame
<1>3. Numbered(uses', made')
  BY <1>1 DEF Numbered, Shrunk
<1>4. ConnectedOK'
  BY <1>1, <1>2 DEF ConnectedOK
<1>5. BaseOK'
  <2>1. m_res'.ib_ctx.type \in {"ib_ctx", "null"}
    BY <1>1 DEF BaseOK
  <2>2. ASSUME phase' \in {"base", "running"}
        PROVE  /\ Base \subseteq Alive' /\ Only(uses', m_res.mr, {})
               /\ m_res.ib_ctx.type = "ib_ctx" /\ m_res.buffer.type = "buffer"
               /\ m_res.pd.type = "pd" /\ m_res.mr.type = "mr"
    <3>1. /\ Base \subseteq Alive /\ Only(uses, m_res.mr, {})
          /\ m_res.ib_ctx.type = "ib_ctx" /\ m_res.buffer.type = "buffer"
          /\ m_res.pd.type = "pd" /\ m_res.mr.type = "mr"
      BY <2>2 DEF BaseOK
    <3>2. Base \subseteq Alive'
      BY <2>2, <3>1
    <3> QED
      BY <3>1, <3>2, OnlyShrunk
  <2> QED
    BY <1>1, <1>2, <2>1, <2>2 DEF BaseOK
<1>6. ASSUME phase' = "running", NEW Q, NEW q, PairOK(uses, Q, q), \A o \in PointersOf(q) : Named(o)
      PROVE  PairOK(uses', Q, q)
  <2>1. PointersOf(q) \subseteq DOMAIN uses
    BY <1>6 DEF PairOK
  <2>2. PointersOf(q) \subseteq DOMAIN uses'
    BY <1>6, <2>1
  <2> QED
    BY <1>6, <2>2, PairShrunk
<1>7. ReliableOK'
  <2>1. ASSUME transport = "rc" PROVE m_udpMcastConns = << >> /\ m_udqp = NoQp
    BY <2>1 DEF ReliableOK
  <2>2. ASSUME transport = "rc", phase' = "running"
        PROVE  /\ \A k \in Used : PairOK(uses', SrqQueues, m_qps[k])
               /\ \A j, k \in Used : j # k => m_qps[j].qp # m_qps[k].qp
               /\ qp # NoQp => /\ PairOK(uses', SrqQueues, qp) /\ qp.recv_cq \notin SrqQueues
                               /\ \A k \in Used : m_qps[k].qp # qp.qp
    <3>1. /\ \A k \in Used : PairOK(uses, SrqQueues, m_qps[k])
          /\ \A j, k \in Used : j # k => m_qps[j].qp # m_qps[k].qp
          /\ qp # NoQp => /\ PairOK(uses, SrqQueues, qp) /\ qp.recv_cq \notin SrqQueues
                          /\ \A k \in Used : m_qps[k].qp # qp.qp
      BY <2>2 DEF ReliableOK
    <3>2. ASSUME NEW k \in Used PROVE PairOK(uses', SrqQueues, m_qps[k])
      <4>1. \A o \in PointersOf(m_qps[k]) : Named(o)
        BY DEF Named, Used
      <4> QED
        BY <1>6, <2>2, <3>1, <4>1
    <3>3. ASSUME qp # NoQp PROVE PairOK(uses', SrqQueues, qp)
      <4>1. \A o \in PointersOf(qp) : Named(o)
        BY DEF Named
      <4> QED
        BY <1>6, <2>2, <3>1, <3>3, <4>1
    <3> QED
      BY <3>1, <3>2, <3>3
  <2> QED
    BY <1>1, <1>2, <2>1, <2>2 DEF ReliableOK
<1>8. SrqsOK'
  <2>1. ASSUME transport = "rc", phase' = "running"
        PROVE  /\ \A s \in DOMAIN m_srqs :
                    /\ m_srqs[s].shared_rq \in Alive' /\ m_srqs[s].shared_rq.type = "srq"
                    /\ m_srqs[s].recv_cq \in Alive' /\ m_srqs[s].recv_cq.type = "cq"
                    /\ NothingLost' => /\ Only(uses', m_srqs[s].shared_rq, EntryQps)
                                       /\ Only(uses', m_srqs[s].recv_cq, EntryQps)
               /\ \A s, t \in DOMAIN m_srqs : s # t => m_srqs[s].shared_rq # m_srqs[t].shared_rq
    <3>1. /\ \A s \in DOMAIN m_srqs :
                /\ m_srqs[s].shared_rq \in Alive /\ m_srqs[s].shared_rq.type = "srq"
                /\ m_srqs[s].recv_cq \in Alive /\ m_srqs[s].recv_cq.type = "cq"
                /\ NothingLost => /\ Only(uses, m_srqs[s].shared_rq, EntryQps)
                                  /\ Only(uses, m_srqs[s].recv_cq, EntryQps)
          /\ \A s, t \in DOMAIN m_srqs : s # t => m_srqs[s].shared_rq # m_srqs[t].shared_rq
      BY <2>1 DEF SrqsOK
    <3>2. \A s \in DOMAIN m_srqs : Named(m_srqs[s].shared_rq) /\ Named(m_srqs[s].recv_cq)
      BY DEF Named, SrqQueues
    <3> QED
      BY <2>1, <3>1, <3>2, LostForGood, OnlyShrunk
  <2> QED
    BY <1>1, <1>2, <2>1 DEF SrqsOK
<1>9. UnreliableOK'
  <2>1. ASSUME transport = "ud" PROVE m_srqs = << >>
    BY <2>1 DEF UnreliableOK
  <2>2. ASSUME transport = "ud", phase' = "running"
        PROVE  /\ m_udqp # NoQp /\ PairOK(uses', {}, m_udqp)
               /\ \A k \in DOMAIN m_qps : m_qps[k] \in {NoQp, m_udqp}
               /\ qp \in {NoQp, m_udqp}
               /\ \A k \in ActiveKeys :
                    /\ GroupOK(uses', m_udpMcastConns[k])
                    /\ ObjectsOfGroup(m_udpMcastConns[k]) \cap (Base \cup PointersOf(m_udqp)) = {}
               /\ \A j, k \in ActiveKeys :
                    j # k => ObjectsOfGroup(m_udpMcastConns[j]) \cap ObjectsOfGroup(m_udpMcastConns[k]) = {}
    <3>1. /\ m_udqp # NoQp /\ PairOK(uses, {}, m_udqp)
          /\ \A k \in DOMAIN m_qps : m_qps[k] \in {NoQp, m_udqp}
          /\ qp \in {NoQp, m_udqp}
          /\ \A k \in ActiveKeys :
               /\ GroupOK(uses, m_udpMcastConns[k])
               /\ ObjectsOfGroup(m_udpMcastConns[k]) \cap (Base \cup PointersOf(m_udqp)) = {}
          /\ \A j, k \in ActiveKeys :
               j # k => ObjectsOfGroup(m_udpMcastConns[j]) \cap ObjectsOfGroup(m_udpMcastConns[k]) = {}
      BY <2>2 DEF UnreliableOK
    <3>2. PairOK(uses', {}, m_udqp)
      <4>1. \A o \in PointersOf(m_udqp) : Named(o)
        BY DEF Named
      <4> QED
        BY <1>6, <2>2, <3>1, <4>1
    <3>3. ASSUME NEW k \in ActiveKeys PROVE GroupOK(uses', m_udpMcastConns[k])
      <4>1. \A o \in ObjectsOfGroup(m_udpMcastConns[k]) : Named(o)
        BY DEF Named
      <4>2. ObjectsOfGroup(m_udpMcastConns[k]) \subseteq DOMAIN uses
        BY <3>1 DEF GroupOK
      <4>3. ObjectsOfGroup(m_udpMcastConns[k]) \subseteq DOMAIN uses'
        BY <2>2, <4>1, <4>2
      <4> QED
        BY <3>1, <4>3, GroupShrunk
    <3> QED
      BY <3>1, <3>2, <3>3
  <2> QED
    BY <1>1, <1>2, <2>1, <2>2 DEF UnreliableOK
<1> QED
  BY <1>3, <1>4, <1>5, <1>7, <1>8, <1>9

-----------------------------------------------------------------------------
(***************************************************************************)
(* The calls that destroy                                                  *)
(***************************************************************************)
\* The parts of the invariant.
LEMMA Parts ==
    ASSUME QueuePairsInvariant
    PROVE  /\ QueuePairsTypeOK /\ Numbered(uses, made) /\ BaseOK /\ Early /\ Ended /\ ReliableOK
           /\ SrqsOK /\ UnreliableOK /\ ConnectedOK /\ TodoOK /\ Accounted
BY DEF QueuePairsInvariant, QueuePairsInv, Core

\* While there are calls to be made the object is constructed and not gone.
LEMMA WhileTodo ==
    ASSUME QueuePairsTypeOK, Early, Ended, todo # << >>
    PROVE  /\ phase \in {"running", "destroying"} /\ todo \in Seq(Calls)
           /\ 1 \in DOMAIN todo /\ todo[1] = Head(todo) /\ Head(todo) \in Calls
           /\ Tail(todo) \in Seq(Calls) /\ Len(todo) \in Nat /\ Len(todo) > 0 /\ Len(Tail(todo)) = Len(todo) - 1
           /\ \A p \in DOMAIN todo : p = 1 \/ \E r \in DOMAIN Tail(todo) : Tail(todo)[r] = todo[p]
           /\ \A r \in DOMAIN Tail(todo) : \E p \in DOMAIN todo : Tail(todo)[r] = todo[p]
<1>1. phase \in {"running", "destroying"}
  BY DEF QueuePairsTypeOK, Phases, Early, Ended
<1>2. todo \in Seq(Calls)
  BY DEF QueuePairsTypeOK
<1>3. /\ Tail(todo) \in Seq(Calls) /\ 1 \in DOMAIN todo /\ Head(todo) = todo[1] /\ Head(todo) \in Calls
      /\ \A p \in DOMAIN todo : p \in Nat /\ p >= 1
      /\ \A p \in DOMAIN Tail(todo) : p \in Nat /\ p + 1 \in DOMAIN todo /\ Tail(todo)[p] = todo[p + 1]
      /\ \A p \in DOMAIN todo : p > 1 => p - 1 \in DOMAIN Tail(todo) /\ Tail(todo)[p - 1] = todo[p]
  BY <1>2, TailOfCalls
<1>4. Len(todo) \in Nat /\ Len(todo) > 0 /\ Len(Tail(todo)) = Len(todo) - 1
  BY <1>2, LenProperties, HeadTailProperties, EmptySeq
<1>5. \A p \in DOMAIN todo : p = 1 \/ \E r \in DOMAIN Tail(todo) : Tail(todo)[r] = todo[p]
  <2>1. \A p \in DOMAIN todo : p = 1 \/ p > 1
    BY <1>3
  <2> QED
    BY <1>3, <2>1
<1>6. \A r \in DOMAIN Tail(todo) : \E p \in DOMAIN todo : Tail(todo)[r] = todo[p]
  BY <1>3
<1> QED
  BY <1>1, <1>2, <1>3, <1>4, <1>5, <1>6

\* What is still to be destroyed was, too, and all that was but the first is.
LEMMA InTail ==
    ASSUME QueuePairsTypeOK, Early, Ended, todo # << >>, todo' = Tail(todo)
    PROVE  InTodo' \subseteq InTodo /\ InTodo \subseteq InTodo' \cup {Head(todo).object}
<1>1. InTodo' = {Tail(todo)[p].object : p \in DOMAIN Tail(todo)}
  BY DEF InTodo
<1>2. InTodo' \subseteq InTodo
  BY <1>1, WhileTodo DEF InTodo
<1>3. ASSUME NEW p \in DOMAIN todo PROVE todo[p].object \in InTodo' \cup {Head(todo).object}
  <2>1. CASE p = 1
    BY <2>1, WhileTodo
  <2>2. CASE \E r \in DOMAIN Tail(todo) : Tail(todo)[r] = todo[p]
    BY <1>1, <2>2
  <2> QED
    BY <2>1, <2>2, WhileTodo
<1> QED
  BY <1>2, <1>3 DEF InTodo

\* The object is destroyed.
LEMMA DestroyNextKeeps ==
    ASSUME QueuePairsInvariant, DestroyNext
    PROVE  QueuePairsTypeOK' /\ Core' /\ UsersGoFirst'
<1> DEFINE call == Head(todo)
           x == Head(todo).object
<1> USE DEF Alive
<1>1. /\ QueuePairsTypeOK /\ Numbered(uses, made) /\ BaseOK /\ Early /\ Ended /\ ReliableOK
      /\ SrqsOK /\ UnreliableOK /\ ConnectedOK /\ TodoOK /\ Accounted
  BY Parts
<1>2. /\ todo # << >> /\ x \in Alive /\ (call.busy = "force" \/ ~InUse(x))
      /\ uses' = [o \in Alive \ {x} |-> uses[o]] /\ todo' = Tail(todo)
      /\ phase' = (IF phase = "destroying" /\ Len(todo) = 1 THEN "gone" ELSE phase)
      /\ UNCHANGED <<transport, calls, faults, made, m_res, m_qps, m_connected, m_srqs, m_udqp,
                     m_lastMCastConnKey, m_udpMcastConns, rts, qp>>
  BY DEF DestroyNext, Restrict, recorded
<1>3. /\ phase \in {"running", "destroying"} /\ todo \in Seq(Calls)
      /\ 1 \in DOMAIN todo /\ todo[1] = call /\ call \in Calls
      /\ Tail(todo) \in Seq(Calls) /\ Len(todo) \in Nat /\ Len(todo) > 0 /\ Len(Tail(todo)) = Len(todo) - 1
      /\ \A p \in DOMAIN todo : p = 1 \/ \E r \in DOMAIN Tail(todo) : Tail(todo)[r] = todo[p]
      /\ \A r \in DOMAIN Tail(todo) : \E p \in DOMAIN todo : Tail(todo)[r] = todo[p]
  BY <1>1, <1>2, WhileTodo
<1>4. Alive' = Alive \ {x} /\ Shrunk(uses, uses')
  BY <1>2 DEF Shrunk
<1>5. InTodo' \subseteq InTodo /\ InTodo \subseteq InTodo' \cup {x} /\ x \in InTodo
  BY <1>1, <1>2, <1>3, InTail DEF InTodo
<1>6. \A p \in DOMAIN Tail(todo) : Tail(todo)[p].object # x
  <2>1. UsedBetween(todo, uses)
    BY <1>1 DEF TodoOK
  <2>2. call.busy = "force" \/ \A o \in DOMAIN uses : x \notin uses[o]
    BY <1>2 DEF InUse
  <2> QED
    BY <1>2, <1>3, <2>1, <2>2, NotAgain
<1>7. QueuePairsTypeOK'
  <2>1. phase' \in Phases
    BY <1>1, <1>2 DEF QueuePairsTypeOK, Phases
  <2>2. Alive' \subseteq Objects /\ \A o \in Alive' : uses'[o] \subseteq Objects
    BY <1>1, <1>2, <1>4 DEF QueuePairsTypeOK
  <2> QED
    BY <1>1, <1>2, <1>3, <2>1, <2>2 DEF QueuePairsTypeOK
<1>8. SameMembers
  BY <1>2 DEF SameMembers
<1>9. Numbered(uses', made') /\ BaseOK' /\ ReliableOK' /\ SrqsOK' /\ UnreliableOK' /\ ConnectedOK'
  <2>1. phase' = phase \/ phase' \notin {"base", "running"}
    BY <1>2
  <2>2. phase' = "running" => \A o \in Alive \ Alive' : o \notin Base /\ ~Named(o)
    <3>1. SUFFICES ASSUME phase' = "running" PROVE x \notin Base /\ ~Named(x)
      BY <1>4
    <3>2. phase = "running" /\ x # nullptr
      BY <1>1, <1>2, <3>1, NullIsNone DEF QueuePairsTypeOK
    <3> QED
      BY <1>1, <1>5, <3>2 DEF TodoOK
  <2>3. phase' # "base" /\ Range(faults) \subseteq Range(faults')
    BY <1>2, <1>3
  <2> QED
    BY <1>1, <1>2, <1>4, <1>8, <2>1, <2>2, <2>3, MembersShrunk
<1>10. Early'
  BY <1>2, <1>3 DEF Early
<1>11. Ended'
  <2>1. ASSUME phase' \in {"gone", "terminated", "crashed", "dangling"} PROVE todo' = << >>
    <3>1. Len(todo) = 1
      BY <1>2, <1>3, <2>1
    <3> QED
      BY <1>2, <1>3, <3>1, EmptySeq
  <2> QED
    BY <2>1 DEF Ended
<1>12. m_res' = m_res /\ faults' = faults /\ (phase' = "destroying" => phase = "destroying")
       /\ (phase' = "running" <=> phase = "running") /\ Head(todo).object \notin DOMAIN uses'
  BY <1>2, <1>3, <1>4
<1>13. TodoOK'
  <2>1. \A p \in DOMAIN Tail(todo) : \/ Tail(todo)[p].object \in Alive'
                                     \/ Tail(todo)[p].object = nullptr /\ transport = "ud" /\ phase' = "running"
    BY <1>1, <1>3, <1>4, <1>6, <1>12 DEF TodoOK
  <2>2. UsedBetween(Tail(todo), uses')
    <3>1. \A p \in DOMAIN Tail(todo) : Tail(todo)[p].object \in DOMAIN uses => Tail(todo)[p].object \in DOMAIN uses'
      BY <1>4, <1>6
    <3>2. UsedBetween(todo, uses)
      BY <1>1 DEF TodoOK
    <3> QED
      BY <1>2, <1>3, <1>4, <3>1, <3>2, UsedBetweenInTail
  <2>3. phase' = "running" => \A o \in InTodo' : o = nullptr \/ (o \notin Base /\ ~Named(o))
    BY <1>1, <1>5, <1>12 DEF TodoOK
  <2>4. phase' = "destroying" /\ NothingLost => UsersFirst(Tail(todo), uses', Throws)
    <3>1. SUFFICES ASSUME phase' = "destroying", NothingLost PROVE UsersFirst(Tail(todo), uses', Throws)
      OBVIOUS
    <3>2. UsersFirst(todo, uses, Throws)
      BY <1>1, <1>12, <3>1 DEF TodoOK
    <3> QED
      BY <1>2, <1>3, <1>4, <1>12, <3>2, UsersFirstInTail
  <2>5. ASSUME faults = << >>
        PROVE  UsersFirst(Tail(todo), uses', Firm(m_res)) /\ TriedAgain(Tail(todo), uses', Firm(m_res))
    <3>1. UsersFirst(todo, uses, Firm(m_res)) /\ TriedAgain(todo, uses, Firm(m_res))
      BY <1>1, <2>5 DEF TodoOK
    <3> QED
      BY <1>2, <1>3, <1>4, <1>12, <3>1, UsersFirstInTail, TriedAgainInTail
  <2>6. ASSUME phase' = "destroying", faults = << >> PROVE OnlyHandlesLeft(Tail(todo), uses', m_res)
    <3>1. OnlyHandlesLeft(todo, uses, m_res)
      BY <1>1, <1>12, <2>6 DEF TodoOK
    <3> QED
      BY <1>2, <1>3, <1>4, <1>12, <3>1, OnlyHandlesLeftInTail
  <2>7. (Base' = Base) /\ (NothingLost' <=> NothingLost) /\ \A o : Named(o)' <=> Named(o)
    BY <1>8, <1>12, MembersSame DEF NothingLost
  <2>8. Firm(m_res)' = Firm(m_res) /\ Throws' = Throws /\ transport' = transport
    BY <1>2, <1>12 DEF Firm, Throws
  <2> QED
    BY <1>2, <1>12, <2>1, <2>2, <2>3, <2>4, <2>5, <2>6, <2>7, <2>8 DEF TodoOK
<1>14. Accounted'
  <2>1. Base' = Base /\ SrqQueues' = SrqQueues /\ (\A o : Named(o)' <=> Named(o)) /\ m_qps' = m_qps
    BY <1>2, <1>8, MembersSame
  <2>2. ASSUME faults = << >>, phase' \in {"base", "running"}, NEW o \in Alive'
        PROVE  o.type \in {"ah", "addrinfo"} \/ o \in InTodo' \/ o \in Base \/ Named(o)
    <3>1. o \in Alive /\ o # x /\ phase = "running"
      BY <1>2, <1>3, <1>4, <2>2
    <3>2. o.type \in {"ah", "addrinfo"} \/ o \in InTodo \/ o \in Base \/ Named(o)
      BY <1>1, <2>2, <3>1 DEF Accounted
    <3> QED
      BY <1>5, <3>1, <3>2
  <2>3. ASSUME faults = << >>, phase' \in {"destroying", "gone"}, NEW o \in Alive'
        PROVE  o \in InTodo' \/ Left(o)'
    <3>1. o \in InTodo \/ Left(o)
      BY <1>1, <1>2, <1>3, <1>4, <2>3 DEF Accounted
    <3>2. CASE o \in InTodo
      BY <1>4, <1>5, <3>2
    <3>3. CASE Left(o)
      <4>1. CASE o.type \in {"ah", "addrinfo"}
        BY <4>1 DEF Left
      <4>2. CASE o = m_res.pd /\ \E ah \in Alive \ InTodo : ah.type = "ah" /\ o \in uses[ah]
        <5>1. PICK ah \in Alive \ InTodo : ah.type = "ah" /\ o \in uses[ah]
          BY <4>2
        <5>2. ah \in Alive' \ InTodo' /\ o \in uses'[ah]
          BY <1>2, <1>4, <1>5, <5>1
        <5> QED
          BY <1>12, <4>2, <5>1, <5>2 DEF Left
      <4>3. CASE o \in SrqQueues /\ \A k \in DOMAIN m_qps : m_qps[k].recv_cq # o
        BY <2>1, <4>3 DEF Left
      <4> QED
        BY <3>3, <4>1, <4>2, <4>3 DEF Left
    <3> QED
      BY <3>1, <3>2, <3>3
  <2> QED
    BY <1>12, <2>1, <2>2, <2>3 DEF Accounted
<1>15. UsersGoFirst'
  <2>1. SUFFICES ASSUME faults = << >>, NEW o \in Alive', NEW used \in uses'[o]
                 PROVE  used \in Alive' \/ used.type = "ib_ctx"
    BY <1>12 DEF UsersGoFirst
  <2>2. o \in Alive /\ used \in uses[o]
    BY <1>2, <1>4, <2>1
  <2>3. used \in Alive \/ used.type = "ib_ctx"
    BY <2>1, <2>2 DEF QueuePairsInvariant, QueuePairsInv, UsersGoFirst
  <2>4. CASE used = x
    <3>1. InUse(x) /\ call.busy = "force"
      BY <1>2, <2>2, <2>4 DEF InUse
    <3>2. call \notin Firm(m_res)
      <4>1. SUFFICES ASSUME call \in Firm(m_res) PROVE FALSE
        OBVIOUS
      <4>2. UsersFirst(todo, uses, Firm(m_res))
        BY <1>1, <2>1 DEF TodoOK
      <4>3. \E b \in DOMAIN todo : b < 1
        BY <1>3, <2>2, <2>4, <4>1, <4>2 DEF UsersFirst
      <4> QED
        BY <1>3, <4>3, TailOfCalls, <1>2
    <3>3. call = Call(m_res.ib_ctx, "force")
      BY <1>3, <3>1, <3>2 DEF Firm, Call
    <3>4. used.type \in {"ib_ctx", "null"}
      BY <1>1, <2>4, <3>3 DEF BaseOK, Call
    <3>5. used.type # "null"
      BY <1>1, <1>2, <2>4 DEF QueuePairsTypeOK, Objects, Types
    <3> QED
      BY <3>4, <3>5
  <2> QED
    BY <1>4, <2>3, <2>4
<1> QED
  BY <1>7, <1>9, <1>10, <1>11, <1>13, <1>14, <1>15 DEF Core

\* The object is left, because it is in use.
LEMMA LeaveBusyKeeps ==
    ASSUME QueuePairsInvariant, LeaveBusy
    PROVE  QueuePairsTypeOK' /\ Core' /\ UsersGoFirst'
<1> DEFINE call == Head(todo)
           x == Head(todo).object
<1> USE DEF Alive
<1>1. /\ QueuePairsTypeOK /\ Numbered(uses, made) /\ BaseOK /\ Early /\ Ended /\ ReliableOK
      /\ SrqsOK /\ UnreliableOK /\ ConnectedOK /\ TodoOK /\ Accounted
  BY Parts
<1>2. /\ todo # << >> /\ x \in Alive /\ call.busy \in {"log", "ignore"} /\ todo' = Tail(todo)
      /\ UNCHANGED <<transport, phase, calls, faults, uses, made, m_res, m_qps, m_connected, m_srqs, m_udqp,
                     m_lastMCastConnKey, m_udpMcastConns, rts, qp>>
  BY DEF LeaveBusy, recorded
<1>3. /\ phase \in {"running", "destroying"} /\ todo \in Seq(Calls)
      /\ 1 \in DOMAIN todo /\ todo[1] = call /\ call \in Calls /\ Tail(todo) \in Seq(Calls)
      /\ \A p \in DOMAIN todo : p = 1 \/ \E r \in DOMAIN Tail(todo) : Tail(todo)[r] = todo[p]
      /\ \A r \in DOMAIN Tail(todo) : \E p \in DOMAIN todo : Tail(todo)[r] = todo[p]
      /\ \A p \in DOMAIN todo : ~(p < 1)
  <2>1. \A p \in DOMAIN todo : ~(p < 1)
    <3>1. todo \in Seq(Calls)
      BY <1>1, <1>2, WhileTodo
    <3>2. \A p \in DOMAIN todo : p \in Nat /\ p >= 1
      BY <1>2, <3>1, TailOfCalls
    <3> QED
      BY <3>2
  <2> QED
    BY <1>1, <1>2, <2>1, WhileTodo
<1>4. PICK user \in Alive : x \in uses[user]
  BY DEF LeaveBusy, InUse
<1>5. InTodo' \subseteq InTodo /\ InTodo \subseteq InTodo' \cup {x} /\ x \in InTodo
  BY <1>1, <1>2, <1>3, InTail DEF InTodo
<1>6. Shrunk(uses, uses) /\ uses' = uses /\ SameMembers
  BY <1>2 DEF Shrunk, SameMembers
<1>7. QueuePairsTypeOK' /\ Early' /\ Ended'
  <2>1. QueuePairsTypeOK'
    BY <1>1, <1>2, <1>3 DEF QueuePairsTypeOK
  <2> QED
    BY <1>2, <1>3, <2>1 DEF Early, Ended
<1>8. Numbered(uses', made') /\ BaseOK' /\ ReliableOK' /\ SrqsOK' /\ UnreliableOK' /\ ConnectedOK'
  BY <1>1, <1>2, <1>6, MembersShrunk
<1>9. call \notin Throws
  BY <1>2 DEF Throws
<1>10. faults = << >> => call \notin Firm(m_res)
  <2>1. SUFFICES ASSUME faults = << >>, call \in Firm(m_res) PROVE FALSE
    OBVIOUS
  <2>2. UsersFirst(todo, uses, Firm(m_res))
    BY <1>1, <2>1 DEF TodoOK
  <2>3. \E b \in DOMAIN todo : b < 1
    BY <1>3, <1>4, <2>1, <2>2 DEF UsersFirst
  <2> QED
    BY <1>3, <2>3
<1>11. TodoOK'
  <2>1. \A p \in DOMAIN Tail(todo) : \/ Tail(todo)[p].object \in Alive
                                     \/ Tail(todo)[p].object = nullptr /\ transport = "ud" /\ phase = "running"
    BY <1>1, <1>3 DEF TodoOK
  <2>2. UsedBetween(Tail(todo), uses)
    <3>1. UsedBetween(todo, uses)
      BY <1>1 DEF TodoOK
    <3> QED
      BY <1>2, <1>3, <1>6, <3>1, UsedBetweenInTail
  <2>3. phase = "running" => \A o \in InTodo' : o = nullptr \/ (o \notin Base /\ ~Named(o))
    BY <1>1, <1>5 DEF TodoOK
  <2>4. phase = "destroying" /\ NothingLost => UsersFirst(Tail(todo), uses, Throws)
    <3>1. SUFFICES ASSUME phase = "destroying", NothingLost PROVE UsersFirst(Tail(todo), uses, Throws)
      OBVIOUS
    <3>2. UsersFirst(todo, uses, Throws)
      BY <1>1, <3>1 DEF TodoOK
    <3> QED
      BY <1>2, <1>3, <1>6, <1>9, <3>2, UsersFirstInTail
  <2>5. ASSUME faults = << >>
        PROVE  UsersFirst(Tail(todo), uses, Firm(m_res)) /\ TriedAgain(Tail(todo), uses, Firm(m_res))
    <3>1. UsersFirst(todo, uses, Firm(m_res)) /\ TriedAgain(todo, uses, Firm(m_res))
      BY <1>1, <2>5 DEF TodoOK
    <3> QED
      BY <1>2, <1>3, <1>6, <1>10, <2>5, <3>1, UsersFirstInTail, TriedAgainInTail
  <2>6. ASSUME phase = "destroying", faults = << >> PROVE OnlyHandlesLeft(Tail(todo), uses, m_res)
    <3>1. OnlyHandlesLeft(todo, uses, m_res)
      BY <1>1, <2>6 DEF TodoOK
    <3> QED
      BY <1>2, <1>3, <1>6, <1>10, <2>6, <3>1, OnlyHandlesLeftInTail
  <2>7. (Base' = Base) /\ (NothingLost' <=> NothingLost) /\ \A o : Named(o)' <=> Named(o)
    BY <1>2, <1>6, MembersSame DEF NothingLost
  <2>8. Firm(m_res)' = Firm(m_res) /\ Throws' = Throws
    BY <1>2 DEF Firm, Throws
  <2> QED
    BY <1>2, <2>1, <2>2, <2>3, <2>4, <2>5, <2>6, <2>7, <2>8 DEF TodoOK
<1>12. ASSUME faults = << >>, NEW o, o = x PROVE o \in InTodo' \/ (phase = "destroying" /\ Left(o)')
  <2>1. call \in Calls /\ call \notin Firm(m_res)
    BY <1>3, <1>10, <1>12
  <2>2. CASE call.busy = "log"
    <3>1. TriedAgain(todo, uses, Firm(m_res))
      BY <1>1, <1>12 DEF TodoOK
    <3>2. \E r \in DOMAIN todo : 1 < r /\ todo[r].object = x
      <4>1. \E b \in DOMAIN todo : b < 1 \/ \E r \in DOMAIN todo : 1 < r /\ todo[r].object = x
        BY <1>3, <1>4, <2>2, <3>1 DEF TriedAgain
      <4> QED
        BY <1>3, <4>1
    <3>3. PICK r \in DOMAIN todo : 1 < r /\ todo[r].object = x
      BY <3>2
    <3>4. \E p \in DOMAIN Tail(todo) : Tail(todo)[p] = todo[r]
      BY <1>3, <3>3
    <3> QED
      BY <1>2, <1>12, <3>3, <3>4 DEF InTodo
  <2>3. CASE call.busy # "log"
    <3>1. x = m_res.pd
      BY <1>2, <2>1, <2>3 DEF Firm, Call
    <3>2. x \in Base /\ x # nullptr
      BY <1>1, <1>2, <3>1, NullIsNone DEF Base, QueuePairsTypeOK
    <3>3. phase = "destroying"
      BY <1>1, <1>3, <1>5, <3>2 DEF TodoOK
    <3>4. OnlyHandlesLeft(todo, uses, m_res)
      BY <1>1, <1>12, <3>3 DEF TodoOK
    <3>5. user.type = "ah" /\ \A b \in DOMAIN todo : todo[b].object # user
      BY <1>3, <1>4, <3>1, <3>4 DEF OnlyHandlesLeft
    <3>6. user \notin InTodo
      BY <3>5 DEF InTodo
    <3>7. user \in Alive' \ InTodo' /\ o \in uses'[user] /\ m_res' = m_res
      BY <1>2, <1>4, <1>5, <1>12, <3>6
    <3> QED
      BY <1>12, <3>1, <3>3, <3>5, <3>7 DEF Left
  <2> QED
    BY <2>2, <2>3
<1>13. Accounted'
  <2>1. Base' = Base /\ SrqQueues' = SrqQueues /\ (\A o : Named(o)' <=> Named(o)) /\ m_qps' = m_qps
    BY <1>2, <1>6, MembersSame
  <2>2. ASSUME faults = << >>, phase \in {"base", "running"}, NEW o \in Alive
        PROVE  o.type \in {"ah", "addrinfo"} \/ o \in InTodo' \/ o \in Base \/ Named(o)
    <3>1. o.type \in {"ah", "addrinfo"} \/ o \in InTodo \/ o \in Base \/ Named(o)
      BY <1>1, <2>2 DEF Accounted
    <3> QED
      BY <1>5, <1>12, <2>2, <3>1
  <2>3. ASSUME faults = << >>, phase \in {"destroying", "gone"}, NEW o \in Alive
        PROVE  o \in InTodo' \/ Left(o)'
    <3>1. o \in InTodo \/ Left(o)
      BY <1>1, <2>3 DEF Accounted
    <3>2. CASE o \in InTodo
      BY <1>5, <1>12, <2>3, <3>2
    <3>3. CASE Left(o)
      <4>1. \A ah \in Alive \ InTodo : ah \in Alive' \ InTodo'
        BY <1>2, <1>5
      <4> QED
        BY <1>2, <2>1, <3>3, <4>1 DEF Left
    <3> QED
      BY <3>1, <3>2, <3>3
  <2> QED
    BY <1>2, <2>1, <2>2, <2>3 DEF Accounted
<1>14. UsersGoFirst'
  BY <1>2 DEF QueuePairsInvariant, QueuePairsInv, UsersGoFirst
<1> QED
  BY <1>7, <1>8, <1>11, <1>13, <1>14 DEF Core

\* Nothing is left to do.
LEMMA NothingTodo ==
    ASSUME todo' = << >>
    PROVE  TodoOK' /\ InTodo' = {} /\ Ended'
BY DEF TodoOK, InTodo, Ended, UsersFirst, UsedBetween, TriedAgain, OnlyHandlesLeft

\* Faults are added at the end.
LEMMA MoreFaults ==
    ASSUME QueuePairsTypeOK, NEW what \in Faults, faults' = Append(faults, what)
    PROVE  /\ faults' \in Seq(Faults) /\ faults' # << >> /\ Range(faults) \subseteq Range(faults')
           /\ Range(faults') = Range(faults) \cup {what}
<1>1. faults \in Seq(Faults)
  BY DEF QueuePairsTypeOK
<1>2. /\ Len(faults) \in Nat /\ DOMAIN faults = 1 .. Len(faults)
      /\ faults' \in Seq(Faults) /\ Len(faults') = Len(faults) + 1
      /\ \A i \in 1 .. Len(faults) : faults'[i] = faults[i]
      /\ faults'[Len(faults) + 1] = what
  BY <1>1, LenProperties, AppendProperties
<1>3. DOMAIN faults' = 1 .. Len(faults) + 1
  BY <1>2, LenProperties
<1>4. faults' # << >>
  BY <1>2, EmptySeq
<1>5. Range(faults) \subseteq Range(faults')
  BY <1>2, <1>3 DEF Range
<1>6. what \in Range(faults')
  BY <1>2, <1>3 DEF Range
<1>7. ASSUME NEW i \in DOMAIN faults' PROVE faults'[i] \in Range(faults) \cup {what}
  BY <1>2, <1>3 DEF Range
<1>8. Range(faults') \subseteq Range(faults) \cup {what}
  BY <1>7 DEF Range
<1> QED
  BY <1>2, <1>4, <1>5, <1>6, <1>8

\* The call throws.
LEMMA ThrowBusyKeeps ==
    ASSUME QueuePairsInvariant, ThrowBusy
    PROVE  QueuePairsTypeOK' /\ Core' /\ UsersGoFirst' /\ EndsOrderly'
<1> DEFINE call == Head(todo)
           x == Head(todo).object
<1> USE DEF Alive
<1>1. /\ QueuePairsTypeOK /\ Numbered(uses, made) /\ BaseOK /\ Early /\ Ended /\ ReliableOK
      /\ SrqsOK /\ UnreliableOK /\ ConnectedOK /\ TodoOK /\ Accounted
  BY Parts
<1>2. /\ todo # << >> /\ x \in Alive /\ call.busy = "throw" /\ todo' = << >>
      /\ \/ InUse(x) /\ faults' = faults
         \/ phase = "destroying" /\ faults' = Append(faults, "leave")
      /\ phase' = (IF phase = "destroying" THEN "terminated" ELSE phase)
      /\ UNCHANGED <<transport, calls, uses, made, m_res, m_qps, m_connected, m_srqs, m_udqp,
                     m_lastMCastConnKey, m_udpMcastConns, rts, qp>>
  BY DEF ThrowBusy, recorded
<1>3. /\ phase \in {"running", "destroying"} /\ 1 \in DOMAIN todo /\ todo[1] = call /\ call \in Calls
      /\ \A p \in DOMAIN todo : ~(p < 1)
  <2>1. \A p \in DOMAIN todo : ~(p < 1)
    <3>1. todo \in Seq(Calls)
      BY <1>1, <1>2, WhileTodo
    <3>2. \A p \in DOMAIN todo : p \in Nat /\ p >= 1
      BY <1>2, <3>1, TailOfCalls
    <3> QED
      BY <3>2
  <2> QED
    BY <1>1, <1>2, <2>1, WhileTodo
<1>4. \/ InUse(x) /\ faults' = faults
      \/ /\ phase = "destroying" /\ faults' \in Seq(Faults) /\ faults' # << >>
         /\ Range(faults) \subseteq Range(faults') /\ "leave" \in Range(faults')
  <2>1. CASE InUse(x) /\ faults' = faults
    BY <2>1
  <2>2. CASE phase = "destroying" /\ faults' = Append(faults, "leave")
    <3>1. "leave" \in Faults
      BY DEF Faults
    <3> QED
      BY <1>1, <2>2, <3>1, MoreFaults
  <2> QED
    BY <1>2, <2>1, <2>2
<1>5. Shrunk(uses, uses) /\ uses' = uses /\ SameMembers /\ Range(faults) \subseteq Range(faults')
  BY <1>2, <1>4 DEF Shrunk, SameMembers
<1>6. QueuePairsTypeOK'
  <2>1. phase' \in Phases /\ todo' \in Seq(Calls) /\ faults' \in Seq(Faults)
    BY <1>1, <1>2, <1>4 DEF QueuePairsTypeOK, Phases
  <2> QED
    BY <1>1, <1>2, <2>1 DEF QueuePairsTypeOK
<1>7. Numbered(uses', made') /\ BaseOK' /\ ReliableOK' /\ SrqsOK' /\ UnreliableOK' /\ ConnectedOK'
  <2>1. (phase' = phase \/ phase' \notin {"base", "running"}) /\ phase' # "base"
    BY <1>2, <1>3
  <2> QED
    BY <1>1, <1>2, <1>5, <2>1, MembersShrunk
<1>8. TodoOK' /\ Early' /\ Ended'
  <2>1. Early'
    BY <1>2, <1>3 DEF Early
  <2> QED
    BY <1>2, <2>1, NothingTodo
<1>9. InUse(x) => faults # << >> /\ (phase = "destroying" => ~NothingLost)
  <2>1. SUFFICES ASSUME InUse(x) PROVE faults # << >> /\ (phase = "destroying" => ~NothingLost)
    OBVIOUS
  <2>2. PICK user \in Alive : x \in uses[user]
    BY <2>1 DEF InUse
  <2>3. call \in Throws /\ call \in Firm(m_res)
    BY <1>2, <1>3 DEF Throws, Firm, Call
  <2>4. \A C : UsersFirst(todo, uses, C) => call \notin C
    BY <1>3, <2>2 DEF UsersFirst
  <2> QED
    BY <1>1, <2>3, <2>4 DEF TodoOK
<1>10. faults' # << >>
  BY <1>4, <1>9
<1>11. Accounted' /\ UsersGoFirst'
  BY <1>10 DEF Accounted, UsersGoFirst
<1>12. EndsOrderly'
  <2>1. phase' \in {"terminated", "running"}
    BY <1>2, <1>3
  <2>2. phase' = "terminated" => Range(faults') \cap {"leave", "queue pair of an srq", "self"} # {}
    BY <1>2, <1>3, <1>4, <1>9 DEF NothingLost
  <2> QED
    BY <2>1, <2>2 DEF EndsOrderly
<1> QED
  BY <1>6, <1>7, <1>8, <1>11, <1>12 DEF Core

\* There is no object to destroy.
LEMMA DestroyNothingKeeps ==
    ASSUME QueuePairsInvariant, DestroyNothing
    PROVE  QueuePairsTypeOK' /\ Core' /\ UsersGoFirst' /\ EndsOrderly'
<1> DEFINE call == Head(todo)
           x == Head(todo).object
<1> USE DEF Alive
<1>1. /\ QueuePairsTypeOK /\ Numbered(uses, made) /\ BaseOK /\ Early /\ Ended /\ ReliableOK
      /\ SrqsOK /\ UnreliableOK /\ ConnectedOK /\ TodoOK /\ Accounted
  BY Parts
<1>2. /\ todo # << >> /\ x \notin Alive /\ todo' = << >>
      /\ phase' = (IF x = nullptr THEN "crashed" ELSE "dangling")
      /\ UNCHANGED <<transport, calls, faults, uses, made, m_res, m_qps, m_connected, m_srqs, m_udqp,
                     m_lastMCastConnKey, m_udpMcastConns, rts, qp>>
  BY DEF DestroyNothing, recorded
<1>3. phase \in {"running", "destroying"} /\ 1 \in DOMAIN todo /\ todo[1] = call
  BY <1>1, <1>2, WhileTodo
<1>4. x = nullptr /\ transport = "ud"
  BY <1>1, <1>2, <1>3 DEF TodoOK
<1>5. Shrunk(uses, uses) /\ uses' = uses /\ SameMembers
  BY <1>2 DEF Shrunk, SameMembers
<1>6. QueuePairsTypeOK'
  <2>1. phase' \in Phases /\ todo' \in Seq(Calls)
    BY <1>2 DEF Phases
  <2> QED
    BY <1>1, <1>2, <2>1 DEF QueuePairsTypeOK
<1>7. Numbered(uses', made') /\ BaseOK' /\ ReliableOK' /\ SrqsOK' /\ UnreliableOK' /\ ConnectedOK'
  BY <1>1, <1>2, <1>4, <1>5, MembersShrunk
<1>8. TodoOK' /\ Early' /\ Ended'
  <2>1. Early'
    BY <1>2, <1>4 DEF Early
  <2> QED
    BY <1>2, <2>1, NothingTodo
<1>9. Accounted' /\ UsersGoFirst'
  BY <1>2, <1>4 DEF Accounted, UsersGoFirst, QueuePairsInvariant, QueuePairsInv
<1>10. EndsOrderly'
  BY <1>2, <1>4 DEF EndsOrderly
<1> QED
  BY <1>6, <1>7, <1>8, <1>9, <1>10 DEF Core

\* The destructors begin.
LEMMA DestructKeeps ==
    ASSUME QueuePairsInvariant, Destruct
    PROVE  QueuePairsTypeOK' /\ Core' /\ UsersGoFirst' /\ EndsOrderly'
<1> USE DEF Alive
<1>1. /\ QueuePairsTypeOK /\ Numbered(uses, made) /\ BaseOK /\ Early /\ Ended /\ ReliableOK
      /\ SrqsOK /\ UnreliableOK /\ ConnectedOK /\ TodoOK /\ Accounted
  BY Parts
<1>2. PICK D : /\ phase = "running" /\ todo = << >> /\ qp = NoQp /\ phase' = "destroying"
               /\ D = (IF transport = "rc" THEN destroyQPs(m_qps, m_srqs)
                       ELSE destroyUdQPs(m_udpMcastConns, m_udqp))
               /\ todo' = D \o baseCalls(m_res)
               /\ UNCHANGED <<transport, calls, faults, uses, made, m_res, m_qps, m_connected, m_srqs, m_udqp,
                              m_lastMCastConnKey, m_udpMcastConns, rts, qp>>
  BY DEF Destruct, Ready, recorded
<1>3. CallsOK(D)
  <2>1. transport = "rc" \/ transport = "ud"
    BY <1>1, QueuePairsAssumption DEF QueuePairsTypeOK
  <2>2. CASE transport = "rc"
    BY <1>1, <1>2, <2>2, ReliableCalls
  <2>3. CASE transport = "ud"
    BY <1>1, <1>2, <2>3, UnreliableCalls
  <2> QED
    BY <2>1, <2>2, <2>3
<1> DEFINE T == D \o baseCalls(m_res)
<1>4. /\ \A p \in DOMAIN T : T[p].object \in Alive
      /\ T \in Seq(Calls) /\ UsedBetween(T, uses)
      /\ NothingLost => UsersFirst(T, uses, Throws)
      /\ faults = << >> =>
           /\ UsersFirst(T, uses, Firm(m_res)) /\ TriedAgain(T, uses, Firm(m_res))
           /\ OnlyHandlesLeft(T, uses, m_res)
           /\ \A o \in Alive : \/ \E p \in DOMAIN T : T[p].object = o
                               \/ o.type \in {"ah", "addrinfo"}
                               \/ o \in SrqQueues /\ \A k \in DOMAIN m_qps : m_qps[k].recv_cq # o
  BY <1>1, <1>2, <1>3, CallsWithBase
<1>5. todo' = T
  BY <1>2
<1> HIDE DEF T
<1>6. Shrunk(uses, uses) /\ uses' = uses /\ SameMembers /\ faults' = faults /\ m_res' = m_res
  BY <1>2 DEF Shrunk, SameMembers
<1>7. QueuePairsTypeOK'
  <2>1. phase' \in Phases
    BY <1>2 DEF Phases
  <2> QED
    BY <1>1, <1>2, <1>4, <1>5, <2>1 DEF QueuePairsTypeOK
<1>8. Numbered(uses', made') /\ BaseOK' /\ ReliableOK' /\ SrqsOK' /\ UnreliableOK' /\ ConnectedOK'
  BY <1>1, <1>2, <1>6, MembersShrunk
<1>9. Early' /\ Ended'
  BY <1>2 DEF Early, Ended
<1>10. TodoOK'
  <2>1. (NothingLost' <=> NothingLost) /\ Firm(m_res)' = Firm(m_res) /\ Throws' = Throws
    BY <1>6 DEF NothingLost, Firm, Throws
  <2> QED
    BY <1>2, <1>4, <1>5, <1>6, <2>1 DEF TodoOK
<1>11. Accounted'
  <2>1. SrqQueues' = SrqQueues /\ InTodo' = {T[p].object : p \in DOMAIN T}
    BY <1>5, <1>6, MembersSame DEF InTodo
  <2>2. ASSUME faults = << >>, NEW o \in Alive PROVE o \in InTodo' \/ Left(o)'
    BY <1>2, <1>4, <2>1, <2>2 DEF Left
  <2> QED
    BY <1>2, <1>6, <2>2 DEF Accounted
<1>12. UsersGoFirst' /\ EndsOrderly'
  BY <1>2 DEF QueuePairsInvariant, QueuePairsInv, UsersGoFirst, EndsOrderly
<1> QED
  BY <1>7, <1>8, <1>9, <1>10, <1>11, <1>12 DEF Core

-----------------------------------------------------------------------------
(***************************************************************************)
(* More exists                                                             *)
(***************************************************************************)
\* There is more than before.  Of what was there only objects of X got users; the
\* numbers of what is new are behind m.
Grown(u, v, m, X) ==
    /\ DOMAIN u \subseteq DOMAIN v /\ \A o \in DOMAIN u : v[o] = u[o]
    /\ \A o \in DOMAIN v \ DOMAIN u : o.no > m /\ v[o] \cap DOMAIN u \subseteq X

\* These are steps that make objects of those of X and of one another.
StepsOK(steps, X) ==
    /\ Len(steps) \in Nat
    /\ \A o \in ObjectsOf(steps) :
         /\ o \in Objects /\ made < o.no /\ o.no <= made + Len(steps)
         /\ partsOf(steps, o) \subseteq X \cup ObjectsOf(steps)
         /\ \A x \in partsOf(steps, o) : <<o.type, x.type>> \in MadeOf

\* The objects come to exist.
LEMMA ExistGrows ==
    ASSUME QueuePairsTypeOK, Numbered(uses, made), NEW steps, NEW X, StepsOK(steps, X), X \subseteq Alive,
           NEW objects, objects \subseteq ObjectsOf(steps), Exist(steps, objects)
    PROVE  /\ Grown(uses, uses', made, X) /\ Numbered(uses', made') /\ made' \in Nat
           /\ Alive' \subseteq Objects /\ \A o \in Alive' : uses'[o] \subseteq Objects
           /\ Alive' = Alive \cup objects
           /\ \A o \in objects : o \notin Alive /\ o \in Alive' /\ uses'[o] = partsOf(steps, o)
<1> USE DEF Alive
<1>1. uses' = [o \in Alive \cup objects |-> IF o \in objects THEN partsOf(steps, o) ELSE uses[o]]
  BY DEF Exist
<1>2. made' = made + Len(steps) /\ Len(steps) \in Nat /\ made \in Nat
  BY DEF Exist, QueuePairsTypeOK, StepsOK
<1>3. /\ Alive \subseteq Objects /\ \A o \in Alive : uses[o] \subseteq Objects
      /\ \A o \in Alive : o.no \in Nat /\ o.no <= made
  <2>1. Alive \subseteq Objects /\ \A o \in Alive : uses[o] \subseteq Objects
    BY DEF QueuePairsTypeOK
  <2> QED
    BY <2>1 DEF Objects, Numbered
<1>4. /\ \A o \in ObjectsOf(steps) :
            /\ o \in Objects /\ o.no \in Nat /\ made < o.no /\ o.no <= made + Len(steps)
            /\ partsOf(steps, o) \subseteq X \cup ObjectsOf(steps)
            /\ \A x \in partsOf(steps, o) : <<o.type, x.type>> \in MadeOf
  BY DEF StepsOK, Objects
<1>5. \A o \in objects : o \notin Alive
  BY <1>2, <1>3, <1>4
<1>6. DOMAIN uses' = Alive \cup objects
  BY <1>1
<1>7. \A o \in Alive : uses'[o] = uses[o]
  BY <1>1, <1>5
<1>8. \A o \in objects : uses'[o] = partsOf(steps, o)
  BY <1>1
<1>9. \A o \in objects : partsOf(steps, o) \subseteq Objects /\ partsOf(steps, o) \cap Alive \subseteq X
  <2>1. \A o \in ObjectsOf(steps) : o \in Objects /\ o \notin Alive
    BY <1>2, <1>3, <1>4
  <2> QED
    BY <1>3, <1>4, <2>1
<1>10. Grown(uses, uses', made, X)
  <2>1. \A o \in Alive' \ Alive : o.no > made /\ uses'[o] \cap Alive \subseteq X
    BY <1>2, <1>4, <1>6, <1>8, <1>9
  <2> QED
    BY <1>6, <1>7, <2>1 DEF Grown
<1>11. Numbered(uses', made')
  <2>1. ASSUME NEW o \in Alive
        PROVE  o.no <= made' /\ \A x \in uses'[o] : x.no <= made' /\ <<o.type, x.type>> \in MadeOf
    <3>1. o.no <= made /\ \A x \in uses[o] : x \in Objects /\ x.no <= made /\ <<o.type, x.type>> \in MadeOf
      BY <1>3 DEF Numbered
    <3>2. \A x \in uses[o] : x.no \in Nat
      BY <3>1 DEF Objects
    <3>3. \A n \in Nat : n <= made => n <= made'
      BY <1>2
    <3> QED
      BY <1>3, <1>7, <3>1, <3>2, <3>3
  <2>2. ASSUME NEW o \in objects
        PROVE  o.no <= made' /\ \A x \in uses'[o] : x.no <= made' /\ <<o.type, x.type>> \in MadeOf
    <3>1. \A n \in Nat : n <= made => n <= made'
      BY <1>2
    <3>2. \A x \in X \cup ObjectsOf(steps) : x.no <= made'
      BY <1>2, <1>3, <1>4, <3>1
    <3> QED
      BY <1>2, <1>4, <1>8, <3>2
  <2> QED
    BY <1>6, <2>1, <2>2 DEF Numbered
<1>12. Alive' \subseteq Objects /\ \A o \in Alive' : uses'[o] \subseteq Objects
  BY <1>3, <1>4, <1>6, <1>7, <1>8, <1>9
<1> QED
  BY <1>2, <1>5, <1>6, <1>8, <1>10, <1>11, <1>12

\* What a failing call has made is among what it makes.
LEMMA FirstAmongAll ==
    ASSUME NEW steps, NEW k, Len(steps) \in Nat, k \in 1 .. Len(steps), NEW part, part \subseteq DOMAIN steps[k]
    PROVE  objectsOfFirst(steps, k - 1) \cup part \subseteq ObjectsOf(steps)
<1>1. \A j \in 1 .. k - 1 : j \in 1 .. Len(steps)
  OBVIOUS
<1> QED
  BY <1>1 DEF objectsOfFirst, ObjectsOf

\* A failing call.
LEMMA FailsGrows ==
    ASSUME QueuePairsTypeOK, Numbered(uses, made), NEW steps, NEW X, StepsOK(steps, X), X \subseteq Alive,
           NEW k, k \in 1 .. Len(steps), NEW what \in Faults, Fails(steps, k, what)
    PROVE  /\ Grown(uses, uses', made, X) /\ Numbered(uses', made') /\ made' \in Nat
           /\ Alive' \subseteq Objects /\ \A o \in Alive' : uses'[o] \subseteq Objects
           /\ faults' \in Seq(Faults) /\ faults' # << >>
           /\ Range(faults') = Range(faults) \cup {what}
<1>1. Len(steps) \in Nat
  BY DEF StepsOK
<1>2. PICK part : part \subseteq DOMAIN steps[k] /\ Exist(steps, objectsOfFirst(steps, k - 1) \cup part)
  BY DEF Fails
<1>3. objectsOfFirst(steps, k - 1) \cup part \subseteq ObjectsOf(steps)
  BY <1>1, <1>2, FirstAmongAll
<1>4. faults' = Append(faults, what)
  BY DEF Fails
<1> QED
  BY <1>2, <1>3, <1>4, ExistGrows, MoreFaults

\* What is not of X gets no users.
LEMMA OnlyGrown ==
    ASSUME NEW u, NEW v, NEW m, NEW X, Grown(u, v, m, X), NEW x \in DOMAIN u, x \notin X,
           NEW S, Only(u, x, S)
    PROVE  Only(v, x, S)
BY DEF Grown, Only

\* A queue pair stays what it is when there is more.
LEMMA PairGrown ==
    ASSUME NEW u, NEW v, NEW m, NEW X, Grown(u, v, m, X), NEW Q, NEW R, NEW q, PairOK(u, Q, q),
           Q \subseteq R, R \cap DOMAIN u \subseteq Q,
           \A x \in X : x.type # "qp" /\ (x.type = "cq" => x \in Q)
    PROVE  PairOK(v, R, q)
<1>1. /\ q.qp \in DOMAIN u /\ q.send_cq \in DOMAIN u /\ q.recv_cq \in DOMAIN u
      /\ q.qp.type = "qp" /\ q.send_cq.type = "cq" /\ q.recv_cq.type = "cq"
      /\ q.send_cq # q.recv_cq /\ q.send_cq \in u[q.qp] /\ q.recv_cq \in u[q.qp]
      /\ \A x \in u[q.qp] : x.type = "cq" => x \in {q.send_cq, q.recv_cq}
      /\ Only(u, q.qp, {}) /\ Only(u, q.send_cq, {q.qp}) /\ q.send_cq \notin Q
      /\ q.recv_cq \in Q \/ Only(u, q.recv_cq, {q.qp})
  BY DEF PairOK, PointersOf
<1>2. v[q.qp] = u[q.qp] /\ DOMAIN u \subseteq DOMAIN v
  BY <1>1 DEF Grown
<1>3. q.qp \notin X /\ q.send_cq \notin X /\ (q.recv_cq \in X => q.recv_cq \in Q)
  BY <1>1
<1>4. Only(v, q.qp, {}) /\ Only(v, q.send_cq, {q.qp})
  BY <1>1, <1>3, OnlyGrown
<1>5. q.recv_cq \in R \/ Only(v, q.recv_cq, {q.qp})
  BY <1>1, <1>3, OnlyGrown
<1>6. q.send_cq \notin R
  BY <1>1
<1> QED
  BY <1>1, <1>2, <1>4, <1>5, <1>6 DEF PairOK, PointersOf

\* So does a group.
LEMMA GroupGrown ==
    ASSUME NEW u, NEW v, NEW m, NEW X, Grown(u, v, m, X), NEW g, GroupOK(u, g),
           ObjectsOfGroup(g) \cap X = {}
    PROVE  GroupOK(v, g)
<1>1. ObjectsOfGroup(g) \subseteq DOMAIN u /\ DOMAIN u \subseteq DOMAIN v
  BY DEF GroupOK, Grown
<1>2. ASSUME NEW x \in ObjectsOfGroup(g), NEW S, Only(u, x, S) PROVE Only(v, x, S)
  BY <1>1, <1>2, OnlyGrown
<1>3. /\ g.channel \in ObjectsOfGroup(g) /\ g.id \in ObjectsOfGroup(g) /\ g.pd \in ObjectsOfGroup(g)
      /\ g.mr \in ObjectsOfGroup(g) /\ g.scq \in ObjectsOfGroup(g) /\ g.rcq \in ObjectsOfGroup(g)
      /\ g.qp \in ObjectsOfGroup(g) /\ g.membership \in ObjectsOfGroup(g) /\ g.ah \in ObjectsOfGroup(g)
  BY DEF ObjectsOfGroup
<1>4. /\ Only(v, g.membership, {}) /\ Only(v, g.ah, {}) /\ Only(v, g.qp, {g.membership})
      /\ Only(v, g.scq, {g.qp}) /\ Only(v, g.rcq, {g.qp}) /\ Only(v, g.mr, {})
      /\ Only(v, g.pd, {g.mr, g.qp}) /\ Only(v, g.id, {g.qp}) /\ Only(v, g.channel, {g.id})
  BY <1>2, <1>3 DEF GroupOK
<1> QED
  BY <1>1, <1>4 DEF GroupOK

-----------------------------------------------------------------------------
(***************************************************************************)
(* What the calls make                                                     *)
(***************************************************************************)
\* What an object is made of is what the only step that makes it says.
LEMMA PartsOfStep ==
    ASSUME NEW steps, NEW k, NEW o, k \in DOMAIN steps, o \in DOMAIN steps[k],
           \A j \in DOMAIN steps : o \in DOMAIN steps[j] => j = k
    PROVE  partsOf(steps, o) = steps[k][o]
<1>1. (CHOOSE j \in DOMAIN steps : o \in DOMAIN steps[j]) = k
  OBVIOUS
<1> QED
  BY <1>1 DEF partsOf

\* A step that makes one object, and one that makes none.
LEMMA OneOrNone ==
    /\ \A o, of : DOMAIN One(o, of) = {o} /\ One(o, of)[o] = of
    /\ DOMAIN Change = {}
BY DEF One, Change

\* New objects are not the null pointer, and have numbers of their own.
LEMMA FreshObjects ==
    ASSUME QueuePairsTypeOK
    PROVE  /\ made \in Nat
           /\ \A type \in Types : \A k \in Nat \ {0} :
                 /\ fresh(type, k) \in Objects /\ fresh(type, k).type = type
                 /\ fresh(type, k).no = made + k /\ made < made + k
           /\ \A s, t \in Types : \A j, k \in Nat \ {0} : j # k => fresh(s, j) # fresh(t, k)
<1>1. made \in Nat
  BY DEF QueuePairsTypeOK
<1>2. \A type \in Types : \A k \in Nat \ {0} :
          /\ fresh(type, k) \in Objects /\ fresh(type, k).type = type
          /\ fresh(type, k).no = made + k /\ made < made + k
  BY <1>1 DEF fresh, Objects
<1>3. \A s, t \in Types : \A j, k \in Nat \ {0} : j # k => fresh(s, j) # fresh(t, k)
  BY <1>1, <1>2
<1> QED
  BY <1>1, <1>2, <1>3

\* The queues and the queue pair of a connection.
LEMMA CreateQueues ==
    ASSUME QueuePairsTypeOK, m_res.ib_ctx.type = "ib_ctx", m_res.pd.type = "pd"
    PROVE  /\ Len(createQueues) = 4 /\ DOMAIN createQueues = 1 .. 4
           /\ StepsOK(createQueues, {m_res.ib_ctx, m_res.pd})
           /\ ObjectsOf(createQueues) = PointersOf(queuePair)
           /\ partsOf(createQueues, queuePair.send_cq) = {m_res.ib_ctx}
           /\ partsOf(createQueues, queuePair.recv_cq) = {m_res.ib_ctx}
           /\ partsOf(createQueues, queuePair.qp) = {m_res.pd, queuePair.send_cq, queuePair.recv_cq}
           /\ queuePair \in Pairs /\ queuePair.qp.type = "qp"
           /\ queuePair.send_cq.type = "cq" /\ queuePair.recv_cq.type = "cq"
           /\ queuePair.send_cq # queuePair.recv_cq
<1> DEFINE L == createQueues
           a == fresh("cq", 1)
           b == fresh("cq", 2)
           c == fresh("qp", 3)
<1>1. /\ a \in Objects /\ a.type = "cq" /\ a.no = made + 1
      /\ b \in Objects /\ b.type = "cq" /\ b.no = made + 2
      /\ c \in Objects /\ c.type = "qp" /\ c.no = made + 3
      /\ made \in Nat /\ a # b /\ a # c /\ b # c
  <2>1. "cq" \in Types /\ "qp" \in Types
    BY DEF Types
  <2> QED
    BY <2>1, FreshObjects
<1>2. queuePair.send_cq = a /\ queuePair.recv_cq = b /\ queuePair.qp = c
  BY DEF queuePair
<1>3. queuePair \in Pairs
  BY <1>1 DEF queuePair, Pairs, Pointers
<1> HIDE DEF a, b, c
<1>4. L = <<One(a, {m_res.ib_ctx}), One(b, {m_res.ib_ctx}), One(c, {m_res.pd, a, b}), Change>>
  BY DEF createQueues, a, b, c
<1> HIDE DEF L
<1>5. /\ Len(L) = 4 /\ DOMAIN L = 1 .. 4 /\ L[1] = One(a, {m_res.ib_ctx}) /\ L[2] = One(b, {m_res.ib_ctx})
      /\ L[3] = One(c, {m_res.pd, a, b}) /\ L[4] = Change
  BY <1>4
<1>6. /\ DOMAIN L[1] = {a} /\ DOMAIN L[2] = {b} /\ DOMAIN L[3] = {c} /\ DOMAIN L[4] = {}
      /\ L[1][a] = {m_res.ib_ctx} /\ L[2][b] = {m_res.ib_ctx} /\ L[3][c] = {m_res.pd, a, b}
  <2>1. /\ DOMAIN One(a, {m_res.ib_ctx}) = {a} /\ One(a, {m_res.ib_ctx})[a] = {m_res.ib_ctx}
        /\ DOMAIN One(b, {m_res.ib_ctx}) = {b} /\ One(b, {m_res.ib_ctx})[b] = {m_res.ib_ctx}
        /\ DOMAIN One(c, {m_res.pd, a, b}) = {c} /\ One(c, {m_res.pd, a, b})[c] = {m_res.pd, a, b}
        /\ DOMAIN Change = {}
    BY OneOrNone
  <2> QED
    BY ONLY <1>5, <2>1
<1>7. \A k \in 1 .. 4 : k = 1 \/ k = 2 \/ k = 3 \/ k = 4
  OBVIOUS
<1>8. 1 \in 1 .. 4 /\ 2 \in 1 .. 4 /\ 3 \in 1 .. 4 /\ 4 \in 1 .. 4
  OBVIOUS
<1>9. partsOf(L, a) = {m_res.ib_ctx}
  <2>1. 1 \in DOMAIN L /\ a \in DOMAIN L[1]
    BY <1>5, <1>6, <1>8
  <2>2. \A j \in DOMAIN L : a \in DOMAIN L[j] => j = 1
    BY <1>1, <1>5, <1>6, <1>7
  <2>3. partsOf(L, a) = L[1][a]
    BY ONLY <2>1, <2>2, PartsOfStep
  <2> QED
    BY <1>6, <2>3
<1>10. partsOf(L, b) = {m_res.ib_ctx}
  <2>1. 2 \in DOMAIN L /\ b \in DOMAIN L[2]
    BY <1>5, <1>6, <1>8
  <2>2. \A j \in DOMAIN L : b \in DOMAIN L[j] => j = 2
    BY <1>1, <1>5, <1>6, <1>7
  <2>3. partsOf(L, b) = L[2][b]
    BY ONLY <2>1, <2>2, PartsOfStep
  <2> QED
    BY <1>6, <2>3
<1>11. partsOf(L, c) = {m_res.pd, a, b}
  <2>1. 3 \in DOMAIN L /\ c \in DOMAIN L[3]
    BY <1>5, <1>6, <1>8
  <2>2. \A j \in DOMAIN L : c \in DOMAIN L[j] => j = 3
    BY <1>1, <1>5, <1>6, <1>7
  <2>3. partsOf(L, c) = L[3][c]
    BY ONLY <2>1, <2>2, PartsOfStep
  <2> QED
    BY <1>6, <2>3
<1>12. ObjectsOf(L) = {a, b, c}
  <2>1. ASSUME NEW o \in ObjectsOf(L) PROVE o \in {a, b, c}
    BY <1>5, <1>6, <1>7 DEF ObjectsOf, objectsOfFirst
  <2>2. ASSUME NEW o \in {a, b, c} PROVE o \in ObjectsOf(L)
    BY <1>5, <1>6, <1>8 DEF ObjectsOf, objectsOfFirst
  <2> QED
    BY <2>1, <2>2
<1>13. StepsOK(L, {m_res.ib_ctx, m_res.pd})
  <2>1. Len(L) \in Nat
    BY <1>5
  <2>2. ASSUME NEW o \in {a, b, c}
        PROVE  /\ o \in Objects /\ made < o.no /\ o.no <= made + Len(L)
               /\ partsOf(L, o) \subseteq {m_res.ib_ctx, m_res.pd} \cup {a, b, c}
               /\ \A x \in partsOf(L, o) : <<o.type, x.type>> \in MadeOf
    <3>1. CASE o = a
      BY <1>1, <1>5, <1>9, <3>1 DEF MadeOf
    <3>2. CASE o = b
      BY <1>1, <1>5, <1>10, <3>2 DEF MadeOf
    <3>3. CASE o = c
      BY <1>1, <1>5, <1>11, <3>3 DEF MadeOf
    <3> QED
      BY <3>1, <3>2, <3>3
  <2> QED
    BY <1>12, <2>1, <2>2 DEF StepsOK
<1> QED
  BY <1>1, <1>2, <1>3, <1>5, <1>9, <1>10, <1>11, <1>12, <1>13 DEF L, PointersOf

\* A shared receive queue and its completion queue.
LEMMA CreateSrq ==
    ASSUME QueuePairsTypeOK, m_res.ib_ctx.type = "ib_ctx", m_res.pd.type = "pd"
    PROVE  /\ Len(createSrq) = 2 /\ DOMAIN createSrq = 1 .. 2
           /\ StepsOK(createSrq, {m_res.ib_ctx, m_res.pd})
           /\ ObjectsOf(createSrq) = {fresh("srq", 1),
                             fresh("cq", 2)}
           /\ partsOf(createSrq, fresh("srq", 1)) = {m_res.pd}
           /\ partsOf(createSrq, fresh("cq", 2)) = {m_res.ib_ctx}
<1> DEFINE L == createSrq
           a == fresh("srq", 1)
           b == fresh("cq", 2)
<1>1. /\ made \in Nat
      /\ a \in Objects /\ a.type = "srq" /\ a.no = made + 1
      /\ b \in Objects /\ b.type = "cq" /\ b.no = made + 2
  <2>1. "cq" \in Types /\ "srq" \in Types
    BY DEF Types
  <2> QED
    BY <2>1, FreshObjects
<1>2. a # b
  BY <1>1
<1> HIDE DEF a, b
<1>3. L = <<One(a, {m_res.pd}),
           One(b, {m_res.ib_ctx})>>
  BY DEF createSrq, a, b
<1> HIDE DEF L
<1>4. /\ Len(L) = 2 /\ DOMAIN L = 1 .. 2
      /\ L[1] = One(a, {m_res.pd})
      /\ L[2] = One(b, {m_res.ib_ctx})
  BY <1>3
<1>5. /\ DOMAIN L[1] = {a}
      /\ DOMAIN L[2] = {b}
      /\ L[1][a] = {m_res.pd}
      /\ L[2][b] = {m_res.ib_ctx}
  <2>1. /\ DOMAIN Change = {}
        /\ DOMAIN One(a, {m_res.pd}) = {a} /\ One(a, {m_res.pd})[a] = {m_res.pd}
        /\ DOMAIN One(b, {m_res.ib_ctx}) = {b} /\ One(b, {m_res.ib_ctx})[b] = {m_res.ib_ctx}
    BY OneOrNone
  <2> QED
    BY ONLY <1>4, <2>1
<1>6. \A k \in 1 .. 2 : k = 1 \/ k = 2
  OBVIOUS
<1>7. 1 \in 1 .. 2 /\ 2 \in 1 .. 2
  OBVIOUS
<1>8. partsOf(L, a) = {m_res.pd}
  <2>1. 1 \in DOMAIN L /\ a \in DOMAIN L[1]
    BY <1>4, <1>5, <1>7
  <2>2. \A j \in DOMAIN L : a \in DOMAIN L[j] => j = 1
    BY <1>2, <1>4, <1>5, <1>6
  <2>3. partsOf(L, a) = L[1][a]
    BY ONLY <2>1, <2>2, PartsOfStep
  <2> QED
    BY <1>5, <2>3
<1>9. partsOf(L, b) = {m_res.ib_ctx}
  <2>1. 2 \in DOMAIN L /\ b \in DOMAIN L[2]
    BY <1>4, <1>5, <1>7
  <2>2. \A j \in DOMAIN L : b \in DOMAIN L[j] => j = 2
    BY <1>2, <1>4, <1>5, <1>6
  <2>3. partsOf(L, b) = L[2][b]
    BY ONLY <2>1, <2>2, PartsOfStep
  <2> QED
    BY <1>5, <2>3
<1>10. ObjectsOf(L) = {a, b}
  <2>1. ASSUME NEW o \in ObjectsOf(L) PROVE o \in {a, b}
    <3>1. PICK k \in 1 .. 2 : o \in DOMAIN L[k]
      BY <1>4 DEF ObjectsOf, objectsOfFirst
    <3> QED
      BY <1>5, <1>6, <3>1
  <2>2. ASSUME NEW o \in {a, b} PROVE o \in ObjectsOf(L)
    <3>1. \E k \in 1 .. 2 : o \in DOMAIN L[k]
      BY <1>5, <1>7
    <3> QED
      BY <1>4, <3>1 DEF ObjectsOf, objectsOfFirst
  <2> QED
    BY <2>1, <2>2
<1>11. StepsOK(L, {m_res.ib_ctx, m_res.pd})
  <2>1. Len(L) \in Nat
    BY <1>4
  <2>2. ASSUME NEW o \in {a, b}
        PROVE  /\ o \in Objects /\ made < o.no /\ o.no <= made + Len(L)
               /\ partsOf(L, o) \subseteq {m_res.ib_ctx, m_res.pd} \cup {a, b}
               /\ \A x \in partsOf(L, o) : <<o.type, x.type>> \in MadeOf
    <3>1. CASE o = a
      BY <1>1, <1>4, <1>8, <3>1 DEF MadeOf
    <3>2. CASE o = b
      BY <1>1, <1>4, <1>9, <3>2 DEF MadeOf
    <3> QED
      BY <3>1, <3>2
  <2> QED
    BY <1>10, <2>1, <2>2 DEF StepsOK
<1> QED
  BY <1>4, <1>8, <1>9, <1>10, <1>11 DEF L, a, b

\* The queue pair of a connection that shares a receive queue.
LEMMA CreateForSrq ==
    ASSUME QueuePairsTypeOK, m_res.ib_ctx.type = "ib_ctx", m_res.pd.type = "pd",
           NEW srq, srq.recv_cq.type = "cq", srq.shared_rq.type = "srq"
    PROVE  /\ Len(createForSrq(srq)) = 3 /\ DOMAIN createForSrq(srq) = 1 .. 3
           /\ StepsOK(createForSrq(srq), {m_res.ib_ctx, m_res.pd, srq.recv_cq, srq.shared_rq})
           /\ ObjectsOf(createForSrq(srq)) = {fresh("cq", 1),
                             fresh("qp", 2)}
           /\ partsOf(createForSrq(srq), fresh("cq", 1)) = {m_res.ib_ctx}
           /\ partsOf(createForSrq(srq), fresh("qp", 2)) = {m_res.pd, fresh("cq", 1), srq.recv_cq, srq.shared_rq}
<1> DEFINE L == createForSrq(srq)
           a == fresh("cq", 1)
           b == fresh("qp", 2)
<1>1. /\ made \in Nat
      /\ a \in Objects /\ a.type = "cq" /\ a.no = made + 1
      /\ b \in Objects /\ b.type = "qp" /\ b.no = made + 2
  <2>1. "cq" \in Types /\ "qp" \in Types
    BY DEF Types
  <2> QED
    BY <2>1, FreshObjects
<1>2. a # b
  BY <1>1
<1> HIDE DEF a, b
<1>3. L = <<One(a, {m_res.ib_ctx}),
           One(b, {m_res.pd, a, srq.recv_cq, srq.shared_rq}),
           Change>>
  BY DEF createForSrq, a, b
<1> HIDE DEF L
<1>4. /\ Len(L) = 3 /\ DOMAIN L = 1 .. 3
      /\ L[1] = One(a, {m_res.ib_ctx})
      /\ L[2] = One(b, {m_res.pd, a, srq.recv_cq, srq.shared_rq})
      /\ L[3] = Change
  BY <1>3
<1>5. /\ DOMAIN L[1] = {a}
      /\ DOMAIN L[2] = {b}
      /\ DOMAIN L[3] = {}
      /\ L[1][a] = {m_res.ib_ctx}
      /\ L[2][b] = {m_res.pd, a, srq.recv_cq, srq.shared_rq}
  <2>1. /\ DOMAIN Change = {}
        /\ DOMAIN One(a, {m_res.ib_ctx}) = {a} /\ One(a, {m_res.ib_ctx})[a] = {m_res.ib_ctx}
        /\ DOMAIN One(b, {m_res.pd, a, srq.recv_cq, srq.shared_rq}) = {b} /\ One(b, {m_res.pd, a, srq.recv_cq, srq.shared_rq})[b] = {m_res.pd, a, srq.recv_cq, srq.shared_rq}
    BY OneOrNone, ZenonT(60)
  <2> QED
    BY ONLY <1>4, <2>1
<1>6. \A k \in 1 .. 3 : k = 1 \/ k = 2 \/ k = 3
  OBVIOUS
<1>7. 1 \in 1 .. 3 /\ 2 \in 1 .. 3 /\ 3 \in 1 .. 3
  OBVIOUS
<1>8. partsOf(L, a) = {m_res.ib_ctx}
  <2>1. 1 \in DOMAIN L /\ a \in DOMAIN L[1]
    BY <1>4, <1>5, <1>7
  <2>2. \A j \in DOMAIN L : a \in DOMAIN L[j] => j = 1
    BY <1>2, <1>4, <1>5, <1>6
  <2>3. partsOf(L, a) = L[1][a]
    BY ONLY <2>1, <2>2, PartsOfStep
  <2> QED
    BY <1>5, <2>3
<1>9. partsOf(L, b) = {m_res.pd, a, srq.recv_cq, srq.shared_rq}
  <2>1. 2 \in DOMAIN L /\ b \in DOMAIN L[2]
    BY <1>4, <1>5, <1>7
  <2>2. \A j \in DOMAIN L : b \in DOMAIN L[j] => j = 2
    BY <1>2, <1>4, <1>5, <1>6
  <2>3. partsOf(L, b) = L[2][b]
    BY ONLY <2>1, <2>2, PartsOfStep
  <2> QED
    BY <1>5, <2>3
<1>10. ObjectsOf(L) = {a, b}
  <2>1. ASSUME NEW o \in ObjectsOf(L) PROVE o \in {a, b}
    <3>1. PICK k \in 1 .. 3 : o \in DOMAIN L[k]
      BY <1>4 DEF ObjectsOf, objectsOfFirst
    <3> QED
      BY <1>5, <1>6, <3>1
  <2>2. ASSUME NEW o \in {a, b} PROVE o \in ObjectsOf(L)
    <3>1. \E k \in 1 .. 3 : o \in DOMAIN L[k]
      BY <1>5, <1>7
    <3> QED
      BY <1>4, <3>1 DEF ObjectsOf, objectsOfFirst
  <2> QED
    BY <2>1, <2>2
<1>11. StepsOK(L, {m_res.ib_ctx, m_res.pd, srq.recv_cq, srq.shared_rq})
  <2>1. Len(L) \in Nat
    BY <1>4
  <2>2. ASSUME NEW o \in {a, b}
        PROVE  /\ o \in Objects /\ made < o.no /\ o.no <= made + Len(L)
               /\ partsOf(L, o) \subseteq {m_res.ib_ctx, m_res.pd, srq.recv_cq, srq.shared_rq} \cup {a, b}
               /\ \A x \in partsOf(L, o) : <<o.type, x.type>> \in MadeOf
    <3>1. CASE o = a
      BY <1>1, <1>4, <1>8, <3>1 DEF MadeOf
    <3>2. CASE o = b
      BY <1>1, <1>4, <1>9, <3>2 DEF MadeOf
    <3> QED
      BY <3>1, <3>2
  <2> QED
    BY <1>10, <2>1, <2>2 DEF StepsOK
<1> QED
  BY <1>4, <1>8, <1>9, <1>10, <1>11 DEF L, a, b

\* An address handle.
LEMMA CreateHandle ==
    ASSUME QueuePairsTypeOK, m_res.pd.type = "pd"
    PROVE  /\ Len(createHandle) = 1 /\ DOMAIN createHandle = 1 .. 1
           /\ StepsOK(createHandle, {m_res.pd})
           /\ ObjectsOf(createHandle) = {fresh("ah", 1)}
           /\ partsOf(createHandle, fresh("ah", 1)) = {m_res.pd}
<1> DEFINE L == createHandle
           a == fresh("ah", 1)
<1>1. /\ made \in Nat
      /\ a \in Objects /\ a.type = "ah" /\ a.no = made + 1
  <2>1. "ah" \in Types
    BY DEF Types
  <2> QED
    BY <2>1, FreshObjects
<1>2. made \in Nat
  BY <1>1
<1> HIDE DEF a
<1>3. L = <<One(a, {m_res.pd})>>
  BY DEF createHandle, a
<1> HIDE DEF L
<1>4. /\ Len(L) = 1 /\ DOMAIN L = 1 .. 1
      /\ L[1] = One(a, {m_res.pd})
  BY <1>3
<1>5. /\ DOMAIN L[1] = {a}
      /\ L[1][a] = {m_res.pd}
  <2>1. /\ DOMAIN Change = {}
        /\ DOMAIN One(a, {m_res.pd}) = {a} /\ One(a, {m_res.pd})[a] = {m_res.pd}
    BY OneOrNone
  <2> QED
    BY ONLY <1>4, <2>1
<1>6. \A k \in 1 .. 1 : k = 1
  OBVIOUS
<1>7. 1 \in 1 .. 1
  OBVIOUS
<1>8. partsOf(L, a) = {m_res.pd}
  <2>1. 1 \in DOMAIN L /\ a \in DOMAIN L[1]
    BY <1>4, <1>5, <1>7
  <2>2. \A j \in DOMAIN L : a \in DOMAIN L[j] => j = 1
    BY <1>2, <1>4, <1>5, <1>6
  <2>3. partsOf(L, a) = L[1][a]
    BY ONLY <2>1, <2>2, PartsOfStep
  <2> QED
    BY <1>5, <2>3
<1>9. ObjectsOf(L) = {a}
  <2>1. ASSUME NEW o \in ObjectsOf(L) PROVE o \in {a}
    <3>1. PICK k \in 1 .. 1 : o \in DOMAIN L[k]
      BY <1>4 DEF ObjectsOf, objectsOfFirst
    <3> QED
      BY <1>5, <1>6, <3>1
  <2>2. ASSUME NEW o \in {a} PROVE o \in ObjectsOf(L)
    <3>1. \E k \in 1 .. 1 : o \in DOMAIN L[k]
      BY <1>5, <1>7
    <3> QED
      BY <1>4, <3>1 DEF ObjectsOf, objectsOfFirst
  <2> QED
    BY <2>1, <2>2
<1>10. StepsOK(L, {m_res.pd})
  <2>1. Len(L) \in Nat
    BY <1>4
  <2>2. ASSUME NEW o \in {a}
        PROVE  /\ o \in Objects /\ made < o.no /\ o.no <= made + Len(L)
               /\ partsOf(L, o) \subseteq {m_res.pd} \cup {a}
               /\ \A x \in partsOf(L, o) : <<o.type, x.type>> \in MadeOf
    <3>1. CASE o = a
      BY <1>1, <1>4, <1>8, <3>1 DEF MadeOf
    <3> QED
      BY <3>1
  <2> QED
    BY <1>9, <2>1, <2>2 DEF StepsOK
<1> QED
  BY <1>4, <1>8, <1>9, <1>10 DEF L, a

\* The objects of the base.
LEMMA CreateBuffer ==
    ASSUME QueuePairsTypeOK
    PROVE  /\ Len(createBuffer) = 4 /\ DOMAIN createBuffer = 1 .. 4
           /\ StepsOK(createBuffer, {})
           /\ ObjectsOf(createBuffer) = {fresh("ib_ctx", 1),
                             fresh("buffer", 2),
                             fresh("pd", 3),
                             fresh("mr", 4)}
           /\ partsOf(createBuffer, fresh("ib_ctx", 1)) = {}
           /\ partsOf(createBuffer, fresh("buffer", 2)) = {}
           /\ partsOf(createBuffer, fresh("pd", 3)) = {fresh("ib_ctx", 1)}
           /\ partsOf(createBuffer, fresh("mr", 4)) = {fresh("pd", 3), fresh("buffer", 2)}
<1> DEFINE L == createBuffer
           a == fresh("ib_ctx", 1)
           b == fresh("buffer", 2)
           c == fresh("pd", 3)
           d == fresh("mr", 4)
<1>1. /\ made \in Nat
      /\ a \in Objects /\ a.type = "ib_ctx" /\ a.no = made + 1
      /\ b \in Objects /\ b.type = "buffer" /\ b.no = made + 2
      /\ c \in Objects /\ c.type = "pd" /\ c.no = made + 3
      /\ d \in Objects /\ d.type = "mr" /\ d.no = made + 4
  <2>1. "buffer" \in Types /\ "ib_ctx" \in Types /\ "mr" \in Types /\ "pd" \in Types
    BY DEF Types
  <2> QED
    BY <2>1, FreshObjects
<1>2. a # b /\ a # c /\ a # d /\ b # c /\ b # d /\ c # d
  BY <1>1
<1> HIDE DEF a, b, c, d
<1>3. L = <<One(a, {}),
           One(b, {}),
           One(c, {a}),
           One(d, {c, b})>>
  BY DEF createBuffer, a, b, c, d
<1> HIDE DEF L
<1>4. /\ Len(L) = 4 /\ DOMAIN L = 1 .. 4
      /\ L[1] = One(a, {})
      /\ L[2] = One(b, {})
      /\ L[3] = One(c, {a})
      /\ L[4] = One(d, {c, b})
  BY <1>3
<1>5. /\ DOMAIN L[1] = {a}
      /\ DOMAIN L[2] = {b}
      /\ DOMAIN L[3] = {c}
      /\ DOMAIN L[4] = {d}
      /\ L[1][a] = {}
      /\ L[2][b] = {}
      /\ L[3][c] = {a}
      /\ L[4][d] = {c, b}
  <2>1. /\ DOMAIN Change = {}
        /\ DOMAIN One(a, {}) = {a} /\ One(a, {})[a] = {}
        /\ DOMAIN One(b, {}) = {b} /\ One(b, {})[b] = {}
        /\ DOMAIN One(c, {a}) = {c} /\ One(c, {a})[c] = {a}
        /\ DOMAIN One(d, {c, b}) = {d} /\ One(d, {c, b})[d] = {c, b}
    BY OneOrNone
  <2> QED
    BY ONLY <1>4, <2>1
<1>6. \A k \in 1 .. 4 : k = 1 \/ k = 2 \/ k = 3 \/ k = 4
  OBVIOUS
<1>7. 1 \in 1 .. 4 /\ 2 \in 1 .. 4 /\ 3 \in 1 .. 4 /\ 4 \in 1 .. 4
  OBVIOUS
<1>8. partsOf(L, a) = {}
  <2>1. 1 \in DOMAIN L /\ a \in DOMAIN L[1]
    BY <1>4, <1>5, <1>7
  <2>2. \A j \in DOMAIN L : a \in DOMAIN L[j] => j = 1
    BY <1>2, <1>4, <1>5, <1>6
  <2>3. partsOf(L, a) = L[1][a]
    BY ONLY <2>1, <2>2, PartsOfStep
  <2> QED
    BY <1>5, <2>3
<1>9. partsOf(L, b) = {}
  <2>1. 2 \in DOMAIN L /\ b \in DOMAIN L[2]
    BY <1>4, <1>5, <1>7
  <2>2. \A j \in DOMAIN L : b \in DOMAIN L[j] => j = 2
    BY <1>2, <1>4, <1>5, <1>6
  <2>3. partsOf(L, b) = L[2][b]
    BY ONLY <2>1, <2>2, PartsOfStep
  <2> QED
    BY <1>5, <2>3
<1>10. partsOf(L, c) = {a}
  <2>1. 3 \in DOMAIN L /\ c \in DOMAIN L[3]
    BY <1>4, <1>5, <1>7
  <2>2. \A j \in DOMAIN L : c \in DOMAIN L[j] => j = 3
    BY <1>2, <1>4, <1>5, <1>6
  <2>3. partsOf(L, c) = L[3][c]
    BY ONLY <2>1, <2>2, PartsOfStep
  <2> QED
    BY <1>5, <2>3
<1>11. partsOf(L, d) = {c, b}
  <2>1. 4 \in DOMAIN L /\ d \in DOMAIN L[4]
    BY <1>4, <1>5, <1>7
  <2>2. \A j \in DOMAIN L : d \in DOMAIN L[j] => j = 4
    BY <1>2, <1>4, <1>5, <1>6
  <2>3. partsOf(L, d) = L[4][d]
    BY ONLY <2>1, <2>2, PartsOfStep
  <2> QED
    BY <1>5, <2>3
<1>12. ObjectsOf(L) = {a, b, c, d}
  <2>1. ASSUME NEW o \in ObjectsOf(L) PROVE o \in {a, b, c, d}
    <3>1. PICK k \in 1 .. 4 : o \in DOMAIN L[k]
      BY <1>4 DEF ObjectsOf, objectsOfFirst
    <3> QED
      BY <1>5, <1>6, <3>1
  <2>2. ASSUME NEW o \in {a, b, c, d} PROVE o \in ObjectsOf(L)
    <3>1. \E k \in 1 .. 4 : o \in DOMAIN L[k]
      BY <1>5, <1>7
    <3> QED
      BY <1>4, <3>1 DEF ObjectsOf, objectsOfFirst
  <2> QED
    BY <2>1, <2>2
<1>13. StepsOK(L, {})
  <2>1. Len(L) \in Nat
    BY <1>4
  <2>2. ASSUME NEW o \in {a, b, c, d}
        PROVE  /\ o \in Objects /\ made < o.no /\ o.no <= made + Len(L)
               /\ partsOf(L, o) \subseteq {} \cup {a, b, c, d}
               /\ \A x \in partsOf(L, o) : <<o.type, x.type>> \in MadeOf
    <3>1. CASE o = a
      BY <1>1, <1>4, <1>8, <3>1 DEF MadeOf
    <3>2. CASE o = b
      BY <1>1, <1>4, <1>9, <3>2 DEF MadeOf
    <3>3. CASE o = c
      BY <1>1, <1>4, <1>10, <3>3 DEF MadeOf
    <3>4. CASE o = d
      BY <1>1, <1>4, <1>11, <3>4 DEF MadeOf
    <3> QED
      BY <3>1, <3>2, <3>3, <3>4
  <2> QED
    BY <1>12, <2>1, <2>2 DEF StepsOK
<1> QED
  BY <1>4, <1>8, <1>9, <1>10, <1>11, <1>12, <1>13 DEF L, a, b, c, d

\* The objects of a group.
LEMMA CreateGroup ==
    ASSUME QueuePairsTypeOK, m_res.buffer.type = "buffer", m_res.pd.type = "pd"
    PROVE  /\ Len(groupSteps) = 11 /\ DOMAIN groupSteps = 1 .. 11
           /\ StepsOK(groupSteps, {m_res.buffer, m_res.pd})
           /\ ObjectsOf(groupSteps) = {fresh("channel", 1),
                             fresh("id", 2),
                             fresh("addrinfo", 3),
                             fresh("pd", 4),
                             fresh("mr", 5),
                             fresh("cq", 6),
                             fresh("cq", 7),
                             fresh("qp", 8),
                             fresh("membership", 9),
                             fresh("ah", 10)}
           /\ partsOf(groupSteps, fresh("channel", 1)) = {}
           /\ partsOf(groupSteps, fresh("id", 2)) = {fresh("channel", 1)}
           /\ partsOf(groupSteps, fresh("addrinfo", 3)) = {}
           /\ partsOf(groupSteps, fresh("pd", 4)) = {}
           /\ partsOf(groupSteps, fresh("mr", 5)) = {fresh("pd", 4), m_res.buffer}
           /\ partsOf(groupSteps, fresh("cq", 6)) = {}
           /\ partsOf(groupSteps, fresh("cq", 7)) = {}
           /\ partsOf(groupSteps, fresh("qp", 8)) = {fresh("id", 2), fresh("pd", 4), fresh("cq", 6), fresh("cq", 7)}
           /\ partsOf(groupSteps, fresh("membership", 9)) = {fresh("qp", 8)}
           /\ partsOf(groupSteps, fresh("ah", 10)) = {m_res.pd}
<1> DEFINE L == groupSteps
           ch == fresh("channel", 1)
           id == fresh("id", 2)
           ai == fresh("addrinfo", 3)
           pd == fresh("pd", 4)
           mr == fresh("mr", 5)
           sc == fresh("cq", 6)
           rc == fresh("cq", 7)
           pr == fresh("qp", 8)
           me == fresh("membership", 9)
           ah == fresh("ah", 10)
<1>1. /\ made \in Nat
      /\ ch \in Objects /\ ch.type = "channel" /\ ch.no = made + 1
      /\ id \in Objects /\ id.type = "id" /\ id.no = made + 2
      /\ ai \in Objects /\ ai.type = "addrinfo" /\ ai.no = made + 3
      /\ pd \in Objects /\ pd.type = "pd" /\ pd.no = made + 4
      /\ mr \in Objects /\ mr.type = "mr" /\ mr.no = made + 5
      /\ sc \in Objects /\ sc.type = "cq" /\ sc.no = made + 6
      /\ rc \in Objects /\ rc.type = "cq" /\ rc.no = made + 7
      /\ pr \in Objects /\ pr.type = "qp" /\ pr.no = made + 8
      /\ me \in Objects /\ me.type = "membership" /\ me.no = made + 9
      /\ ah \in Objects /\ ah.type = "ah" /\ ah.no = made + 10
  <2>1. "addrinfo" \in Types /\ "ah" \in Types /\ "channel" \in Types /\ "cq" \in Types /\ "id" \in Types /\ "membership" \in Types /\ "mr" \in Types /\ "pd" \in Types /\ "qp" \in Types
    BY DEF Types
  <2> QED
    BY <2>1, FreshObjects
<1>2. ch # id /\ ch # ai /\ ch # pd /\ ch # mr /\ ch # sc /\ ch # rc /\ ch # pr /\
      ch # me /\ ch # ah /\ id # ai /\ id # pd /\ id # mr /\ id # sc /\ id # rc /\
      id # pr /\ id # me /\ id # ah /\ ai # pd /\ ai # mr /\ ai # sc /\ ai # rc /\
      ai # pr /\ ai # me /\ ai # ah /\ pd # mr /\ pd # sc /\ pd # rc /\ pd # pr /\
      pd # me /\ pd # ah /\ mr # sc /\ mr # rc /\ mr # pr /\ mr # me /\ mr # ah /\
      sc # rc /\ sc # pr /\ sc # me /\ sc # ah /\ rc # pr /\ rc # me /\ rc # ah /\
      pr # me /\ pr # ah /\ me # ah
  BY <1>1
<1> HIDE DEF ch, id, ai, pd, mr, sc, rc, pr, me, ah
<1>3. L = <<One(ch, {}),
           One(id, {ch}),
           One(ai, {}),
           Change,
           One(pd, {}),
           One(mr, {pd, m_res.buffer}),
           [o \in {sc, rc} |-> {}],
           One(pr, {id, pd, sc, rc}),
           One(me, {pr}),
           Change,
           One(ah, {m_res.pd})>>
  BY DEF groupSteps, ch, id, ai, pd, mr, sc, rc, pr, me, ah
<1> HIDE DEF L
<1>4. /\ Len(L) = 11 /\ DOMAIN L = 1 .. 11
      /\ L[1] = One(ch, {})
      /\ L[2] = One(id, {ch})
      /\ L[3] = One(ai, {})
      /\ L[4] = Change
      /\ L[5] = One(pd, {})
      /\ L[6] = One(mr, {pd, m_res.buffer})
      /\ L[7] = [o \in {sc, rc} |-> {}]
      /\ L[8] = One(pr, {id, pd, sc, rc})
      /\ L[9] = One(me, {pr})
      /\ L[10] = Change
      /\ L[11] = One(ah, {m_res.pd})
  BY <1>3
<1>5. /\ DOMAIN L[1] = {ch}
      /\ DOMAIN L[2] = {id}
      /\ DOMAIN L[3] = {ai}
      /\ DOMAIN L[4] = {}
      /\ DOMAIN L[5] = {pd}
      /\ DOMAIN L[6] = {mr}
      /\ DOMAIN L[7] = {sc, rc}
      /\ DOMAIN L[8] = {pr}
      /\ DOMAIN L[9] = {me}
      /\ DOMAIN L[10] = {}
      /\ DOMAIN L[11] = {ah}
      /\ L[1][ch] = {}
      /\ L[2][id] = {ch}
      /\ L[3][ai] = {}
      /\ L[5][pd] = {}
      /\ L[6][mr] = {pd, m_res.buffer}
      /\ L[7][sc] = {}
      /\ L[7][rc] = {}
      /\ L[8][pr] = {id, pd, sc, rc}
      /\ L[9][me] = {pr}
      /\ L[11][ah] = {m_res.pd}
  <2>1. /\ DOMAIN Change = {}
        /\ DOMAIN One(ch, {}) = {ch} /\ One(ch, {})[ch] = {}
        /\ DOMAIN One(id, {ch}) = {id} /\ One(id, {ch})[id] = {ch}
        /\ DOMAIN One(ai, {}) = {ai} /\ One(ai, {})[ai] = {}
        /\ DOMAIN One(pd, {}) = {pd} /\ One(pd, {})[pd] = {}
        /\ DOMAIN One(mr, {pd, m_res.buffer}) = {mr} /\ One(mr, {pd, m_res.buffer})[mr] = {pd, m_res.buffer}
        /\ DOMAIN One(pr, {id, pd, sc, rc}) = {pr} /\ One(pr, {id, pd, sc, rc})[pr] = {id, pd, sc, rc}
        /\ DOMAIN One(me, {pr}) = {me} /\ One(me, {pr})[me] = {pr}
        /\ DOMAIN One(ah, {m_res.pd}) = {ah} /\ One(ah, {m_res.pd})[ah] = {m_res.pd}
    BY OneOrNone
  <2> QED
    BY ONLY <1>4, <2>1
<1>6. \A k \in 1 .. 11 : k = 1 \/ k = 2 \/ k = 3 \/ k = 4 \/ k = 5 \/ k = 6 \/ k = 7 \/ k = 8 \/ k = 9 \/ k = 10 \/ k = 11
  OBVIOUS
<1>7. 1 \in 1 .. 11 /\ 2 \in 1 .. 11 /\ 3 \in 1 .. 11 /\ 4 \in 1 .. 11 /\ 5 \in 1 .. 11 /\ 6 \in 1 .. 11 /\ 7 \in 1 .. 11 /\ 8 \in 1 .. 11 /\ 9 \in 1 .. 11 /\ 10 \in 1 .. 11 /\ 11 \in 1 .. 11
  OBVIOUS
<1>8. partsOf(L, ch) = {}
  <2>1. 1 \in DOMAIN L /\ ch \in DOMAIN L[1]
    BY <1>4, <1>5, <1>7
  <2>2. \A j \in DOMAIN L : ch \in DOMAIN L[j] => j = 1
    BY <1>2, <1>4, <1>5, <1>6
  <2>3. partsOf(L, ch) = L[1][ch]
    BY ONLY <2>1, <2>2, PartsOfStep
  <2> QED
    BY <1>5, <2>3
<1>9. partsOf(L, id) = {ch}
  <2>1. 2 \in DOMAIN L /\ id \in DOMAIN L[2]
    BY <1>4, <1>5, <1>7
  <2>2. \A j \in DOMAIN L : id \in DOMAIN L[j] => j = 2
    BY <1>2, <1>4, <1>5, <1>6
  <2>3. partsOf(L, id) = L[2][id]
    BY ONLY <2>1, <2>2, PartsOfStep
  <2> QED
    BY <1>5, <2>3
<1>10. partsOf(L, ai) = {}
  <2>1. 3 \in DOMAIN L /\ ai \in DOMAIN L[3]
    BY <1>4, <1>5, <1>7
  <2>2. \A j \in DOMAIN L : ai \in DOMAIN L[j] => j = 3
    BY <1>2, <1>4, <1>5, <1>6
  <2>3. partsOf(L, ai) = L[3][ai]
    BY ONLY <2>1, <2>2, PartsOfStep
  <2> QED
    BY <1>5, <2>3
<1>11. partsOf(L, pd) = {}
  <2>1. 5 \in DOMAIN L /\ pd \in DOMAIN L[5]
    BY <1>4, <1>5, <1>7
  <2>2. \A j \in DOMAIN L : pd \in DOMAIN L[j] => j = 5
    BY <1>2, <1>4, <1>5, <1>6
  <2>3. partsOf(L, pd) = L[5][pd]
    BY ONLY <2>1, <2>2, PartsOfStep
  <2> QED
    BY <1>5, <2>3
<1>12. partsOf(L, mr) = {pd, m_res.buffer}
  <2>1. 6 \in DOMAIN L /\ mr \in DOMAIN L[6]
    BY <1>4, <1>5, <1>7
  <2>2. \A j \in DOMAIN L : mr \in DOMAIN L[j] => j = 6
    BY <1>2, <1>4, <1>5, <1>6
  <2>3. partsOf(L, mr) = L[6][mr]
    BY ONLY <2>1, <2>2, PartsOfStep
  <2> QED
    BY <1>5, <2>3
<1>13. partsOf(L, sc) = {}
  <2>1. 7 \in DOMAIN L /\ sc \in DOMAIN L[7]
    BY <1>4, <1>5, <1>7
  <2>2. \A j \in DOMAIN L : sc \in DOMAIN L[j] => j = 7
    BY <1>2, <1>4, <1>5, <1>6
  <2>3. partsOf(L, sc) = L[7][sc]
    BY ONLY <2>1, <2>2, PartsOfStep
  <2> QED
    BY <1>5, <2>3
<1>14. partsOf(L, rc) = {}
  <2>1. 7 \in DOMAIN L /\ rc \in DOMAIN L[7]
    BY <1>4, <1>5, <1>7
  <2>2. \A j \in DOMAIN L : rc \in DOMAIN L[j] => j = 7
    BY <1>2, <1>4, <1>5, <1>6
  <2>3. partsOf(L, rc) = L[7][rc]
    BY ONLY <2>1, <2>2, PartsOfStep
  <2> QED
    BY <1>5, <2>3
<1>15. partsOf(L, pr) = {id, pd, sc, rc}
  <2>1. 8 \in DOMAIN L /\ pr \in DOMAIN L[8]
    BY <1>4, <1>5, <1>7
  <2>2. \A j \in DOMAIN L : pr \in DOMAIN L[j] => j = 8
    BY <1>2, <1>4, <1>5, <1>6
  <2>3. partsOf(L, pr) = L[8][pr]
    BY ONLY <2>1, <2>2, PartsOfStep
  <2> QED
    BY <1>5, <2>3
<1>16. partsOf(L, me) = {pr}
  <2>1. 9 \in DOMAIN L /\ me \in DOMAIN L[9]
    BY <1>4, <1>5, <1>7
  <2>2. \A j \in DOMAIN L : me \in DOMAIN L[j] => j = 9
    BY <1>2, <1>4, <1>5, <1>6
  <2>3. partsOf(L, me) = L[9][me]
    BY ONLY <2>1, <2>2, PartsOfStep
  <2> QED
    BY <1>5, <2>3
<1>17. partsOf(L, ah) = {m_res.pd}
  <2>1. 11 \in DOMAIN L /\ ah \in DOMAIN L[11]
    BY <1>4, <1>5, <1>7
  <2>2. \A j \in DOMAIN L : ah \in DOMAIN L[j] => j = 11
    BY <1>2, <1>4, <1>5, <1>6
  <2>3. partsOf(L, ah) = L[11][ah]
    BY ONLY <2>1, <2>2, PartsOfStep
  <2> QED
    BY <1>5, <2>3
<1>18. ObjectsOf(L) = {ch, id, ai, pd, mr, sc, rc, pr, me, ah}
  <2>1. ASSUME NEW o \in ObjectsOf(L) PROVE o \in {ch, id, ai, pd, mr, sc, rc, pr, me, ah}
    <3>1. PICK k \in 1 .. 11 : o \in DOMAIN L[k]
      BY <1>4 DEF ObjectsOf, objectsOfFirst
    <3> QED
      BY <1>5, <1>6, <3>1
  <2>2. ASSUME NEW o \in {ch, id, ai, pd, mr, sc, rc, pr, me, ah} PROVE o \in ObjectsOf(L)
    <3>1. \E k \in 1 .. 11 : o \in DOMAIN L[k]
      BY <1>5, <1>7
    <3> QED
      BY <1>4, <3>1 DEF ObjectsOf, objectsOfFirst
  <2> QED
    BY <2>1, <2>2
<1>19. StepsOK(L, {m_res.buffer, m_res.pd})
  <2>1. Len(L) \in Nat
    BY <1>4
  <2>2. ASSUME NEW o \in {ch, id, ai, pd, mr, sc, rc, pr, me, ah}
        PROVE  /\ o \in Objects /\ made < o.no /\ o.no <= made + Len(L)
               /\ partsOf(L, o) \subseteq {m_res.buffer, m_res.pd} \cup {ch, id, ai, pd, mr, sc, rc, pr, me, ah}
               /\ \A x \in partsOf(L, o) : <<o.type, x.type>> \in MadeOf
    <3>1. CASE o = ch
      BY <1>1, <1>4, <1>8, <3>1 DEF MadeOf
    <3>2. CASE o = id
      BY <1>1, <1>4, <1>9, <3>2 DEF MadeOf
    <3>3. CASE o = ai
      BY <1>1, <1>4, <1>10, <3>3 DEF MadeOf
    <3>4. CASE o = pd
      BY <1>1, <1>4, <1>11, <3>4 DEF MadeOf
    <3>5. CASE o = mr
      BY <1>1, <1>4, <1>12, <3>5 DEF MadeOf
    <3>6. CASE o = sc
      BY <1>1, <1>4, <1>13, <3>6 DEF MadeOf
    <3>7. CASE o = rc
      BY <1>1, <1>4, <1>14, <3>7 DEF MadeOf
    <3>8. CASE o = pr
      BY <1>1, <1>4, <1>15, <3>8 DEF MadeOf
    <3>9. CASE o = me
      BY <1>1, <1>4, <1>16, <3>9 DEF MadeOf
    <3>10. CASE o = ah
      BY <1>1, <1>4, <1>17, <3>10 DEF MadeOf
    <3> QED
      BY <3>1, <3>2, <3>3, <3>4, <3>5, <3>6, <3>7, <3>8, <3>9, <3>10
  <2> QED
    BY <1>18, <2>1, <2>2 DEF StepsOK
<1> QED
  BY <1>4, <1>8, <1>9, <1>10, <1>11, <1>12, <1>13, <1>14, <1>15, <1>16, <1>17, <1>18, <1>19 DEF L, ch, id, ai, pd, mr, sc, rc, pr, me, ah

\* The same, and made ready to send.
LEMMA CreateUdQueues ==
    ASSUME QueuePairsTypeOK, m_res.ib_ctx.type = "ib_ctx", m_res.pd.type = "pd"
    PROVE  /\ Len(createUdQueues) = 6 /\ DOMAIN createUdQueues = 1 .. 6
           /\ StepsOK(createUdQueues, {m_res.ib_ctx, m_res.pd})
           /\ ObjectsOf(createUdQueues) = PointersOf(queuePair)
           /\ \A o \in PointersOf(queuePair) : partsOf(createUdQueues, o) = partsOf(createQueues, o)
<1> DEFINE a == createQueues
           b == <<Change, Change>>
           L == a \o b
<1>1. createUdQueues = L
  BY DEF createUdQueues
<1>2. /\ Len(a) = 4 /\ DOMAIN a = 1 .. 4 /\ StepsOK(a, {m_res.ib_ctx, m_res.pd})
      /\ ObjectsOf(a) = PointersOf(queuePair)
  BY CreateQueues
<1>3. /\ Len(b) = 2 /\ b[1] = Change /\ b[2] = Change
  OBVIOUS
<1>4. PICK S : a \in Seq(S) /\ b \in Seq(S)
  <2>1. PICK w, x, y, z : createQueues = <<w, x, y, z>>
    BY DEF createQueues
  <2>2. <<w, x, y, z>> \in Seq({w, x, y, z, Change}) /\ <<Change, Change>> \in Seq({w, x, y, z, Change})
    OBVIOUS
  <2> QED
    BY <2>1, <2>2
<1> HIDE DEF a, b
<1>5. /\ Len(L) = 6 /\ DOMAIN L = 1 .. 6
      /\ \A k \in 1 .. 6 : L[k] = IF k <= 4 THEN a[k] ELSE b[k - 4]
  <2>1. L \in Seq(S) /\ Len(L) = Len(a) + Len(b) /\ \A k \in 1 .. Len(a) + Len(b) : L[k] = IF k <= Len(a) THEN a[k] ELSE b[k - Len(a)]
    BY <1>4, ConcatProperties
  <2>2. Len(L) = 6
    BY <1>2, <1>3, <2>1
  <2>3. DOMAIN L = 1 .. 6
    BY <2>1, <2>2, LenProperties
  <2> QED
    BY <1>2, <1>3, <2>1, <2>2, <2>3
<1> HIDE DEF L
<1>6. \A k \in 1 .. 6 : (k \in 1 .. 4 /\ L[k] = a[k]) \/ (k \notin 1 .. 4 /\ L[k] = Change)
  <2>1. ASSUME NEW k \in 1 .. 6, ~(k <= 4) PROVE L[k] = Change
    <3>1. k - 4 = 1 \/ k - 4 = 2
      BY <2>1
    <3> QED
      BY <1>3, <1>5, <2>1, <3>1
  <2> QED
    BY <1>5, <2>1
<1>7. \A k \in 1 .. 4 : k \in 1 .. 6
  OBVIOUS
<1>8. DOMAIN Change = {}
  BY OneOrNone
<1>9. \A k \in 1 .. 6 : \A o : o \in DOMAIN L[k] <=> k \in 1 .. 4 /\ o \in DOMAIN a[k]
  BY <1>6, <1>8
<1>10. ObjectsOf(L) = ObjectsOf(a)
  BY <1>2, <1>5, <1>7, <1>9 DEF ObjectsOf, objectsOfFirst
<1>11. ASSUME NEW o \in ObjectsOf(a) PROVE partsOf(L, o) = partsOf(a, o)
  <2>1. \E k \in 1 .. 4 : o \in DOMAIN a[k]
    BY <1>2 DEF ObjectsOf, objectsOfFirst
  <2>2. {k \in DOMAIN L : o \in DOMAIN L[k]} = {k \in DOMAIN a : o \in DOMAIN a[k]}
    BY <1>2, <1>5, <1>7, <1>9
  <2>3. (CHOOSE k \in DOMAIN L : o \in DOMAIN L[k]) = (CHOOSE k \in DOMAIN a : o \in DOMAIN a[k])
    <3>1. (CHOOSE k \in DOMAIN L : o \in DOMAIN L[k]) = (CHOOSE k : k \in {j \in DOMAIN L : o \in DOMAIN L[j]})
      OBVIOUS
    <3>2. (CHOOSE k \in DOMAIN a : o \in DOMAIN a[k]) = (CHOOSE k : k \in {j \in DOMAIN a : o \in DOMAIN a[j]})
      OBVIOUS
    <3> QED
      BY <2>2, <3>1, <3>2
  <2>4. (CHOOSE k \in DOMAIN a : o \in DOMAIN a[k]) \in 1 .. 4
    BY <1>2, <2>1
  <2> QED
    BY <1>6, <1>7, <2>3, <2>4 DEF partsOf
<1>12. StepsOK(L, {m_res.ib_ctx, m_res.pd})
  <2>1. \A n \in Nat : n <= made + 4 => n <= made + 6
    BY DEF QueuePairsTypeOK
  <2>2. \A o \in ObjectsOf(a) : o.no \in Nat
    BY <1>2 DEF StepsOK, Objects
  <2> QED
    BY <1>2, <1>5, <1>10, <1>11, <2>1, <2>2 DEF StepsOK
<1> QED
  BY <1>1, <1>2, <1>5, <1>10, <1>11, <1>12 DEF a

-----------------------------------------------------------------------------
(***************************************************************************)
(* Calls that make objects, while the object lives                         *)
(***************************************************************************)
\* A call that succeeds.
LEMMA MadeGrows ==
    ASSUME QueuePairsTypeOK, Numbered(uses, made), NEW steps, NEW X, StepsOK(steps, X), X \subseteq Alive,
           Made(steps)
    PROVE  /\ Grown(uses, uses', made, X) /\ Numbered(uses', made') /\ made' \in Nat
           /\ Alive' \subseteq Objects /\ \A o \in Alive' : uses'[o] \subseteq Objects
           /\ Alive' = Alive \cup ObjectsOf(steps) /\ faults' = faults
           /\ \A o \in ObjectsOf(steps) : o \notin Alive /\ o \in Objects /\ uses'[o] = partsOf(steps, o)
           /\ \A o \in ObjectsOf(steps) : \A user \in Alive : o \notin uses'[user]
           /\ UsersGoFirst => UsersGoFirst'
<1> USE DEF Alive
<1>1. Exist(steps, ObjectsOf(steps)) /\ faults' = faults
  BY DEF Made
<1>2. /\ Grown(uses, uses', made, X) /\ Numbered(uses', made') /\ made' \in Nat
      /\ Alive' \subseteq Objects /\ \A o \in Alive' : uses'[o] \subseteq Objects
      /\ Alive' = Alive \cup ObjectsOf(steps)
      /\ \A o \in ObjectsOf(steps) : o \notin Alive /\ o \in Alive' /\ uses'[o] = partsOf(steps, o)
  BY <1>1, ExistGrows
<1>3. ASSUME NEW o \in ObjectsOf(steps), NEW user \in Alive PROVE o \notin uses'[user]
  <2>1. uses'[user] = uses[user]
    BY <1>2 DEF Grown
  <2>2. o.no \in Nat /\ o.no > made /\ made \in Nat
    BY DEF StepsOK, Objects, QueuePairsTypeOK
  <2>3. \A x \in uses[user] : x.no <= made
    BY DEF Numbered
  <2> QED
    BY <2>1, <2>2, <2>3
<1>4. UsersGoFirst => UsersGoFirst'
  <2>1. SUFFICES ASSUME faults = << >>, UsersGoFirst, NEW o \in Alive', NEW used \in uses'[o]
                 PROVE  used \in Alive' \/ used.type = "ib_ctx"
    BY <1>1 DEF UsersGoFirst
  <2>2. CASE o \in Alive
    <3>1. uses'[o] = uses[o]
      BY <1>2, <2>2 DEF Grown
    <3> QED
      BY <1>2, <2>1, <2>2, <3>1 DEF UsersGoFirst
  <2>3. CASE o \in ObjectsOf(steps)
    BY <1>2, <2>1, <2>3 DEF StepsOK
  <2> QED
    BY <1>2, <2>2, <2>3
<1> QED
  BY <1>1, <1>2, <1>3, <1>4 DEF StepsOK

\* The new objects have only the users that are new, too.
LEMMA FreshOnly ==
    ASSUME NEW steps, Alive' = Alive \cup ObjectsOf(steps),
           \A o \in ObjectsOf(steps) : uses'[o] = partsOf(steps, o),
           \A o \in ObjectsOf(steps) : \A user \in Alive : o \notin uses'[user],
           NEW x \in ObjectsOf(steps), NEW S, \A o \in ObjectsOf(steps) : x \in partsOf(steps, o) => o \in S
    PROVE  Only(uses', x, S)
BY DEF Only, Alive

\* The base stays when there is more.
LEMMA BaseGrown ==
    ASSUME BaseOK, NEW X, Grown(uses, uses', made, X), m_res' = m_res,
           phase' \in {"base", "running"} => phase \in {"base", "running"},
           \A x \in X : x.type # "mr"
    PROVE  BaseOK'
<1> USE DEF Alive
<1>1. ASSUME phase' \in {"base", "running"} PROVE Base \subseteq Alive' /\ Only(uses', m_res.mr, {})
  <2>1. /\ Base \subseteq Alive /\ Only(uses, m_res.mr, {}) /\ m_res.mr \in Base /\ m_res.mr.type = "mr"
    BY <1>1 DEF BaseOK, Base
  <2>2. Base \subseteq Alive'
    BY <2>1 DEF Grown
  <2>3. m_res.mr \in Alive /\ m_res.mr \notin X
    BY <2>1
  <2> QED
    BY <2>1, <2>2, <2>3, OnlyGrown
<1>2. Base' = Base
  BY DEF Base
<1> QED
  BY <1>1, <1>2 DEF BaseOK

\* What gets users while the object lives: objects of the base; the shared receive queues
\* when that does not count any more.
Spare(X, R) ==
    \A x \in X : \/ x \in {m_res.ib_ctx, m_res.buffer, m_res.pd}
                 \/ transport = "rc" /\ R /\ x.type = "srq"
                 \/ transport = "rc" /\ R /\ x \in SrqQueues

\* The types of these.
LEMMA SpareTypes ==
    ASSUME QueuePairsTypeOK, BaseOK, SrqsOK, UnreliableOK, phase = "running", NEW X, NEW R, Spare(X, R)
    PROVE  /\ \A x \in X : x.type \in {"ib_ctx", "buffer", "pd", "srq", "cq"}
           /\ \A x \in X : x.type = "cq" => x \in SrqQueues /\ R
           /\ \A x \in X : x.type = "srq" => R
           /\ transport = "ud" => X \subseteq Base
<1>1. /\ m_res.ib_ctx.type = "ib_ctx" /\ m_res.buffer.type = "buffer" /\ m_res.pd.type = "pd"
      /\ \A o \in SrqQueues : o.type = "cq"
  BY SrqQueuesTyped DEF BaseOK
<1> QED
  BY <1>1 DEF Spare, Base

\* The queue pairs of reliable connections stay what they are.
LEMMA ReliableGrown ==
    ASSUME QueuePairsTypeOK, BaseOK, ReliableOK, SrqsOK, UnreliableOK, phase = "running", transport = "rc",
           NEW X, NEW R, Spare(X, R), Grown(uses, uses', made, X),
           NEW Q, SrqQueues \subseteq Q, Q \cap Alive \subseteq SrqQueues
    PROVE  /\ \A k \in Used : PairOK(uses', Q, m_qps[k])
           /\ qp # NoQp => PairOK(uses', Q, qp)
<1>1. \A x \in X : x.type # "qp" /\ (x.type = "cq" => x \in SrqQueues)
  BY SpareTypes
<1>2. ASSUME NEW q, PairOK(uses, SrqQueues, q) PROVE PairOK(uses', Q, q)
  BY <1>1, <1>2, PairGrown DEF Alive
<1>3. \A k \in Used : PairOK(uses, SrqQueues, m_qps[k])
  BY DEF ReliableOK
<1>4. qp # NoQp => PairOK(uses, SrqQueues, qp)
  BY DEF ReliableOK
<1> QED
  BY <1>2, <1>3, <1>4

\* So do the shared receive queues.
LEMMA SrqsGrown ==
    ASSUME QueuePairsTypeOK, BaseOK, SrqsOK, UnreliableOK, phase = "running", transport = "rc",
           NEW X, NEW R, Spare(X, R), Grown(uses, uses', made, X), NEW s \in DOMAIN m_srqs
    PROVE  /\ m_srqs[s].shared_rq \in Alive' /\ m_srqs[s].shared_rq.type = "srq"
           /\ m_srqs[s].recv_cq \in Alive' /\ m_srqs[s].recv_cq.type = "cq"
           /\ NothingLost /\ ~R => /\ Only(uses', m_srqs[s].shared_rq, EntryQps)
                                   /\ Only(uses', m_srqs[s].recv_cq, EntryQps)
<1> USE DEF Alive
<1>1. /\ m_srqs[s].shared_rq \in Alive /\ m_srqs[s].shared_rq.type = "srq"
      /\ m_srqs[s].recv_cq \in Alive /\ m_srqs[s].recv_cq.type = "cq"
      /\ NothingLost => /\ Only(uses, m_srqs[s].shared_rq, EntryQps)
                        /\ Only(uses, m_srqs[s].recv_cq, EntryQps)
  BY DEF SrqsOK
<1>2. m_srqs[s].shared_rq \in Alive' /\ m_srqs[s].recv_cq \in Alive'
  BY <1>1 DEF Grown
<1>3. ~R => m_srqs[s].shared_rq \notin X /\ m_srqs[s].recv_cq \notin X
  BY <1>1, SpareTypes
<1>4. ASSUME NothingLost, ~R PROVE Only(uses', m_srqs[s].shared_rq, EntryQps) /\ Only(uses', m_srqs[s].recv_cq, EntryQps)
  BY <1>1, <1>3, <1>4, OnlyGrown
<1> QED
  BY <1>1, <1>2, <1>4

\* And the queue pair and the groups of UnreliableRDMA.
LEMMA UnreliableGrown ==
    ASSUME QueuePairsTypeOK, BaseOK, SrqsOK, UnreliableOK, phase = "running", transport = "ud",
           NEW X, NEW R, Spare(X, R), Grown(uses, uses', made, X)
    PROVE  /\ PairOK(uses', {}, m_udqp)
           /\ \A k \in ActiveKeys : GroupOK(uses', m_udpMcastConns[k])
<1>1. X \subseteq Base /\ \A x \in X : x.type \notin {"qp", "cq"}
  <2>1. X \subseteq Base
    BY SpareTypes
  <2>2. \A x \in Base : x.type \in {"ib_ctx", "buffer", "pd", "mr"}
    BY BaseTypes
  <2> QED
    BY <2>1, <2>2
<1>2. PairOK(uses', {}, m_udqp)
  <2>1. PairOK(uses, {}, m_udqp)
    BY DEF UnreliableOK
  <2> QED
    BY <1>1, <2>1, PairGrown
<1>3. ASSUME NEW k \in ActiveKeys PROVE GroupOK(uses', m_udpMcastConns[k])
  <2>1. GroupOK(uses, m_udpMcastConns[k]) /\ ObjectsOfGroup(m_udpMcastConns[k]) \cap X = {}
    BY <1>1 DEF UnreliableOK
  <2> QED
    BY <2>1, GroupGrown
<1> QED
  BY <1>2, <1>3

\* What the entries become.
Entered(es, id, none, x) == [Resized(es, id + 1, none) EXCEPT ![id + 1] = x]

OneEntered(es, ds, id, none, x) ==
    /\ Len(es) \in Nat /\ Len(ds) \in Nat /\ Len(es) <= Len(ds)
    /\ Len(ds) = (IF Len(es) < id + 1 THEN id + 1 ELSE Len(es))
    /\ DOMAIN es = 1 .. Len(es) /\ DOMAIN ds = 1 .. Len(ds)
    /\ DOMAIN es \subseteq DOMAIN ds /\ id + 1 \in DOMAIN ds /\ ds[id + 1] = x
    /\ \A k \in DOMAIN es : k # id + 1 => ds[k] = es[k]
    /\ \A k \in DOMAIN ds \ DOMAIN es : k # id + 1 => ds[k] = none

\* An entry is set, for which the entries may have to be more.
LEMMA EntrySet ==
    ASSUME NEW S, NEW es \in Seq(S), NEW none \in S, NEW id \in Nat, NEW x \in S,
           NEW ds, ds = Entered(es, id, none, x)
    PROVE  ds \in Seq(S) /\ OneEntered(es, ds, id, none, x)
<1> DEFINE n == IF Len(es) < id + 1 THEN id + 1 ELSE Len(es)
           r == Resized(es, id + 1, none)
<1>1. /\ Len(es) \in Nat /\ DOMAIN es = 1 .. Len(es) /\ \A k \in DOMAIN es : es[k] \in S
  BY LenProperties, ElementOfSeq
<1>2. n \in Nat /\ Len(es) <= n /\ id + 1 \in 1 .. n /\ id + 1 <= n
  BY <1>1
<1>3. r = [k \in 1 .. n |-> IF k \in DOMAIN es THEN es[k] ELSE none]
  BY DEF Resized
<1> HIDE DEF n, r
<1>4. ds = [r EXCEPT ![id + 1] = x]
  BY DEF r, Entered
<1>5. /\ DOMAIN ds = 1 .. n /\ ds[id + 1] = x
      /\ \A k \in 1 .. n : k # id + 1 => ds[k] = IF k \in DOMAIN es THEN es[k] ELSE none
  BY <1>2, <1>3, <1>4
<1>6. ds \in [1 .. n -> S]
  <2>1. \A k \in 1 .. n : ds[k] \in S
    BY <1>1, <1>5
  <2>2. ds = [k \in 1 .. n |-> ds[k]]
    BY <1>3, <1>4, <1>5
  <2> QED
    BY <2>1, <2>2
<1>7. ds \in Seq(S) /\ Len(ds) = n
  <2>1. ds \in Seq(S)
    BY <1>2, <1>6, SeqDef
  <2>2. Len(ds) \in Nat /\ DOMAIN ds = 1 .. Len(ds)
    BY <2>1, LenProperties
  <2>3. 1 .. n = 1 .. Len(ds)
    BY <1>5, <2>2
  <2>4. Len(ds) = n
    <3>1. \A a, b \in Nat : 1 .. a = 1 .. b => a = b
      <4>1. SUFFICES ASSUME NEW a \in Nat, NEW b \in Nat, 1 .. a = 1 .. b, a # b PROVE FALSE
        OBVIOUS
      <4>2. (a \in 1 .. a <=> a \in 1 .. b) /\ (b \in 1 .. a <=> b \in 1 .. b)
        BY <4>1
      <4> QED
        BY <4>1, <4>2
    <3> QED
      BY <1>2, <2>2, <2>3, <3>1
  <2> QED
    BY <2>1, <2>4
<1>8. 1 .. Len(es) \subseteq 1 .. n
  BY <1>1, <1>2
<1> QED
  BY <1>1, <1>2, <1>5, <1>7, <1>8 DEF n, OneEntered

\* A queue pair is entered under an id that is not used.
LEMMA QPSet ==
    ASSUME QueuePairsTypeOK, ConnectedOK, NEW id \in Nat, Unused(id), NEW q \in Pairs, q # NoQp, setQP(id, q)
    PROVE  /\ m_qps' \in Seq(Pairs) /\ m_connected \subseteq 0 .. Len(m_qps') - 1
           /\ id + 1 \in Used' /\ m_qps'[id + 1] = q
           /\ DOMAIN m_qps' \subseteq Nat
           /\ Used' = Used \cup {id + 1} /\ id + 1 \notin Used
           /\ \A k \in Used : m_qps'[k] = m_qps[k]
           /\ \A k \in DOMAIN m_qps' : k \notin Used' => m_qps'[k] = NoQp
           /\ EntryQps \ {nullptr} \subseteq EntryQps' /\ q.qp \in EntryQps'
           /\ \A k \in m_connected : m_qps'[k + 1] = m_qps[k + 1] /\ k + 1 \in Used
<1>1. m_qps \in Seq(Pairs) /\ NoQp \in Pairs /\ m_connected \subseteq 0 .. Len(m_qps) - 1
  BY DEF QueuePairsTypeOK, NoQp, Pairs, Pointers
<1>2. m_qps' = [Resized(m_qps, id + 1, NoQp) EXCEPT ![id + 1] = q]
  BY DEF setQP
<1> DEFINE es == m_qps
           ds == m_qps'
<1>3. /\ ds \in Seq(Pairs) /\ Len(es) \in Nat /\ Len(ds) \in Nat /\ Len(es) <= Len(ds)
      /\ DOMAIN es = 1 .. Len(es) /\ DOMAIN ds = 1 .. Len(ds)
      /\ DOMAIN es \subseteq DOMAIN ds /\ id + 1 \in DOMAIN ds /\ ds[id + 1] = q
      /\ \A k \in DOMAIN es : k # id + 1 => ds[k] = es[k]
      /\ \A k \in DOMAIN ds \ DOMAIN es : k # id + 1 => ds[k] = NoQp
  <2>1. PICK bs : bs = m_qps'
    OBVIOUS
  <2>2. PICK as \in Seq(Pairs) : as = m_qps
    BY <1>1
  <2>3. NoQp \in Pairs /\ bs = Entered(as, id, NoQp, q)
    BY <1>1, <1>2, <2>1, <2>2 DEF Entered
  <2>4. bs \in Seq(Pairs) /\ OneEntered(as, bs, id, NoQp, q)
    BY ONLY <2>3, as \in Seq(Pairs), id \in Nat, q \in Pairs, EntrySet
  <2> QED
    BY <2>1, <2>2, <2>4 DEF OneEntered
<1> DEFINE U == {k \in DOMAIN es : es[k] # NoQp}
           V == {k \in DOMAIN ds : ds[k] # NoQp}
<1>4. id + 1 \notin U
  BY DEF Unused
<1>5. V = U \cup {id + 1} /\ \A k \in U : ds[k] = es[k]
  <2> HIDE DEF es, ds
  <2> QED
    BY <1>3, <1>4
<1>6. U = Used /\ V = Used'
  BY DEF Used
<1>7. EntryQps \ {nullptr} \subseteq EntryQps' /\ q.qp \in EntryQps'
  <2>1. ASSUME NEW k \in DOMAIN es, es[k].qp # nullptr PROVE es[k].qp \in EntryQps'
    <3>1. es[k] # NoQp
      BY <2>1 DEF NoQp
    <3>2. k \in DOMAIN ds /\ ds[k] = es[k]
      BY <1>3, <1>5, <3>1
    <3> QED
      BY <3>2 DEF EntryQps
  <2>2. q.qp \in EntryQps'
    BY <1>3 DEF EntryQps
  <2> QED
    BY <2>1, <2>2 DEF EntryQps
<1>8. m_connected \subseteq 0 .. Len(ds) - 1
  BY <1>1, <1>3
<1>9. \A k \in m_connected : k + 1 \in U
  BY <1>6 DEF ConnectedOK
<1>10. \A k \in DOMAIN ds : k \notin V => ds[k] = NoQp
  OBVIOUS
<1>11. DOMAIN ds \subseteq Nat
  BY <1>3
<1> QED
  BY <1>3, <1>4, <1>5, <1>6, <1>7, <1>8, <1>9, <1>10, <1>11

\* More exists, and of the members at most the queue pair of the client changes.
LEMMA MembersGrown ==
    ASSUME QueuePairsTypeOK, BaseOK, ReliableOK, SrqsOK, UnreliableOK, phase = "running",
           UNCHANGED <<transport, phase, m_res, m_qps, m_srqs, m_udqp, m_udpMcastConns>>,
           NEW X, NEW R, Spare(X, R), Grown(uses, uses', made, X),
           R => ~NothingLost', Range(faults) \subseteq Range(faults'),
           \/ qp' \in {qp, NoQp}
           \/ transport = "ud" /\ qp' = m_udqp
           \/ /\ transport = "rc" /\ PairOK(uses', SrqQueues, qp') /\ qp'.recv_cq \notin SrqQueues
              /\ \A k \in Used : m_qps[k].qp # qp'.qp
    PROVE  BaseOK' /\ ReliableOK' /\ SrqsOK' /\ UnreliableOK'
<1>1. /\ Base' = Base /\ SrqQueues' = SrqQueues /\ EntryQps' = EntryQps /\ Used' = Used
      /\ ActiveKeys' = ActiveKeys
  BY DEF Base, SrqQueues, EntryQps, Used, ActiveKeys
<1>2. BaseOK'
  <2>1. \A x \in X : x.type # "mr"
    BY SpareTypes
  <2> QED
    BY <2>1, BaseGrown
<1>3. ReliableOK'
  <2>1. SUFFICES ASSUME transport = "rc"
                 PROVE  /\ m_udpMcastConns = << >> /\ m_udqp = NoQp
                        /\ \A k \in Used : PairOK(uses', SrqQueues, m_qps[k])
                        /\ \A j, k \in Used : j # k => m_qps[j].qp # m_qps[k].qp
                        /\ qp' # NoQp => /\ PairOK(uses', SrqQueues, qp') /\ qp'.recv_cq \notin SrqQueues
                                         /\ \A k \in Used : m_qps[k].qp # qp'.qp
    BY <1>1 DEF ReliableOK
  <2>2. /\ \A k \in Used : PairOK(uses', SrqQueues, m_qps[k])
        /\ qp # NoQp => PairOK(uses', SrqQueues, qp)
    BY <2>1, ReliableGrown
  <2>3. /\ m_udpMcastConns = << >> /\ m_udqp = NoQp
        /\ \A j, k \in Used : j # k => m_qps[j].qp # m_qps[k].qp
        /\ qp # NoQp => qp.recv_cq \notin SrqQueues /\ \A k \in Used : m_qps[k].qp # qp.qp
    BY <2>1 DEF ReliableOK
  <2> QED
    BY <2>1, <2>2, <2>3
<1>4. SrqsOK'
  <2>1. SUFFICES ASSUME transport = "rc"
                 PROVE  /\ \A s \in DOMAIN m_srqs :
                             /\ m_srqs[s].shared_rq \in Alive' /\ m_srqs[s].shared_rq.type = "srq"
                             /\ m_srqs[s].recv_cq \in Alive' /\ m_srqs[s].recv_cq.type = "cq"
                             /\ NothingLost' => /\ Only(uses', m_srqs[s].shared_rq, EntryQps)
                                                /\ Only(uses', m_srqs[s].recv_cq, EntryQps)
                        /\ \A s, t \in DOMAIN m_srqs : s # t => m_srqs[s].shared_rq # m_srqs[t].shared_rq
    BY <1>1 DEF SrqsOK
  <2>2. NothingLost' => NothingLost /\ ~R
    BY LostForGood
  <2>3. \A s \in DOMAIN m_srqs :
             /\ m_srqs[s].shared_rq \in Alive' /\ m_srqs[s].shared_rq.type = "srq"
             /\ m_srqs[s].recv_cq \in Alive' /\ m_srqs[s].recv_cq.type = "cq"
             /\ NothingLost /\ ~R => /\ Only(uses', m_srqs[s].shared_rq, EntryQps)
                                     /\ Only(uses', m_srqs[s].recv_cq, EntryQps)
    BY <2>1, SrqsGrown
  <2>4. \A s, t \in DOMAIN m_srqs : s # t => m_srqs[s].shared_rq # m_srqs[t].shared_rq
    BY <2>1 DEF SrqsOK
  <2> QED
    BY <2>2, <2>3, <2>4
<1>5. UnreliableOK'
  <2>1. SUFFICES ASSUME transport = "ud"
                 PROVE  /\ m_srqs = << >>
                        /\ m_udqp # NoQp /\ PairOK(uses', {}, m_udqp)
                        /\ \A k \in DOMAIN m_qps : m_qps[k] \in {NoQp, m_udqp}
                        /\ qp' \in {NoQp, m_udqp}
                        /\ \A k \in ActiveKeys :
                             /\ GroupOK(uses', m_udpMcastConns[k])
                             /\ ObjectsOfGroup(m_udpMcastConns[k]) \cap (Base \cup PointersOf(m_udqp)) = {}
                        /\ \A j, k \in ActiveKeys :
                             j # k => ObjectsOfGroup(m_udpMcastConns[j]) \cap ObjectsOfGroup(m_udpMcastConns[k]) = {}
    BY <1>1 DEF UnreliableOK
  <2>2. PairOK(uses', {}, m_udqp) /\ \A k \in ActiveKeys : GroupOK(uses', m_udpMcastConns[k])
    BY <2>1, UnreliableGrown
  <2> QED
    BY <2>1, <2>2 DEF UnreliableOK
<1> QED
  BY <1>2, <1>3, <1>4, <1>5

\* Every object is still accounted for.
LEMMA AccountedGrown ==
    ASSUME Accounted, phase = "running", phase' = "running", todo = << >>, m_res' = m_res,
           faults' = << >> =>
             /\ faults = << >>
             /\ \A o \in Alive : Named(o) => Named(o)' \/ o \in InTodo'
             /\ \A o \in Alive' \ Alive : o.type \in {"ah", "addrinfo"} \/ Named(o)'
    PROVE  Accounted'
<1>1. InTodo = {} /\ Base' = Base
  BY DEF InTodo, Base
<1> QED
  BY <1>1 DEF Accounted

\* What the members name exists.
LEMMA MembersDoExist ==
    QueuePairsTypeOK /\ BaseOK /\ ReliableOK /\ SrqsOK /\ UnreliableOK => MembersExist
<1> SUFFICES ASSUME QueuePairsTypeOK, BaseOK, ReliableOK, SrqsOK, UnreliableOK, phase = "running"
             PROVE  /\ Base \subseteq Alive
                    /\ \A q \in Range(m_qps) \cup {qp, m_udqp} : q # NoQp => PointersOf(q) \subseteq Alive
                    /\ \A srq \in Range(m_srqs) : {srq.shared_rq, srq.recv_cq} \subseteq Alive
                    /\ \A group \in Joined : ObjectsOfGroup(group) \subseteq Alive
  BY DEF MembersExist, Base
<1>1. Base \subseteq Alive
  BY DEF BaseOK
<1>2. \A u, Q, q : PairOK(u, Q, q) => PointersOf(q) \subseteq DOMAIN u
  BY DEF PairOK
<1>3. \A u, g : GroupOK(u, g) => ObjectsOfGroup(g) \subseteq DOMAIN u
  BY DEF GroupOK
<1>4. transport = "rc" \/ transport = "ud"
  BY QueuePairsAssumption DEF QueuePairsTypeOK
<1>5. CASE transport = "rc"
  <2>1. /\ \A k \in DOMAIN m_qps : m_qps[k] # NoQp => PointersOf(m_qps[k]) \subseteq Alive
        /\ qp # NoQp => PointersOf(qp) \subseteq Alive
        /\ m_udqp = NoQp /\ m_udpMcastConns = << >>
    BY <1>2, <1>5 DEF ReliableOK, Used, Alive
  <2>2. Joined = {}
    BY <2>1 DEF Joined, Range
  <2>3. \A s \in DOMAIN m_srqs : m_srqs[s].shared_rq \in Alive /\ m_srqs[s].recv_cq \in Alive
    BY <1>5 DEF SrqsOK
  <2> QED
    BY <1>1, <2>1, <2>2, <2>3 DEF Range
<1>6. CASE transport = "ud"
  <2>1. /\ PointersOf(m_udqp) \subseteq Alive /\ qp \in {NoQp, m_udqp} /\ m_srqs = << >>
        /\ \A k \in DOMAIN m_qps : m_qps[k] \in {NoQp, m_udqp}
        /\ \A k \in ActiveKeys : ObjectsOfGroup(m_udpMcastConns[k]) \subseteq Alive
    BY <1>2, <1>3, <1>6 DEF UnreliableOK, Alive
  <2>2. \A group \in Joined : ObjectsOfGroup(group) \subseteq Alive
    BY <2>1 DEF Joined, Range, ActiveKeys
  <2>3. Range(m_srqs) = {}
    BY <2>1 DEF Range
  <2>4. \A q \in Range(m_qps) : q \in {NoQp, m_udqp}
    BY <2>1 DEF Range
  <2> QED
    BY <1>1, <2>1, <2>2, <2>3, <2>4
<1> QED
  BY <1>4, <1>5, <1>6

\* The object is constructed, and no destructor has begun.
Lives == phase = "running"

\* Nothing is shared but the receive queues that are meant to be.
LEMMA NothingShared ==
    QueuePairsTypeOK /\ ReliableOK /\ UnreliableOK /\ Lives => NothingIsShared
<1> SUFFICES ASSUME QueuePairsTypeOK, ReliableOK, UnreliableOK, phase = "running"
             PROVE  NothingIsShared
  BY DEF Lives
<1>1. ASSUME transport = "rc", NEW j \in DOMAIN m_qps, NEW k \in DOMAIN m_qps,
             j # k, m_qps[j] # NoQp, m_qps[k] # NoQp
      PROVE  PointersOf(m_qps[j]) \cap PointersOf(m_qps[k]) \subseteq {srq.recv_cq : srq \in Range(m_srqs)}
  <2>1. j \in Used /\ k \in Used
    BY <1>1 DEF Used
  <2>2. /\ PairOK(uses, SrqQueues, m_qps[j]) /\ PairOK(uses, SrqQueues, m_qps[k])
        /\ m_qps[j].qp # m_qps[k].qp
    BY <1>1, <2>1 DEF ReliableOK
  <2>3. SrqQueues \subseteq {srq.recv_cq : srq \in Range(m_srqs)}
    BY DEF SrqQueues, Range
  <2>4. PointersOf(m_qps[j]) \cap PointersOf(m_qps[k]) \subseteq SrqQueues
    BY <2>2, PairsApart
  <2> QED
    BY <2>3, <2>4
<1>2. ASSUME NEW g \in Joined, NEW h \in Joined, g # h
      PROVE  ObjectsOfGroup(g) \cap ObjectsOfGroup(h) = {}
  <2>1. PICK j \in DOMAIN m_udpMcastConns : g = m_udpMcastConns[j] /\ g.active
    BY DEF Joined, Range
  <2>2. PICK k \in DOMAIN m_udpMcastConns : h = m_udpMcastConns[k] /\ h.active
    BY DEF Joined, Range
  <2>3. j \in ActiveKeys /\ k \in ActiveKeys /\ j # k
    BY <1>2, <2>1, <2>2 DEF ActiveKeys
  <2>4. transport = "ud"
    <3>1. m_udpMcastConns # << >>
      BY <2>1
    <3> QED
      BY <3>1, QueuePairsAssumption DEF ReliableOK, QueuePairsTypeOK
  <2> QED
    BY <2>1, <2>2, <2>3, <2>4 DEF UnreliableOK
<1> QED
  BY <1>1, <1>2 DEF NothingIsShared

\* What every step keeps.
Kept ==
    /\ QueuePairsTypeOK' /\ Core' /\ UsersGoFirst' /\ EndsOrderly' /\ ConnectedCanSend'
    /\ phase' = "running" \/ UNCHANGED <<transport, m_qps, m_srqs, m_udpMcastConns>>

\* Then the properties hold, too.
LEMMA KeptIsEnough ==
    ASSUME QueuePairsInvariant, Kept
    PROVE  QueuePairsInv' /\ Core'
<1>1. MembersExist'
  <2>1. BaseOK' /\ ReliableOK' /\ SrqsOK' /\ UnreliableOK' /\ QueuePairsTypeOK'
    BY DEF Kept, Core
  <2>2. QueuePairsTypeOK' /\ BaseOK' /\ ReliableOK' /\ SrqsOK' /\ UnreliableOK' => MembersExist'
    BY MembersDoExist, PTL
  <2> QED
    BY <2>1, <2>2
<1>2. NothingIsShared'
  <2>1. CASE phase' = "running"
    <3>1. ReliableOK' /\ UnreliableOK' /\ QueuePairsTypeOK'
      BY DEF Kept, Core
    <3>2. QueuePairsTypeOK' /\ ReliableOK' /\ UnreliableOK' /\ Lives' => NothingIsShared'
      BY NothingShared, PTL
    <3> QED
      BY <2>1, <3>1, <3>2 DEF Lives
  <2>2. CASE UNCHANGED <<transport, m_qps, m_srqs, m_udpMcastConns>>
    BY <2>2 DEF QueuePairsInvariant, QueuePairsInv, NothingIsShared, Joined
  <2> QED
    BY <2>1, <2>2 DEF Kept
<1> QED
  BY <1>1, <1>2 DEF Kept, QueuePairsInv

\* The steps of destroying keep everything.
LEMMA DestroyingKept ==
    ASSUME QueuePairsInvariant, DestroyNext \/ LeaveBusy \/ ThrowBusy \/ DestroyNothing \/ Destruct
    PROVE  Kept
<1>1. QueuePairsTypeOK' /\ Core' /\ UsersGoFirst'
  BY DestroyNextKeeps, LeaveBusyKeeps, ThrowBusyKeeps, DestroyNothingKeeps, DestructKeeps
<1>2. UNCHANGED <<transport, m_qps, m_srqs, m_udpMcastConns, m_connected, rts>>
  BY DEF DestroyNext, LeaveBusy, ThrowBusy, DestroyNothing, Destruct, recorded
<1>3. Range(faults) \subseteq Range(faults')
  <2>1. CASE faults' = faults
    BY <2>1
  <2>2. CASE faults' = Append(faults, "leave")
    <3>1. QueuePairsTypeOK /\ "leave" \in Faults
      BY Parts DEF Faults
    <3> QED
      BY <2>2, <3>1, MoreFaults
  <2> QED
    BY <2>1, <2>2 DEF DestroyNext, LeaveBusy, ThrowBusy, DestroyNothing, Destruct
<1>4. ConnectedCanSend'
  BY <1>2, <1>3 DEF QueuePairsInvariant, QueuePairsInv, ConnectedCanSend
<1>5. EndsOrderly'
  <2>1. CASE DestroyNext
    <3>1. phase \in {"running", "destroying"}
      BY <2>1, Parts, WhileTodo DEF DestroyNext
    <3>2. phase' \in {"running", "destroying", "gone"}
      BY <2>1, <3>1 DEF DestroyNext
    <3> QED
      BY <3>2 DEF EndsOrderly
  <2>2. CASE LeaveBusy
    BY <2>2 DEF LeaveBusy, QueuePairsInvariant, QueuePairsInv, EndsOrderly
  <2>3. CASE ThrowBusy \/ DestroyNothing \/ Destruct
    BY <2>3, ThrowBusyKeeps, DestroyNothingKeeps, DestructKeeps
  <2> QED
    BY <2>1, <2>2, <2>3
<1> QED
  BY <1>1, <1>2, <1>4, <1>5 DEF Kept

\* A step while the object lives, after which nothing is to be destroyed.
LEMMA RunningKept ==
    ASSUME phase' = "running", todo' = << >>, QueuePairsTypeOK', Numbered(uses', made'),
           BaseOK', ReliableOK', SrqsOK', UnreliableOK', ConnectedOK', Accounted',
           UsersGoFirst', ConnectedCanSend'
    PROVE  Kept
<1>1. TodoOK' /\ Ended'
  BY NothingTodo
<1>2. Early' /\ EndsOrderly'
  BY DEF Early, EndsOrderly
<1> QED
  BY <1>1, <1>2 DEF Kept, Core

\* Such a step in which more exists, and which changes none of the members but the queue pair of the client.
LEMMA MoreKept ==
    ASSUME QueuePairsInvariant, Ready,
           UNCHANGED <<transport, phase, todo, m_res, m_qps, m_srqs, m_udqp, m_udpMcastConns>>,
           calls' \in 0 .. MaxCalls, faults' \in Seq(Faults), Alive' \subseteq Objects,
           \A o \in Alive' : uses'[o] \subseteq Objects,
           made' \in Nat, m_lastMCastConnKey' \in Nat, m_connected' \subseteq 0 .. Len(m_qps) - 1,
           rts' \subseteq Objects, qp' \in Pairs,
           NEW X, NEW R, Spare(X, R), Grown(uses, uses', made, X), Numbered(uses', made'),
           R => ~NothingLost', Range(faults) \subseteq Range(faults'),
           \/ qp' \in {qp, NoQp}
           \/ transport = "ud" /\ qp' = m_udqp
           \/ /\ transport = "rc" /\ PairOK(uses', SrqQueues, qp') /\ qp'.recv_cq \notin SrqQueues
              /\ \A k \in Used : m_qps[k].qp # qp'.qp,
           ConnectedOK', ConnectedCanSend', UsersGoFirst',
           faults' = << >> =>
             /\ faults = << >>
             /\ qp' = qp \/ qp = NoQp \/ transport = "ud"
             /\ \A o \in Alive' \ Alive : o.type \in {"ah", "addrinfo"} \/ o \in PointersOf(qp')
    PROVE  Kept
<1>1. /\ QueuePairsTypeOK /\ Numbered(uses, made) /\ BaseOK /\ Early /\ Ended /\ ReliableOK
      /\ SrqsOK /\ UnreliableOK /\ ConnectedOK /\ TodoOK /\ Accounted
  BY Parts
<1>2. phase = "running" /\ todo = << >> /\ phase' = "running" /\ todo' = << >>
  BY DEF Ready
<1>3. QueuePairsTypeOK'
  BY <1>1 DEF QueuePairsTypeOK
<1>4. BaseOK' /\ ReliableOK' /\ SrqsOK' /\ UnreliableOK'
  BY <1>1, <1>2, MembersGrown
<1>5. Accounted'
  <2>1. ASSUME faults' = << >>, NEW o \in Alive, Named(o) PROVE Named(o)'
    <3>1. o # nullptr
      BY <1>1, NullIsNone DEF QueuePairsTypeOK
    <3>2. o \in PointersOf(qp) => o \in PointersOf(qp') \cup PointersOf(m_udqp)
      <4>1. CASE qp' = qp
        BY <4>1
      <4>2. CASE qp = NoQp
        BY <3>1, <4>2 DEF PointersOf, NoQp
      <4>3. CASE transport = "ud"
        <5>1. qp = m_udqp \/ qp = NoQp
          BY <1>1, <1>2, <4>3 DEF UnreliableOK
        <5> QED
          BY <3>1, <5>1 DEF PointersOf, NoQp
      <4> QED
        BY <2>1, <4>1, <4>2, <4>3
    <3>3. SrqQueues' = SrqQueues /\ ActiveKeys' = ActiveKeys
      BY DEF SrqQueues, ActiveKeys
    <3> QED
      BY <2>1, <3>2, <3>3 DEF Named
  <2>2. ASSUME faults' = << >>, NEW o \in Alive' \ Alive PROVE o.type \in {"ah", "addrinfo"} \/ Named(o)'
    <3>1. o.type \in {"ah", "addrinfo"} \/ o \in PointersOf(qp')
      BY <2>2
    <3> QED
      BY <3>1 DEF Named
  <2> QED
    BY <1>1, <1>2, <2>1, <2>2, AccountedGrown
<1> QED
  BY <1>2, <1>3, <1>4, <1>5, RunningKept

\* A call is counted.
LEMMA Counted ==
    ASSUME QueuePairsTypeOK, Starts
    PROVE  Ready /\ calls' \in 0 .. MaxCalls
BY QueuePairsAssumption DEF Starts, QueuePairsTypeOK

\* A call that fails, and leaves what it has made.
LEMMA FailureKept ==
    ASSUME QueuePairsInvariant, Ready, calls' \in 0 .. MaxCalls,
           UNCHANGED <<transport, phase, todo, m_res, m_qps, m_srqs, m_udqp, m_udpMcastConns, rts, qp>>,
           m_lastMCastConnKey' \in Nat,
           m_connected' = m_connected \/ (transport = "ud" /\ ConnectedOK' /\ m_connected' \subseteq 0 .. Len(m_qps) - 1),
           NEW steps, NEW X, StepsOK(steps, X), X \subseteq Alive, NEW R, Spare(X, R),
           NEW k, k \in 1 .. Len(steps), NEW what \in Faults, R => what = "queue pair of an srq",
           Fails(steps, k, what)
    PROVE  Kept
<1>1. QueuePairsTypeOK /\ Numbered(uses, made) /\ ConnectedOK
  BY Parts
<1>2. /\ Grown(uses, uses', made, X) /\ Numbered(uses', made') /\ made' \in Nat
      /\ Alive' \subseteq Objects /\ \A o \in Alive' : uses'[o] \subseteq Objects
      /\ faults' \in Seq(Faults) /\ faults' # << >>
      /\ Range(faults') = Range(faults) \cup {what}
  BY <1>1, FailsGrows
<1>3. R => ~NothingLost'
  BY <1>2 DEF NothingLost
<1>4. Range(faults) \subseteq Range(faults')
  BY <1>2
<1>5. ConnectedOK' /\ m_connected' \subseteq 0 .. Len(m_qps) - 1
  <2>1. m_connected \subseteq 0 .. Len(m_qps) - 1
    BY <1>1 DEF QueuePairsTypeOK
  <2>2. CASE m_connected' = m_connected
    BY <1>1, <2>1, <2>2 DEF ConnectedOK, Used
  <2> QED
    BY <2>2
<1>6. ConnectedCanSend'
  BY <1>4 DEF QueuePairsInvariant, QueuePairsInv, ConnectedCanSend
<1>7. UsersGoFirst'
  BY <1>2 DEF UsersGoFirst
<1>8. rts' \subseteq Objects /\ qp' \in Pairs /\ qp' \in {qp, NoQp}
  BY <1>1 DEF QueuePairsTypeOK
<1> QED
  BY <1>2, <1>3, <1>4, <1>5, <1>6, <1>7, <1>8, MoreKept

\* An object of reliable connections has got its base, and what the calls make is made of it.
LEMMA BaseReady ==
    ASSUME QueuePairsInvariant, phase \in {"base", "running"}
    PROVE  /\ m_res.ib_ctx.type = "ib_ctx" /\ m_res.buffer.type = "buffer"
           /\ m_res.pd.type = "pd" /\ m_res.mr.type = "mr"
           /\ {m_res.ib_ctx, m_res.pd} \subseteq Alive /\ {m_res.buffer, m_res.pd} \subseteq Alive
           /\ {m_res.pd} \subseteq Alive
           /\ \A R : Spare({m_res.ib_ctx, m_res.pd}, R) /\ Spare({m_res.buffer, m_res.pd}, R)
                     /\ Spare({m_res.pd}, R) /\ Spare({}, R)
<1>1. BaseOK
  BY Parts
<1> QED
  BY <1>1 DEF BaseOK, Base, Spare

\* A queue pair with queues of its own.
LEMMA QueuePairMade ==
    ASSUME QueuePairsInvariant, phase \in {"base", "running"}, NEW steps,
           StepsOK(steps, {m_res.ib_ctx, m_res.pd}), ObjectsOf(steps) = PointersOf(queuePair),
           \A o \in PointersOf(queuePair) : partsOf(steps, o) = partsOf(createQueues, o),
           Made(steps), NEW Q, Q \subseteq Alive
    PROVE  /\ PairOK(uses', Q, queuePair) /\ queuePair \in Pairs /\ queuePair # NoQp
           /\ PointersOf(queuePair) \cap Alive = {} /\ Alive' = Alive \cup PointersOf(queuePair)
           /\ \A q : queuePair.qp = q.qp => q.qp \notin Alive
<1>1. QueuePairsTypeOK /\ Numbered(uses, made)
  BY Parts
<1>2. m_res.ib_ctx.type = "ib_ctx" /\ m_res.pd.type = "pd" /\ {m_res.ib_ctx, m_res.pd} \subseteq Alive
  BY BaseReady
<1>3. PICK a, b, c : a = queuePair.send_cq /\ b = queuePair.recv_cq /\ c = queuePair.qp
  OBVIOUS
<1>4. /\ partsOf(createQueues, a) = {m_res.ib_ctx} /\ partsOf(createQueues, b) = {m_res.ib_ctx}
      /\ partsOf(createQueues, c) = {m_res.pd, a, b}
      /\ queuePair \in Pairs /\ c.type = "qp" /\ a.type = "cq" /\ b.type = "cq" /\ a # b
  BY <1>1, <1>2, <1>3, CreateQueues
<1>5. PointersOf(queuePair) = {a, b, c}
  BY <1>3 DEF PointersOf
<1>6. /\ partsOf(steps, a) = {m_res.ib_ctx} /\ partsOf(steps, b) = {m_res.ib_ctx}
      /\ partsOf(steps, c) = {m_res.pd, a, b}
  BY <1>4, <1>5
<1>7. /\ Alive' = Alive \cup ObjectsOf(steps)
      /\ \A o \in ObjectsOf(steps) : o \notin Alive /\ o \in Objects /\ uses'[o] = partsOf(steps, o)
      /\ \A o \in ObjectsOf(steps) : \A user \in Alive : o \notin uses'[user]
  BY <1>1, <1>2, MadeGrows
<1>8. a # c /\ b # c /\ m_res.ib_ctx \notin {a, b, c} /\ m_res.pd \notin {a, b, c}
  BY <1>2, <1>4
<1>9. \A o \in {a, b, c} : o = a \/ o = b \/ o = c
  OBVIOUS
<1>10. Only(uses', c, {}) /\ Only(uses', a, {c}) /\ Only(uses', b, {c})
  <2>1. \A o \in ObjectsOf(steps) : c \in partsOf(steps, o) => o \in {}
    BY <1>5, <1>6, <1>8, <1>9
  <2>2. \A o \in ObjectsOf(steps) : a \in partsOf(steps, o) => o \in {c}
    BY <1>5, <1>6, <1>8, <1>9
  <2>3. \A o \in ObjectsOf(steps) : b \in partsOf(steps, o) => o \in {c}
    BY <1>5, <1>6, <1>8, <1>9
  <2> QED
    BY <1>5, <1>7, <2>1, <2>2, <2>3, FreshOnly
<1>11. PairOK(uses', Q, queuePair)
  <2>1. {a, b, c} \subseteq DOMAIN uses' /\ uses'[c] = {m_res.pd, a, b}
    BY <1>5, <1>6, <1>7 DEF Alive
  <2>2. a \notin Q
    BY <1>5, <1>7
  <2>3. \A x \in uses'[c] : x.type = "cq" => x \in {a, b}
    BY <1>2, <2>1
  <2> QED
    BY <1>3, <1>4, <1>5, <1>10, <2>1, <2>2, <2>3 DEF PairOK
<1>12. queuePair # NoQp
  <2>1. c \in Objects
    BY <1>5, <1>7
  <2> QED
    BY <1>3, <2>1, NullIsNone DEF NoQp
<1> QED
  BY <1>3, <1>4, <1>5, <1>7, <1>11, <1>12

\* What entries name exists.
LEMMA EntriesExist ==
    ASSUME ReliableOK, transport = "rc", phase = "running"
    PROVE  /\ \A k \in Used : m_qps[k].qp \in Alive
           /\ qp # NoQp => qp.qp \in Alive
BY DEF ReliableOK, PairOK, PointersOf, Alive

\* The completion queues of shared receive queues exist.
LEMMA SrqQueuesExist ==
    ASSUME QueuePairsInvariant, phase = "running"
    PROVE  SrqQueues \subseteq Alive
BY Parts, SrqQueuesTyped

\* A client makes its queue pair.
LEMMA InitOwnQPKept ==
    ASSUME QueuePairsInvariant, InitOwnQP
    PROVE  Kept
<1>1. /\ QueuePairsTypeOK /\ Numbered(uses, made) /\ BaseOK /\ ReliableOK /\ ConnectedOK
  BY Parts
<1>2. /\ transport = "rc" /\ Ready /\ calls' \in 0 .. MaxCalls /\ qp = NoQp
      /\ UNCHANGED <<transport, phase, todo, m_res, m_qps, m_connected, m_srqs, m_udqp,
                     m_lastMCastConnKey, m_udpMcastConns, rts>>
  BY <1>1, Counted DEF InitOwnQP, recorded
<1>3. phase = "running"
  BY <1>2 DEF Ready
<1>4. /\ {m_res.ib_ctx, m_res.pd} \subseteq Alive /\ Spare({m_res.ib_ctx, m_res.pd}, FALSE)
      /\ m_res.ib_ctx.type = "ib_ctx" /\ m_res.pd.type = "pd"
  BY <1>3, BaseReady
<1>5. /\ StepsOK(createQueues, {m_res.ib_ctx, m_res.pd}) /\ Len(createQueues) = 4
      /\ DOMAIN createQueues = 1 .. 4 /\ ObjectsOf(createQueues) = PointersOf(queuePair)
  BY <1>1, <1>4, CreateQueues
<1>6. m_lastMCastConnKey' \in Nat
  BY <1>1, <1>2 DEF QueuePairsTypeOK
<1>7. CASE Made(createQueues) /\ qp' = queuePair
  <2>1. /\ Grown(uses, uses', made, {m_res.ib_ctx, m_res.pd}) /\ Numbered(uses', made') /\ made' \in Nat
        /\ Alive' \subseteq Objects /\ \A o \in Alive' : uses'[o] \subseteq Objects
        /\ faults' = faults /\ (UsersGoFirst => UsersGoFirst')
    BY <1>1, <1>4, <1>5, <1>7, MadeGrows
  <2>2. SrqQueues \subseteq Alive
    BY <1>3, SrqQueuesExist
  <2>3. /\ PairOK(uses', SrqQueues, queuePair) /\ queuePair \in Pairs
        /\ PointersOf(queuePair) \cap Alive = {} /\ Alive' = Alive \cup PointersOf(queuePair)
    BY <1>3, <1>5, <1>7, <2>2, QueuePairMade
  <2>4. qp'.recv_cq \notin SrqQueues /\ \A k \in Used : m_qps[k].qp # qp'.qp
    <3>1. qp'.recv_cq \notin Alive /\ qp'.qp \notin Alive
      BY <1>7, <2>3 DEF PointersOf
    <3> QED
      BY <1>1, <1>2, <1>3, <2>2, <3>1, EntriesExist
  <2>5. ConnectedOK' /\ ConnectedCanSend' /\ UsersGoFirst'
    BY <1>1, <1>2, <2>1 DEF ConnectedOK, Used, ConnectedCanSend, QueuePairsInvariant, QueuePairsInv
  <2>6. faults' \in Seq(Faults) /\ m_connected' \subseteq 0 .. Len(m_qps) - 1 /\ rts' \subseteq Objects
    BY <1>1, <1>2, <2>1 DEF QueuePairsTypeOK
  <2>7. qp' \in Pairs /\ PairOK(uses', SrqQueues, qp') /\ Range(faults) \subseteq Range(faults')
    BY <1>7, <2>1, <2>3
  <2>8. faults' = << >> =>
             /\ faults = << >>
             /\ qp' = qp \/ qp = NoQp \/ transport = "ud"
             /\ \A o \in Alive' \ Alive : o.type \in {"ah", "addrinfo"} \/ o \in PointersOf(qp')
    BY <1>2, <1>7, <2>1, <2>3
  <2> QED
    BY <1>2, <1>4, <1>6, <2>1, <2>4, <2>5, <2>6, <2>7, <2>8, MoreKept
<1>8. ASSUME NEW k \in DOMAIN createQueues, Fails(createQueues, k, "queues"), qp' = qp
      PROVE  Kept
  <2>1. "queues" \in Faults /\ k \in 1 .. Len(createQueues)
    BY <1>5 DEF Faults
  <2> QED
    BY <1>2, <1>4, <1>5, <1>6, <1>8, <2>1, FailureKept
<1> QED
  BY <1>7, <1>8 DEF InitOwnQP

\* A step in which no more exists.
LEMMA NothingGrown ==
    ASSUME UNCHANGED <<uses, made>>
    PROVE  /\ Grown(uses, uses', made, {})
           /\ QueuePairsInvariant =>
                /\ Numbered(uses', made') /\ Alive' \subseteq Objects /\ \A o \in Alive' : uses'[o] \subseteq Objects
                /\ made' \in Nat /\ Alive' = Alive
<1>1. Grown(uses, uses', made, {})
  BY DEF Grown
<1>2. Alive' = Alive
  BY DEF Alive
<1>3. ASSUME QueuePairsInvariant
      PROVE  /\ Numbered(uses', made') /\ Alive' \subseteq Objects /\ \A o \in Alive' : uses'[o] \subseteq Objects
             /\ made' \in Nat
  <2>1. QueuePairsTypeOK /\ Numbered(uses, made)
    BY <1>3, Parts
  <2>2. Numbered(uses', made')
    BY <2>1
  <2> QED
    BY <1>2, <2>1, <2>2 DEF QueuePairsTypeOK
<1> QED
  BY <1>1, <1>2, <1>3

\* Such a step that changes at most the queue pair of the client, the connected ids and the faults.
LEMMA NoMoreKept ==
    ASSUME QueuePairsInvariant, Ready,
           UNCHANGED <<transport, phase, todo, uses, made, m_res, m_qps, m_srqs, m_udqp, m_udpMcastConns,
                       m_lastMCastConnKey>>,
           calls' \in 0 .. MaxCalls, m_connected' \subseteq 0 .. Len(m_qps) - 1, rts' \subseteq Objects,
           \/ qp' \in {qp, NoQp}
           \/ transport = "ud" /\ qp' = m_udqp,
           faults' = faults \/ \E what \in Faults : faults' = Append(faults, what),
           ConnectedOK', ConnectedCanSend',
           faults' = << >> => qp' = qp \/ qp = NoQp \/ transport = "ud"
    PROVE  Kept
<1>1. QueuePairsTypeOK
  BY Parts
<1>2. faults' \in Seq(Faults) /\ Range(faults) \subseteq Range(faults') /\ (faults' = << >> => faults = << >>)
  <2>1. CASE faults' = faults
    BY <1>1, <2>1 DEF QueuePairsTypeOK
  <2>2. CASE \E what \in Faults : faults' = Append(faults, what)
    BY <1>1, <2>2, MoreFaults
  <2> QED
    BY <2>1, <2>2
<1>3. /\ Grown(uses, uses', made, {}) /\ Numbered(uses', made') /\ Alive' \subseteq Objects
      /\ \A o \in Alive' : uses'[o] \subseteq Objects
      /\ made' \in Nat /\ Alive' = Alive
  BY NothingGrown
<1>4. Spare({}, FALSE)
  BY DEF Spare
<1>5. UsersGoFirst'
  BY <1>2, <1>3 DEF QueuePairsInvariant, QueuePairsInv, UsersGoFirst
<1>6. m_lastMCastConnKey' \in Nat /\ qp' \in Pairs
  BY <1>1 DEF QueuePairsTypeOK, NoQp, Pairs, Pointers
<1>7. faults' = << >> =>
             /\ faults = << >>
             /\ qp' = qp \/ qp = NoQp \/ transport = "ud"
             /\ \A o \in Alive' \ Alive : o.type \in {"ah", "addrinfo"} \/ o \in PointersOf(qp')
  BY <1>2, <1>3
<1> QED
  BY <1>2, <1>3, <1>4, <1>5, <1>6, <1>7, MoreKept

\* A client of UnreliableRDMA takes the one queue pair.
LEMMA InitOwnUdQPKept ==
    ASSUME QueuePairsInvariant, InitOwnUdQP
    PROVE  Kept
<1>1. /\ QueuePairsTypeOK /\ ConnectedOK
  BY Parts
<1>2. /\ transport = "ud" /\ Ready /\ calls' \in 0 .. MaxCalls /\ qp = NoQp /\ qp' = m_udqp
      /\ UNCHANGED <<transport, phase, todo, faults, uses, made, m_res, m_qps, m_connected, m_srqs, m_udqp,
                     m_lastMCastConnKey, m_udpMcastConns, rts>>
  BY <1>1, Counted DEF InitOwnUdQP, recorded
<1>3. ConnectedOK' /\ ConnectedCanSend' /\ m_connected' \subseteq 0 .. Len(m_qps) - 1 /\ rts' \subseteq Objects
  BY <1>1, <1>2 DEF ConnectedOK, Used, ConnectedCanSend, QueuePairsTypeOK
<1> QED
  BY <1>2, <1>3, NoMoreKept

\* There is no answer for a client.
LEMMA NoAnswerKept ==
    ASSUME QueuePairsInvariant, NoAnswer
    PROVE  Kept
<1>1. /\ QueuePairsTypeOK /\ ConnectedOK
  BY Parts
<1>2. /\ Ready /\ calls' \in 0 .. MaxCalls /\ qp' = NoQp /\ faults' = Append(faults, "exchange")
      /\ UNCHANGED <<transport, phase, todo, uses, made, m_res, m_qps, m_connected, m_srqs, m_udqp,
                     m_lastMCastConnKey, m_udpMcastConns, rts>>
  BY <1>1 DEF NoAnswer, recorded, QueuePairsTypeOK
<1>3. "exchange" \in Faults
  BY DEF Faults
<1>4. faults' # << >> /\ Range(faults) \subseteq Range(faults')
  BY <1>1, <1>2, <1>3, MoreFaults
<1>5. ConnectedOK' /\ ConnectedCanSend' /\ m_connected' \subseteq 0 .. Len(m_qps) - 1 /\ rts' \subseteq Objects
  BY <1>1, <1>2, <1>4
     DEF ConnectedOK, Used, ConnectedCanSend, QueuePairsTypeOK, QueuePairsInvariant, QueuePairsInv
<1> QED
  BY <1>2, <1>3, <1>4, <1>5, NoMoreKept

\* A reliable connection is connected.
LEMMA ConnectQPKept ==
    ASSUME QueuePairsInvariant, NEW id \in 0 .. Len(m_qps) - 1, m_qps[id + 1] # NoQp, ConnectQP(id)
    PROVE  Kept
<1>1. /\ QueuePairsTypeOK /\ ConnectedOK /\ ReliableOK
  BY Parts
<1>2. /\ transport = "rc" /\ Ready /\ calls' \in 0 .. MaxCalls
      /\ UNCHANGED <<transport, phase, todo, uses, made, m_res, m_qps, m_srqs, m_udqp,
                     m_lastMCastConnKey, m_udpMcastConns, qp>>
  BY <1>1, Counted DEF ConnectQP
<1>3. /\ m_connected \subseteq 0 .. Len(m_qps) - 1 /\ rts \subseteq Objects /\ m_qps \in Seq(Pairs)
  BY <1>1 DEF QueuePairsTypeOK
<1>4. id + 1 \in Used
  <2>1. Len(m_qps) \in Nat /\ DOMAIN m_qps = 1 .. Len(m_qps)
    BY <1>3, LenProperties
  <2> QED
    BY <2>1 DEF Used
<1>5. m_qps[id + 1].qp \in Objects
  BY <1>1, <1>2, <1>4, EntriesExist DEF QueuePairsTypeOK, Ready
<1>6. CASE UNCHANGED <<m_connected, rts, faults>>
  BY <1>1, <1>2, <1>3, <1>6, NoMoreKept
     DEF ConnectedOK, Used, ConnectedCanSend, QueuePairsInvariant, QueuePairsInv
<1>7. CASE m_connected' = m_connected \cup {id} /\ rts' = rts \cup {m_qps[id + 1].qp} /\ faults' = faults
  <2>1. ConnectedOK'
    BY <1>1, <1>2, <1>4, <1>7 DEF ConnectedOK, Used
  <2>2. ConnectedCanSend'
    BY <1>2, <1>7 DEF ConnectedCanSend, QueuePairsInvariant, QueuePairsInv
  <2>3. m_connected' \subseteq 0 .. Len(m_qps) - 1 /\ rts' \subseteq Objects
    BY <1>3, <1>5, <1>7
  <2> QED
    BY <1>2, <1>7, <2>1, <2>2, <2>3, NoMoreKept
<1>8. CASE UNCHANGED <<m_connected, rts>> /\ faults' = Append(faults, "connect")
  <2>1. "connect" \in Faults
    BY DEF Faults
  <2>2. Range(faults) \subseteq Range(faults')
    BY <1>1, <1>8, <2>1, MoreFaults
  <2>3. ConnectedOK' /\ ConnectedCanSend'
    BY <1>1, <1>2, <1>8, <2>2
       DEF ConnectedOK, Used, ConnectedCanSend, QueuePairsInvariant, QueuePairsInv
  <2>4. m_connected' \subseteq 0 .. Len(m_qps) - 1 /\ rts' \subseteq Objects
    BY <1>3, <1>8
  <2>5. qp' = qp
    BY <1>2
  <2> QED
    BY <1>2, <1>8, <2>1, <2>3, <2>4, <2>5, NoMoreKept
<1> QED
  BY <1>6, <1>7, <1>8 DEF ConnectQP

\* An address handle is made for another.
LEMMA ConnectUdQPKept ==
    ASSUME QueuePairsInvariant, NEW id \in 0 .. Len(m_qps) - 1, m_qps[id + 1] # NoQp, ConnectUdQP(id)
    PROVE  Kept
<1>1. /\ QueuePairsTypeOK /\ ConnectedOK /\ Numbered(uses, made)
  BY Parts
<1>2. /\ transport = "ud" /\ Ready /\ calls' \in 0 .. MaxCalls /\ m_connected' = m_connected \cup {id}
      /\ UNCHANGED <<transport, phase, todo, m_res, m_qps, m_srqs, m_udqp,
                     m_lastMCastConnKey, m_udpMcastConns, rts, qp>>
  BY <1>1, Counted DEF ConnectUdQP
<1>3. /\ m_connected' \subseteq 0 .. Len(m_qps) - 1 /\ rts' \subseteq Objects /\ m_qps \in Seq(Pairs)
      /\ m_lastMCastConnKey' \in Nat /\ qp' \in Pairs
  BY <1>1, <1>2 DEF QueuePairsTypeOK
<1>4. ConnectedOK' /\ ConnectedCanSend'
  <2>1. Len(m_qps) \in Nat /\ DOMAIN m_qps = 1 .. Len(m_qps)
    BY <1>3, LenProperties
  <2>2. id + 1 \in Used
    BY <2>1 DEF Used
  <2>3. ConnectedOK'
    BY <1>1, <1>2, <2>2 DEF ConnectedOK, Used
  <2> QED
    BY <1>2, <2>3 DEF ConnectedCanSend
<1>5. CASE UNCHANGED <<faults, uses, made>>
  BY <1>2, <1>3, <1>4, <1>5, NoMoreKept
<1>6. phase = "running"
  BY <1>2 DEF Ready
<1>7. {m_res.pd} \subseteq Alive /\ Spare({m_res.pd}, FALSE) /\ m_res.pd.type = "pd"
  BY <1>6, BaseReady
<1>8. /\ StepsOK(createHandle, {m_res.pd}) /\ Len(createHandle) = 1
      /\ ObjectsOf(createHandle) = {fresh("ah", 1)}
  BY <1>1, <1>7, CreateHandle
<1>9. CASE Made(createHandle)
  <2>1. /\ Grown(uses, uses', made, {m_res.pd}) /\ Numbered(uses', made') /\ made' \in Nat
        /\ Alive' \subseteq Objects /\ \A o \in Alive' : uses'[o] \subseteq Objects
        /\ Alive' = Alive \cup ObjectsOf(createHandle)
        /\ faults' = faults /\ (UsersGoFirst => UsersGoFirst')
    BY <1>1, <1>7, <1>8, <1>9, MadeGrows
  <2>2. UsersGoFirst'
    BY <2>1 DEF QueuePairsInvariant, QueuePairsInv
  <2>3. \A o \in Alive' \ Alive : o.type = "ah"
    BY <1>8, <2>1 DEF fresh
  <2>4. faults' \in Seq(Faults)
    BY <1>1, <2>1 DEF QueuePairsTypeOK
  <2>5. Range(faults) \subseteq Range(faults') /\ qp' = qp
    BY <1>2, <2>1
  <2>6. faults' = << >> =>
             /\ faults = << >>
             /\ qp' = qp \/ qp = NoQp \/ transport = "ud"
             /\ \A o \in Alive' \ Alive : o.type \in {"ah", "addrinfo"} \/ o \in PointersOf(qp')
    BY <2>1, <2>3, <2>5
  <2> QED
    BY <1>2, <1>3, <1>4, <1>7, <2>1, <2>2, <2>4, <2>5, <2>6, MoreKept
<1>10. CASE Fails(createHandle, 1, "connect")
  <2>1. "connect" \in Faults /\ 1 \in 1 .. Len(createHandle)
    BY <1>8 DEF Faults
  <2>2. m_connected' = m_connected \/ (transport = "ud" /\ ConnectedOK' /\ m_connected' \subseteq 0 .. Len(m_qps) - 1)
    BY <1>2, <1>3, <1>4
  <2>3. UNCHANGED <<transport, phase, todo, m_res, m_qps, m_srqs, m_udqp, m_udpMcastConns, rts, qp>>
    BY <1>2
  <2> QED
    BY <1>2, <1>3, <1>7, <1>8, <1>10, <2>1, <2>2, <2>3, FailureKept
<1> QED
  BY <1>5, <1>9, <1>10 DEF ConnectUdQP

\* An entry gets a queue pair, which may have been made for it.
LEMMA EntryKept ==
    ASSUME QueuePairsInvariant, Ready,
           UNCHANGED <<transport, phase, todo, faults, m_res, m_connected, m_srqs, m_udqp,
                       m_lastMCastConnKey, m_udpMcastConns, rts>>,
           calls' \in 0 .. MaxCalls, Alive' \subseteq Objects, \A o \in Alive' : uses'[o] \subseteq Objects,
           made' \in Nat, UsersGoFirst',
           NEW X, Spare(X, TRUE), Grown(uses, uses', made, X), Numbered(uses', made'),
           NEW id \in Nat, Unused(id), NEW q \in Pairs, q # NoQp, setQP(id, q),
           qp' = qp \/ (qp' = NoQp /\ q = qp),
           transport = "rc" =>
               /\ PairOK(uses', SrqQueues, q) /\ (\A k \in Used : m_qps[k].qp # q.qp)
               /\ qp' # NoQp => qp.qp # q.qp
               /\ \A s \in DOMAIN m_srqs : \A o \in Alive' \ Alive :
                     m_srqs[s].shared_rq \in uses'[o] \/ m_srqs[s].recv_cq \in uses'[o] => o = q.qp,
           transport = "ud" => q = m_udqp,
           \A o \in Alive' \ Alive : o \in PointersOf(q)
    PROVE  Kept
<1> USE DEF Alive
<1>1. /\ QueuePairsTypeOK /\ Numbered(uses, made) /\ BaseOK /\ Early /\ Ended /\ ReliableOK
      /\ SrqsOK /\ UnreliableOK /\ ConnectedOK /\ TodoOK /\ Accounted
  BY Parts
<1>2. phase = "running" /\ todo = << >> /\ phase' = "running" /\ todo' = << >>
  BY DEF Ready
<1>3. /\ m_qps' \in Seq(Pairs) /\ m_connected \subseteq 0 .. Len(m_qps') - 1
      /\ id + 1 \in Used' /\ m_qps'[id + 1] = q
      /\ Used' = Used \cup {id + 1} /\ id + 1 \notin Used
      /\ \A k \in Used : m_qps'[k] = m_qps[k]
      /\ \A k \in DOMAIN m_qps' : k \notin Used' => m_qps'[k] = NoQp
      /\ EntryQps \ {nullptr} \subseteq EntryQps' /\ q.qp \in EntryQps'
      /\ \A k \in m_connected : m_qps'[k + 1] = m_qps[k + 1] /\ k + 1 \in Used
  BY <1>1, QPSet
<1>4. nullptr \notin Alive'
  BY NullIsNone
<1>5. Base' = Base /\ SrqQueues' = SrqQueues /\ ActiveKeys' = ActiveKeys /\ (NothingLost' <=> NothingLost)
  BY DEF Base, SrqQueues, ActiveKeys, NothingLost
<1>6. QueuePairsTypeOK'
  <2>1. qp' \in Pairs
    BY <1>1 DEF QueuePairsTypeOK, NoQp, Pairs, Pointers
  <2> QED
    BY <1>1, <1>3, <2>1 DEF QueuePairsTypeOK
<1>7. BaseOK'
  <2>1. \A x \in X : x.type # "mr"
    BY <1>1, <1>2, SpareTypes
  <2> QED
    BY <1>1, <1>2, <2>1, BaseGrown
<1>8. ReliableOK'
  <2>1. SUFFICES ASSUME transport = "rc"
                 PROVE  /\ m_udpMcastConns = << >> /\ m_udqp = NoQp
                        /\ \A k \in Used' : PairOK(uses', SrqQueues, m_qps'[k])
                        /\ \A j, k \in Used' : j # k => m_qps'[j].qp # m_qps'[k].qp
                        /\ qp' # NoQp => /\ PairOK(uses', SrqQueues, qp') /\ qp'.recv_cq \notin SrqQueues
                                         /\ \A k \in Used' : m_qps'[k].qp # qp'.qp
    BY <1>5 DEF ReliableOK
  <2>2. /\ \A k \in Used : PairOK(uses', SrqQueues, m_qps[k])
        /\ qp # NoQp => PairOK(uses', SrqQueues, qp)
    BY <1>1, <1>2, <2>1, ReliableGrown
  <2>3. /\ m_udpMcastConns = << >> /\ m_udqp = NoQp
        /\ \A j, k \in Used : j # k => m_qps[j].qp # m_qps[k].qp
        /\ qp # NoQp => /\ qp.recv_cq \notin SrqQueues /\ \A k \in Used : m_qps[k].qp # qp.qp
    BY <1>1, <1>2, <2>1 DEF ReliableOK
  <2>4. PairOK(uses', SrqQueues, q) /\ (\A k \in Used : m_qps[k].qp # q.qp) /\ (qp' # NoQp => qp.qp # q.qp)
    BY <2>1
  <2>5. \A k \in Used' : (k \in Used /\ m_qps'[k] = m_qps[k]) \/ (k = id + 1 /\ m_qps'[k] = q)
    BY <1>3
  <2>6. \A k \in Used' : PairOK(uses', SrqQueues, m_qps'[k])
    BY <2>2, <2>4, <2>5
  <2>7. \A j, k \in Used' : j # k => m_qps'[j].qp # m_qps'[k].qp
    BY <2>3, <2>4, <2>5
  <2>8. qp' # NoQp => qp' = qp /\ \A k \in Used' : m_qps'[k].qp # qp.qp
    BY <2>3, <2>4, <2>5
  <2> QED
    BY <2>2, <2>3, <2>6, <2>7, <2>8
<1>9. SrqsOK'
  <2>1. SUFFICES ASSUME transport = "rc"
                 PROVE  /\ \A s \in DOMAIN m_srqs :
                             /\ m_srqs[s].shared_rq \in Alive' /\ m_srqs[s].shared_rq.type = "srq"
                             /\ m_srqs[s].recv_cq \in Alive' /\ m_srqs[s].recv_cq.type = "cq"
                             /\ NothingLost => /\ Only(uses', m_srqs[s].shared_rq, EntryQps')
                                               /\ Only(uses', m_srqs[s].recv_cq, EntryQps')
                        /\ \A s, t \in DOMAIN m_srqs : s # t => m_srqs[s].shared_rq # m_srqs[t].shared_rq
    BY <1>2, <1>5 DEF SrqsOK
  <2>2. \A s, t \in DOMAIN m_srqs : s # t => m_srqs[s].shared_rq # m_srqs[t].shared_rq
    BY <1>1, <1>2, <2>1 DEF SrqsOK
  <2>3. \A s \in DOMAIN m_srqs : /\ m_srqs[s].shared_rq \in Alive' /\ m_srqs[s].shared_rq.type = "srq"
                                 /\ m_srqs[s].recv_cq \in Alive' /\ m_srqs[s].recv_cq.type = "cq"
    BY <1>1, <1>2, <2>1, SrqsGrown
  <2>4. ASSUME NEW s \in DOMAIN m_srqs, NothingLost, NEW x \in {m_srqs[s].shared_rq, m_srqs[s].recv_cq}
        PROVE  Only(uses', x, EntryQps')
    <3>1. Only(uses, x, EntryQps)
      BY <1>1, <1>2, <2>1, <2>4 DEF SrqsOK
    <3>2. ASSUME NEW o \in Alive', x \in uses'[o] PROVE o \in EntryQps'
      <4>1. CASE o \in Alive
        <5>1. uses'[o] = uses[o]
          BY <4>1 DEF Grown
        <5>2. o \in EntryQps
          BY <3>1, <3>2, <4>1, <5>1 DEF Only
        <5> QED
          BY <1>3, <1>4, <5>2
      <4>2. CASE o \notin Alive
        <5>1. o = q.qp
          BY <2>1, <3>2, <4>2
        <5> QED
          BY <1>3, <5>1
      <4> QED
        BY <4>1, <4>2
    <3> QED
      BY <3>2 DEF Only
  <2> QED
    BY <2>2, <2>3, <2>4
<1>10. UnreliableOK'
  <2>1. SUFFICES ASSUME transport = "ud"
                 PROVE  /\ m_srqs = << >>
                        /\ m_udqp # NoQp /\ PairOK(uses', {}, m_udqp)
                        /\ \A k \in DOMAIN m_qps' : m_qps'[k] \in {NoQp, m_udqp}
                        /\ qp' \in {NoQp, m_udqp}
                        /\ \A k \in ActiveKeys :
                             /\ GroupOK(uses', m_udpMcastConns[k])
                             /\ ObjectsOfGroup(m_udpMcastConns[k]) \cap (Base \cup PointersOf(m_udqp)) = {}
                        /\ \A j, k \in ActiveKeys :
                             j # k => ObjectsOfGroup(m_udpMcastConns[j]) \cap ObjectsOfGroup(m_udpMcastConns[k]) = {}
    BY <1>5 DEF UnreliableOK
  <2>2. PairOK(uses', {}, m_udqp) /\ \A k \in ActiveKeys : GroupOK(uses', m_udpMcastConns[k])
    BY <1>1, <1>2, <2>1, UnreliableGrown
  <2>3. /\ m_srqs = << >> /\ m_udqp # NoQp /\ qp \in {NoQp, m_udqp}
        /\ \A k \in DOMAIN m_qps : m_qps[k] \in {NoQp, m_udqp}
        /\ \A k \in ActiveKeys : ObjectsOfGroup(m_udpMcastConns[k]) \cap (Base \cup PointersOf(m_udqp)) = {}
        /\ \A j, k \in ActiveKeys :
             j # k => ObjectsOfGroup(m_udpMcastConns[j]) \cap ObjectsOfGroup(m_udpMcastConns[k]) = {}
    BY <1>1, <1>2, <2>1 DEF UnreliableOK
  <2>4. \A k \in DOMAIN m_qps' : m_qps'[k] \in {NoQp, m_udqp}
    <3>1. q = m_udqp /\ Used \subseteq DOMAIN m_qps
      BY <2>1 DEF Used
    <3> QED
      BY <1>3, <2>3, <3>1
  <2> QED
    BY <2>2, <2>3, <2>4
<1>11. ConnectedOK' /\ ConnectedCanSend'
  BY <1>3 DEF ConnectedOK, ConnectedCanSend, QueuePairsInvariant, QueuePairsInv
<1>12. Accounted'
  <2>1. \A o \in PointersOf(q) : Named(o)'
    BY <1>3 DEF Named, Used
  <2>2. ASSUME NEW o \in Alive, Named(o) PROVE Named(o)'
    <3>1. o # nullptr
      BY <1>1, NullIsNone DEF QueuePairsTypeOK
    <3>2. CASE o \in PointersOf(qp)
      <4>1. CASE qp' = qp
        BY <3>2, <4>1 DEF Named
      <4>2. CASE q = qp
        BY <2>1, <3>2, <4>2
      <4> QED
        BY <4>1, <4>2
    <3>3. ASSUME NEW k \in DOMAIN m_qps, o \in PointersOf(m_qps[k]) PROVE Named(o)'
      <4>1. k \in Used
        BY <3>1, <3>3 DEF Used, PointersOf, NoQp
      <4>2. k \in DOMAIN m_qps' /\ o \in PointersOf(m_qps'[k])
        BY <1>3, <3>3, <4>1 DEF Used
      <4> QED
        BY <4>2 DEF Named
    <3>4. o \in PointersOf(m_udqp) \cup SrqQueues => Named(o)'
      BY <1>5 DEF Named
    <3>5. (\E s \in DOMAIN m_srqs : o = m_srqs[s].shared_rq) => Named(o)'
      BY DEF Named
    <3>6. (\E k \in ActiveKeys : o \in ObjectsOfGroup(m_udpMcastConns[k])) => Named(o)'
      BY <1>5 DEF Named
    <3> QED
      BY <2>2, <3>2, <3>3, <3>4, <3>5, <3>6 DEF Named
  <2> QED
    BY <1>1, <1>2, <2>1, <2>2, AccountedGrown
<1> QED
  BY <1>2, <1>6, <1>7, <1>8, <1>9, <1>10, <1>11, <1>12, RunningKept

\* The ids that entries are made for.
LEMMA InitIDsUnused ==
    ASSUME QueuePairsTypeOK, NEW id \in InitIDs
    PROVE  id \in Nat /\ Unused(id)
<1>1. Len(m_qps) \in Nat
  BY LenProperties DEF QueuePairsTypeOK
<1> QED
  BY <1>1, QueuePairsAssumption DEF InitIDs, MayInit, nextConnKey

\* A connection gets a queue pair with queues of its own.
LEMMA InitQPKept ==
    ASSUME QueuePairsInvariant, NEW id \in InitIDs, InitQP(id)
    PROVE  Kept
<1>1. /\ QueuePairsTypeOK /\ Numbered(uses, made) /\ BaseOK /\ ReliableOK /\ ConnectedOK /\ SrqsOK
  BY Parts
<1>2. /\ transport = "rc" /\ Ready /\ calls' \in 0 .. MaxCalls
      /\ UNCHANGED <<transport, phase, todo, m_res, m_connected, m_srqs, m_udqp,
                     m_lastMCastConnKey, m_udpMcastConns, rts, qp>>
  BY <1>1, Counted DEF InitQP
<1>3. phase = "running" /\ id \in Nat /\ Unused(id)
  BY <1>1, <1>2, InitIDsUnused DEF Ready
<1>4. /\ {m_res.ib_ctx, m_res.pd} \subseteq Alive /\ Spare({m_res.ib_ctx, m_res.pd}, FALSE)
      /\ Spare({m_res.ib_ctx, m_res.pd}, TRUE)
      /\ m_res.ib_ctx.type = "ib_ctx" /\ m_res.pd.type = "pd"
  BY <1>3, BaseReady
<1>5. /\ StepsOK(createQueues, {m_res.ib_ctx, m_res.pd}) /\ Len(createQueues) = 4
      /\ DOMAIN createQueues = 1 .. 4 /\ ObjectsOf(createQueues) = PointersOf(queuePair)
  BY <1>1, <1>4, CreateQueues
<1>6. m_lastMCastConnKey' \in Nat
  BY <1>1, <1>2 DEF QueuePairsTypeOK
<1>7. CASE Made(createQueues) /\ setQP(id, queuePair)
  <2>1. /\ Grown(uses, uses', made, {m_res.ib_ctx, m_res.pd}) /\ Numbered(uses', made') /\ made' \in Nat
        /\ Alive' \subseteq Objects /\ \A o \in Alive' : uses'[o] \subseteq Objects
        /\ faults' = faults /\ (UsersGoFirst => UsersGoFirst')
    BY <1>1, <1>4, <1>5, <1>7, MadeGrows
  <2>2. SrqQueues \subseteq Alive
    BY <1>3, SrqQueuesExist
  <2>3. /\ PairOK(uses', SrqQueues, queuePair) /\ queuePair \in Pairs /\ queuePair # NoQp
        /\ PointersOf(queuePair) \cap Alive = {} /\ Alive' = Alive \cup PointersOf(queuePair)
    BY <1>3, <1>5, <1>7, <2>2, QueuePairMade
  <2>4. (\A k \in Used : m_qps[k].qp # queuePair.qp) /\ (qp # NoQp => qp.qp # queuePair.qp)
    <3>1. queuePair.qp \notin Alive
      BY <2>3 DEF PointersOf
    <3> QED
      BY <1>1, <1>2, <1>3, <3>1, EntriesExist
  <2>5. \A s \in DOMAIN m_srqs : \A o \in Alive' \ Alive :
           m_srqs[s].shared_rq \notin uses'[o] /\ m_srqs[s].recv_cq \notin uses'[o]
    <3>1. \A o \in Alive' \ Alive : uses'[o] \cap Alive \subseteq {m_res.ib_ctx, m_res.pd}
      BY <2>1 DEF Grown, Alive
    <3>2. \A s \in DOMAIN m_srqs : /\ m_srqs[s].shared_rq \in Alive \ {m_res.ib_ctx, m_res.pd}
                                   /\ m_srqs[s].recv_cq \in Alive \ {m_res.ib_ctx, m_res.pd}
      BY <1>1, <1>2, <1>3, <1>4 DEF SrqsOK
    <3> QED
      BY <3>1, <3>2
  <2>6. UsersGoFirst'
    BY <2>1 DEF QueuePairsInvariant, QueuePairsInv
  <2>7. UNCHANGED <<transport, phase, todo, faults, m_res, m_connected, m_srqs, m_udqp,
                    m_lastMCastConnKey, m_udpMcastConns, rts>> /\ qp' = qp
    BY <1>2, <2>1
  <2>8. \A o \in Alive' \ Alive : o \in PointersOf(queuePair)
    BY <2>3
  <2>9. transport # "ud"
    BY <1>2
  <2> QED
    BY <1>2, <1>3, <1>4, <1>7, <2>1, <2>3, <2>4, <2>5, <2>6, <2>7, <2>8, <2>9, EntryKept
<1>8. ASSUME NEW k \in DOMAIN createQueues, Fails(createQueues, k, "queues"), m_qps' = m_qps
      PROVE  Kept
  <2>1. "queues" \in Faults /\ k \in 1 .. Len(createQueues)
    BY <1>5 DEF Faults
  <2> QED
    BY <1>2, <1>4, <1>5, <1>6, <1>8, <2>1, FailureKept
<1> QED
  BY <1>7, <1>8 DEF InitQP

\* A connection of UnreliableRDMA gets the one queue pair.
LEMMA InitUdQPKept ==
    ASSUME QueuePairsInvariant, NEW id \in InitIDs, InitUdQP(id)
    PROVE  Kept
<1>1. QueuePairsTypeOK /\ UnreliableOK
  BY Parts
<1>2. /\ transport = "ud" /\ Ready /\ calls' \in 0 .. MaxCalls /\ setQP(id, m_udqp)
      /\ UNCHANGED <<transport, phase, todo, faults, uses, made, m_res, m_connected, m_srqs, m_udqp,
                     m_lastMCastConnKey, m_udpMcastConns, rts, qp>>
  BY <1>1, Counted DEF InitUdQP
<1>3. id \in Nat /\ Unused(id)
  BY <1>1, InitIDsUnused
<1>4. m_udqp # NoQp /\ m_udqp \in Pairs
  BY <1>1, <1>2 DEF UnreliableOK, Ready, QueuePairsTypeOK
<1>5. /\ Grown(uses, uses', made, {}) /\ Numbered(uses', made') /\ Alive' \subseteq Objects
      /\ \A o \in Alive' : uses'[o] \subseteq Objects
      /\ made' \in Nat /\ Alive' = Alive
  BY <1>2, NothingGrown
<1>6. UsersGoFirst' /\ Spare({}, TRUE)
  BY <1>2, <1>5 DEF QueuePairsInvariant, QueuePairsInv, UsersGoFirst, Spare
<1>7. transport # "rc" /\ \A o \in Alive' \ Alive : o \in PointersOf(m_udqp)
  BY <1>2, <1>5
<1> QED
  BY <1>2, <1>3, <1>4, <1>5, <1>6, <1>7, EntryKept

\* A connection gets a queue pair that receives from a shared receive queue.
LEMMA InitQPForSRQKept ==
    ASSUME QueuePairsInvariant, NEW s \in DOMAIN m_srqs, NEW id \in InitIDs, InitQPForSRQ(s, id)
    PROVE  Kept
<1> USE DEF Alive
<1>1. /\ QueuePairsTypeOK /\ Numbered(uses, made) /\ BaseOK /\ ReliableOK /\ ConnectedOK /\ SrqsOK /\ UnreliableOK
  BY Parts
<1>2. /\ Ready /\ calls' \in 0 .. MaxCalls
      /\ UNCHANGED <<transport, phase, todo, m_res, m_connected, m_srqs, m_udqp,
                     m_lastMCastConnKey, m_udpMcastConns, rts, qp>>
  BY <1>1, Counted DEF InitQPForSRQ
<1>3. phase = "running" /\ id \in Nat /\ Unused(id)
  BY <1>1, <1>2, InitIDsUnused DEF Ready
<1>4. transport = "rc"
  <2>1. m_srqs # << >>
    OBVIOUS
  <2> QED
    BY <1>1, <2>1, QueuePairsAssumption DEF UnreliableOK, QueuePairsTypeOK
<1>5. PICK srq : srq = m_srqs[s]
  OBVIOUS
<1>6. /\ srq.shared_rq \in Alive /\ srq.shared_rq.type = "srq"
      /\ srq.recv_cq \in Alive /\ srq.recv_cq.type = "cq" /\ srq.recv_cq \in SrqQueues
  BY <1>1, <1>3, <1>4, <1>5 DEF SrqsOK, SrqQueues
<1> DEFINE X == {m_res.ib_ctx, m_res.pd, srq.recv_cq, srq.shared_rq}
           a == fresh("cq", 1)
           b == fresh("qp", 2)
           q == [qp |-> b, send_cq |-> a, recv_cq |-> srq.recv_cq]
           L == createForSrq(srq)
<1>7. /\ {m_res.ib_ctx, m_res.pd} \subseteq Alive
      /\ m_res.ib_ctx.type = "ib_ctx" /\ m_res.pd.type = "pd"
  BY <1>3, BaseReady
<1>8. X \subseteq Alive /\ Spare(X, TRUE) /\ Spare({m_res.ib_ctx, m_res.pd}, FALSE)
  BY <1>4, <1>6, <1>7 DEF Spare
<1>9. /\ Len(L) = 3 /\ DOMAIN L = 1 .. 3 /\ StepsOK(L, X) /\ ObjectsOf(L) = {a, b}
      /\ partsOf(L, a) = {m_res.ib_ctx}
      /\ partsOf(L, b) = {m_res.pd, a, srq.recv_cq, srq.shared_rq}
  BY <1>1, <1>6, <1>7, CreateForSrq
<1>10. /\ a \in Objects /\ b \in Objects /\ a.type = "cq" /\ b.type = "qp"
  <2>1. "cq" \in Types /\ "qp" \in Types
    BY DEF Types
  <2> QED
    BY <1>1, <2>1, FreshObjects
<1>11. m_lastMCastConnKey' \in Nat
  BY <1>1, <1>2 DEF QueuePairsTypeOK
<1>12. q \in Pairs /\ q # NoQp /\ q.qp = b /\ q.send_cq = a /\ q.recv_cq = srq.recv_cq
  <2>1. srq.recv_cq \in Objects
    BY <1>1, <1>6 DEF QueuePairsTypeOK
  <2>2. b # nullptr
    BY <1>10, NullIsNone
  <2> HIDE DEF a, b
  <2>3. q \in Pairs
    BY <1>10, <2>1 DEF Pairs, Pointers
  <2>4. q # NoQp
    BY <2>2 DEF NoQp
  <2> QED
    BY <2>3, <2>4
<1> HIDE DEF X, L, a, b, q
<1>13. CASE Made(L) /\ setQP(id, q)
  <2>1. /\ Grown(uses, uses', made, X) /\ Numbered(uses', made') /\ made' \in Nat
        /\ Alive' \subseteq Objects /\ \A o \in Alive' : uses'[o] \subseteq Objects
        /\ Alive' = Alive \cup ObjectsOf(L) /\ faults' = faults
        /\ \A o \in ObjectsOf(L) : o \notin Alive /\ o \in Objects /\ uses'[o] = partsOf(L, o)
        /\ \A o \in ObjectsOf(L) : \A user \in Alive : o \notin uses'[user]
        /\ UsersGoFirst => UsersGoFirst'
    BY <1>1, <1>8, <1>9, <1>13, MadeGrows
  <2>2. SrqQueues \subseteq Alive
    BY <1>3, SrqQueuesExist
  <2>3. /\ a \notin Alive /\ b \notin Alive /\ Alive' = Alive \cup {a, b}
        /\ uses'[a] = {m_res.ib_ctx} /\ uses'[b] = {m_res.pd, a, srq.recv_cq, srq.shared_rq}
    BY <1>9, <2>1
  <2>4. Only(uses', b, {}) /\ Only(uses', a, {b})
    <3>1. b \notin {m_res.pd, a, srq.recv_cq, srq.shared_rq} /\ b # m_res.ib_ctx /\ a # m_res.ib_ctx
      BY <1>6, <1>7, <1>10, <2>3
    <3>2. \A o \in ObjectsOf(L) : b \in partsOf(L, o) => o \in {}
      BY <1>9, <3>1
    <3>3. \A o \in ObjectsOf(L) : a \in partsOf(L, o) => o \in {b}
      BY <1>9, <3>1
    <3>4. a \in ObjectsOf(L) /\ b \in ObjectsOf(L)
      BY <1>9
    <3> QED
      BY <2>1, <3>2, <3>3, <3>4, FreshOnly
  <2>5. PairOK(uses', SrqQueues, q)
    <3>1. PointersOf(q) = {a, b, srq.recv_cq}
      BY <1>12 DEF PointersOf
    <3>2. {a, b, srq.recv_cq} \subseteq DOMAIN uses'
      BY <1>6, <2>3
    <3>3. \A x \in uses'[b] : x.type = "cq" => x \in {a, srq.recv_cq}
      BY <1>6, <1>7, <2>3
    <3>4. a # srq.recv_cq /\ a \notin SrqQueues
      BY <1>6, <2>2, <2>3
    <3> QED
      BY <1>6, <1>10, <1>12, <2>3, <2>4, <3>1, <3>2, <3>3, <3>4 DEF PairOK
  <2>6. (\A k \in Used : m_qps[k].qp # q.qp) /\ (qp # NoQp => qp.qp # q.qp)
    BY <1>1, <1>3, <1>4, <1>12, <2>3, EntriesExist
  <2>7. ASSUME NEW t \in DOMAIN m_srqs, NEW o \in Alive' \ Alive,
               m_srqs[t].shared_rq \in uses'[o] \/ m_srqs[t].recv_cq \in uses'[o]
        PROVE  o = q.qp
    <3>1. m_srqs[t].shared_rq.type = "srq" /\ m_srqs[t].recv_cq.type = "cq"
      BY <1>1, <1>3, <1>4 DEF SrqsOK
    <3>2. o # a
      BY <1>7, <2>3, <2>7, <3>1
    <3> QED
      BY <1>12, <2>3, <3>2
  <2>8. UsersGoFirst'
    BY <2>1 DEF QueuePairsInvariant, QueuePairsInv
  <2>9. UNCHANGED <<transport, phase, todo, faults, m_res, m_connected, m_srqs, m_udqp,
                    m_lastMCastConnKey, m_udpMcastConns, rts>> /\ qp' = qp
    BY <1>2, <2>1
  <2>10. \A o \in Alive' \ Alive : o \in PointersOf(q)
    BY <1>12, <2>3 DEF PointersOf
  <2>11. transport # "ud" /\ setQP(id, q)
    BY <1>4, <1>13
  <2> QED
    BY <1>2, <1>3, <1>8, <1>12, <2>1, <2>5, <2>6, <2>7, <2>8, <2>9, <2>10, <2>11, EntryKept
<1>14. ASSUME Fails(L, 3, "queue pair of an srq"), m_qps' = m_qps
       PROVE  Kept
  <2>1. "queue pair of an srq" \in Faults /\ 3 \in 1 .. Len(L)
    BY <1>9 DEF Faults
  <2> QED
    BY <1>2, <1>8, <1>9, <1>11, <1>14, <2>1, FailureKept
<1>15. ASSUME NEW k \in {1, 2}, Fails(L, k, "queues"), m_qps' = m_qps
       PROVE  Kept
  <2>1. "queues" \in Faults /\ k \in 1 .. Len(L)
    BY <1>9 DEF Faults
  <2>2. /\ Grown(uses, uses', made, X) /\ Numbered(uses', made') /\ made' \in Nat
        /\ Alive' \subseteq Objects /\ \A o \in Alive' : uses'[o] \subseteq Objects
        /\ faults' \in Seq(Faults) /\ faults' # << >>
        /\ Range(faults') = Range(faults) \cup {"queues"}
    BY <1>1, <1>8, <1>9, <1>15, <2>1, FailsGrows
  <2>3. /\ \A j \in 1 .. 2 : DOMAIN L[j] \subseteq {IF j = 1 THEN a ELSE b}
        /\ \A j \in 1 .. 1 : DOMAIN L[j] \subseteq {a}
    <3>1. L[1] = One(a, {m_res.ib_ctx}) /\ L[2] = One(b, {m_res.pd, a, srq.recv_cq, srq.shared_rq})
      BY DEF L, createForSrq, a, b
    <3>2. DOMAIN L[1] = {a} /\ DOMAIN L[2] = {b}
      BY <3>1, OneOrNone
    <3>3. \A j \in 1 .. 2 : j = 1 \/ j = 2
      OBVIOUS
    <3> QED
      BY <3>2, <3>3
  <2>4. PICK objects : Exist(L, objects) /\ objects \subseteq {a}
    <3>1. PICK part : /\ part \in {{}} \cup ((SUBSET DOMAIN L[k]) \ {DOMAIN L[k]})
                      /\ Exist(L, objectsOfFirst(L, k - 1) \cup part)
      BY <1>15 DEF Fails
    <3>2. part = {}
      <4>1. PICK x : DOMAIN L[k] \subseteq {x}
        BY <2>3
      <4>2. PICK D : D = DOMAIN L[k]
        OBVIOUS
      <4>3. part \in {{}} \cup ((SUBSET D) \ {D}) /\ D \subseteq {x}
        BY <3>1, <4>1, <4>2
      <4>4. ASSUME NEW e \in part PROVE FALSE
        <5>1. part \in SUBSET D /\ part # D
          <6>1. part \notin {{}}
            BY <4>4
          <6>2. part \in (SUBSET D) \ {D}
            BY <4>3, <6>1
          <6> QED
            BY <6>2
        <5>2. e = x /\ e \in D
          BY <4>3, <4>4, <5>1
        <5>3. \A f \in D : f \in part
          BY <4>3, <4>4, <5>2
        <5> QED
          BY <5>1, <5>3
      <4> QED
        BY <4>4
    <3>3. objectsOfFirst(L, k - 1) \subseteq {a}
      <4>1. \A j \in 1 .. k - 1 : j \in 1 .. 1
        OBVIOUS
      <4> QED
        BY <2>3, <4>1 DEF objectsOfFirst
    <3> QED
      BY <3>1, <3>2, <3>3
  <2>5. /\ Alive' = Alive \cup objects
        /\ \A o \in objects : uses'[o] = {m_res.ib_ctx}
    <3>1. objects \subseteq ObjectsOf(L)
      BY <1>9, <2>4
    <3>2. /\ Alive' = Alive \cup objects
          /\ \A o \in objects : o \notin Alive /\ o \in Alive' /\ uses'[o] = partsOf(L, o)
      BY <1>1, <1>8, <1>9, <2>4, <3>1, ExistGrows
    <3> QED
      BY <1>9, <2>4, <3>2
  <2>6. Grown(uses, uses', made, {m_res.ib_ctx, m_res.pd})
    BY <2>2, <2>5 DEF Grown
  <2>7. Range(faults) \subseteq Range(faults')
    BY <2>2
  <2>8. UsersGoFirst' /\ ConnectedOK' /\ ConnectedCanSend'
    BY <1>1, <1>2, <1>15, <2>2, <2>7
       DEF UsersGoFirst, ConnectedOK, Used, ConnectedCanSend, QueuePairsInvariant, QueuePairsInv
  <2>9. m_connected' \subseteq 0 .. Len(m_qps) - 1 /\ rts' \subseteq Objects /\ qp' \in Pairs /\ qp' = qp
    BY <1>1, <1>2 DEF QueuePairsTypeOK
  <2>10. UNCHANGED <<transport, phase, todo, m_res, m_qps, m_srqs, m_udqp, m_udpMcastConns>>
    BY <1>2, <1>15
  <2> QED
    BY <1>2, <1>8, <1>11, <2>2, <2>6, <2>7, <2>8, <2>9, <2>10, MoreKept
<1>16. m_srqs[s] = srq /\ q = [qp |-> fresh("qp", 2), send_cq |-> fresh("cq", 1), recv_cq |-> m_srqs[s].recv_cq]
       /\ L = createForSrq(m_srqs[s])
  BY <1>5 DEF q, L, a, b
<1>17. \A k \in 1 .. 3 : k = 3 \/ k \in {1, 2}
  OBVIOUS
<1> QED
  BY <1>13, <1>14, <1>15, <1>16, <1>17 DEF InitQPForSRQ

\* A shared receive queue is made.
LEMMA CreateSharedReceiveQueueKept ==
    ASSUME QueuePairsInvariant, CreateSharedReceiveQueue
    PROVE  Kept
<1> USE DEF Alive
<1>1. /\ QueuePairsTypeOK /\ Numbered(uses, made) /\ BaseOK /\ ReliableOK /\ ConnectedOK /\ SrqsOK /\ UnreliableOK
      /\ Accounted
  BY Parts
<1>2. /\ transport = "rc" /\ Ready /\ calls' \in 0 .. MaxCalls /\ qp = NoQp
      /\ UNCHANGED <<transport, phase, todo, m_res, m_qps, m_connected, m_udqp,
                     m_lastMCastConnKey, m_udpMcastConns, rts, qp>>
  BY <1>1, Counted DEF CreateSharedReceiveQueue
<1>3. phase = "running" /\ phase' = "running" /\ todo = << >> /\ todo' = << >>
  BY <1>2 DEF Ready
<1>4. /\ {m_res.ib_ctx, m_res.pd} \subseteq Alive /\ Spare({m_res.ib_ctx, m_res.pd}, FALSE)
      /\ m_res.ib_ctx.type = "ib_ctx" /\ m_res.pd.type = "pd"
  BY <1>3, BaseReady
<1> DEFINE X == {m_res.ib_ctx, m_res.pd}
           a == fresh("srq", 1)
           b == fresh("cq", 2)
           L == createSrq
<1>5. /\ Len(L) = 2 /\ DOMAIN L = 1 .. 2 /\ StepsOK(L, X) /\ ObjectsOf(L) = {a, b}
      /\ partsOf(L, a) = {m_res.pd} /\ partsOf(L, b) = {m_res.ib_ctx}
  BY <1>1, <1>4, CreateSrq
<1>6. a \in Objects /\ b \in Objects /\ a.type = "srq" /\ b.type = "cq"
  <2>1. "cq" \in Types /\ "srq" \in Types
    BY DEF Types
  <2> QED
    BY <1>1, <2>1, FreshObjects
<1>7. m_lastMCastConnKey' \in Nat
  BY <1>1, <1>2 DEF QueuePairsTypeOK
<1> HIDE DEF X, L, a, b
<1>8. CASE Made(L) /\ m_srqs' = Append(m_srqs, [shared_rq |-> a, recv_cq |-> b])
  <2> DEFINE n == Len(m_srqs)
  <2>1. /\ Grown(uses, uses', made, X) /\ Numbered(uses', made') /\ made' \in Nat
        /\ Alive' \subseteq Objects /\ \A o \in Alive' : uses'[o] \subseteq Objects
        /\ Alive' = Alive \cup ObjectsOf(L) /\ faults' = faults
        /\ \A o \in ObjectsOf(L) : o \notin Alive /\ o \in Objects /\ uses'[o] = partsOf(L, o)
        /\ \A o \in ObjectsOf(L) : \A user \in Alive : o \notin uses'[user]
        /\ UsersGoFirst => UsersGoFirst'
    BY <1>1, <1>4, <1>5, <1>8, MadeGrows DEF X
  <2>2. a \notin Alive /\ b \notin Alive /\ Alive' = Alive \cup {a, b}
    BY <1>5, <2>1
  <2>3. /\ m_srqs' \in Seq([shared_rq : Objects, recv_cq : Objects])
        /\ n \in Nat /\ DOMAIN m_srqs = 1 .. n /\ DOMAIN m_srqs' = 1 .. n + 1
        /\ \A s \in 1 .. n : m_srqs'[s] = m_srqs[s]
        /\ m_srqs'[n + 1].shared_rq = a /\ m_srqs'[n + 1].recv_cq = b
    <3>1. m_srqs \in Seq([shared_rq : Objects, recv_cq : Objects])
      BY <1>1 DEF QueuePairsTypeOK
    <3>2. [shared_rq |-> a, recv_cq |-> b] \in [shared_rq : Objects, recv_cq : Objects]
      BY <1>6
    <3>3. /\ m_srqs' \in Seq([shared_rq : Objects, recv_cq : Objects]) /\ n \in Nat /\ DOMAIN m_srqs = 1 .. n
          /\ Len(m_srqs') = n + 1 /\ \A s \in 1 .. n : m_srqs'[s] = m_srqs[s]
          /\ m_srqs'[n + 1] = [shared_rq |-> a, recv_cq |-> b]
      BY <1>8, <3>1, <3>2, LenProperties, AppendProperties
    <3> QED
      BY <3>3, LenProperties
  <2>4. \A s \in 1 .. n + 1 : s \in 1 .. n \/ s = n + 1
    BY <2>3
  <2>5. n + 1 \in 1 .. n + 1 /\ (\A s \in 1 .. n : s \in 1 .. n + 1) /\ n + 1 \notin 1 .. n
    BY <2>3
  <2> HIDE DEF n
  <2>6. SrqQueues' = SrqQueues \cup {b}
    BY <2>3, <2>4, <2>5 DEF SrqQueues
  <2>7. /\ Base' = Base /\ EntryQps' = EntryQps /\ Used' = Used /\ ActiveKeys' = ActiveKeys
        /\ (NothingLost' <=> NothingLost)
    BY <1>2, <2>1 DEF Base, EntryQps, Used, ActiveKeys, NothingLost
  <2>8. QueuePairsTypeOK'
    <3>1. faults' \in Seq(Faults)
      BY <1>1, <2>1 DEF QueuePairsTypeOK
    <3> QED
      BY <1>1, <1>2, <2>1, <2>3, <3>1 DEF QueuePairsTypeOK
  <2>9. BaseOK'
    <3>1. \A x \in X : x.type # "mr"
      BY <1>4 DEF X
    <3> QED
      BY <1>1, <1>2, <2>1, <3>1, BaseGrown
  <2>10. ReliableOK'
    <3>1. SrqQueues \subseteq SrqQueues' /\ SrqQueues' \cap Alive \subseteq SrqQueues
      BY <2>2, <2>6
    <3>2. \A k \in Used : PairOK(uses', SrqQueues', m_qps[k])
      <4>1. Spare(X, FALSE)
        BY <1>4 DEF X
      <4>2. PICK Q : Q = SrqQueues'
        OBVIOUS
      <4>3. \A k \in Used : PairOK(uses', Q, m_qps[k])
        BY <1>1, <1>2, <1>3, <2>1, <3>1, <4>1, <4>2, ReliableGrown
      <4> QED
        BY <4>2, <4>3
    <3>3. /\ m_udpMcastConns = << >> /\ m_udqp = NoQp
          /\ \A j, k \in Used : j # k => m_qps[j].qp # m_qps[k].qp
      BY <1>1, <1>2, <1>3 DEF ReliableOK
    <3> QED
      BY <1>2, <2>7, <3>2, <3>3 DEF ReliableOK
  <2>11. SrqsOK'
    <3>1. Spare(X, FALSE)
      BY <1>4 DEF X
    <3>2. ASSUME NEW s \in 1 .. n
          PROVE  /\ m_srqs'[s].shared_rq \in Alive' /\ m_srqs'[s].shared_rq.type = "srq"
                 /\ m_srqs'[s].recv_cq \in Alive' /\ m_srqs'[s].recv_cq.type = "cq"
                 /\ NothingLost => /\ Only(uses', m_srqs'[s].shared_rq, EntryQps)
                                   /\ Only(uses', m_srqs'[s].recv_cq, EntryQps)
                 /\ m_srqs'[s].shared_rq \in Alive
      <4>1. s \in DOMAIN m_srqs /\ m_srqs'[s] = m_srqs[s]
        BY <2>3
      <4>2. /\ m_srqs[s].shared_rq \in Alive' /\ m_srqs[s].shared_rq.type = "srq"
            /\ m_srqs[s].recv_cq \in Alive' /\ m_srqs[s].recv_cq.type = "cq"
            /\ NothingLost /\ ~FALSE => /\ Only(uses', m_srqs[s].shared_rq, EntryQps)
                                        /\ Only(uses', m_srqs[s].recv_cq, EntryQps)
        BY <1>1, <1>2, <1>3, <2>1, <3>1, <4>1, SrqsGrown
      <4>3. m_srqs[s].shared_rq \in Alive
        BY <1>1, <1>2, <1>3, <4>1 DEF SrqsOK
      <4> QED
        BY <4>1, <4>2, <4>3
    <3>3. Only(uses', a, EntryQps) /\ Only(uses', b, EntryQps)
      <4>1. \A o \in ObjectsOf(L) : a \in partsOf(L, o) => o \in EntryQps
        BY <1>4, <1>5, <1>6
      <4>2. \A o \in ObjectsOf(L) : b \in partsOf(L, o) => o \in EntryQps
        BY <1>4, <1>5, <1>6
      <4>3. a \in ObjectsOf(L) /\ b \in ObjectsOf(L)
        BY <1>5
      <4> QED
        BY <2>1, <4>1, <4>2, <4>3, FreshOnly
    <3>4. \A s, t \in 1 .. n : s # t => m_srqs'[s].shared_rq # m_srqs'[t].shared_rq
      <4>1. \A s, t \in DOMAIN m_srqs : s # t => m_srqs[s].shared_rq # m_srqs[t].shared_rq
        BY <1>1, <1>2, <1>3 DEF SrqsOK
      <4> QED
        BY <2>3, <4>1
    <3>5. ASSUME NEW s \in 1 .. n + 1
          PROVE  /\ m_srqs'[s].shared_rq \in Alive' /\ m_srqs'[s].shared_rq.type = "srq"
                 /\ m_srqs'[s].recv_cq \in Alive' /\ m_srqs'[s].recv_cq.type = "cq"
                 /\ NothingLost => /\ Only(uses', m_srqs'[s].shared_rq, EntryQps)
                                   /\ Only(uses', m_srqs'[s].recv_cq, EntryQps)
      BY <1>6, <2>2, <2>3, <2>4, <3>2, <3>3
    <3>6. \A s, t \in 1 .. n + 1 : s # t => m_srqs'[s].shared_rq # m_srqs'[t].shared_rq
      BY <2>2, <2>3, <2>4, <3>2, <3>4
    <3> QED
      BY <2>3, <2>7, <3>5, <3>6 DEF SrqsOK
  <2>12. UnreliableOK' /\ ConnectedOK' /\ ConnectedCanSend' /\ UsersGoFirst'
    BY <1>1, <1>2, <2>1, <2>7
       DEF UnreliableOK, ConnectedOK, ConnectedCanSend, QueuePairsInvariant, QueuePairsInv
  <2>13. Accounted'
    <3>1. ASSUME NEW o \in Alive, Named(o) PROVE Named(o)'
      <4>1. (\E s \in DOMAIN m_srqs : o = m_srqs[s].shared_rq) => Named(o)'
        BY <2>3, <2>5 DEF Named
      <4>2. o \in PointersOf(qp) \cup PointersOf(m_udqp) \cup SrqQueues => Named(o)'
        BY <1>2, <2>6 DEF Named
      <4>3. (\E k \in DOMAIN m_qps : o \in PointersOf(m_qps[k])) => Named(o)'
        BY <1>2 DEF Named
      <4>4. (\E k \in ActiveKeys : o \in ObjectsOfGroup(m_udpMcastConns[k])) => Named(o)'
        BY <1>2, <2>7 DEF Named
      <4> QED
        BY <3>1, <4>1, <4>2, <4>3, <4>4 DEF Named
    <3>2. ASSUME NEW o \in Alive' \ Alive PROVE Named(o)'
      <4>1. o = a \/ o = b
        BY <2>2
      <4>2. CASE o = a
        <5>1. n + 1 \in DOMAIN m_srqs' /\ o = m_srqs'[n + 1].shared_rq
          BY <2>3, <2>5, <4>2
        <5> QED
          BY <5>1 DEF Named
      <4>3. CASE o = b
        <5>1. o \in SrqQueues'
          BY <2>6, <4>3
        <5> QED
          BY <5>1 DEF Named
      <4> QED
        BY <4>1, <4>2, <4>3
    <3> QED
      BY <1>1, <1>2, <1>3, <2>1, <3>1, <3>2, AccountedGrown
  <2> QED
    BY <1>3, <2>1, <2>8, <2>9, <2>10, <2>11, <2>12, <2>13, RunningKept
<1>9. ASSUME NEW k \in DOMAIN L, Fails(L, k, "srq"), m_srqs' = m_srqs
      PROVE  Kept
  <2>1. "srq" \in Faults /\ k \in 1 .. Len(L)
    BY <1>5 DEF Faults
  <2> QED
    BY <1>2, <1>4, <1>5, <1>7, <1>9, <2>1, FailureKept DEF X
<1> QED
  BY <1>8, <1>9 DEF CreateSharedReceiveQueue, L, a, b

\* A connection of a client is accepted.
LEMMA AcceptedKept ==
    ASSUME QueuePairsInvariant, NEW id \in ConnIDs, Accepted(id)
    PROVE  Kept
<1> USE DEF Alive
<1>1. /\ QueuePairsTypeOK /\ Numbered(uses, made) /\ BaseOK /\ ReliableOK /\ ConnectedOK /\ SrqsOK /\ UnreliableOK
  BY Parts
<1>2. /\ Ready /\ qp # NoQp /\ setQP(id, qp) /\ qp' = NoQp
      /\ UNCHANGED <<transport, phase, calls, uses, made, todo, m_res, m_connected,
                     m_srqs, m_udqp, m_lastMCastConnKey, m_udpMcastConns, rts>>
  BY DEF Accepted
<1>3. phase = "running" /\ phase' = "running" /\ todo = << >> /\ todo' = << >>
  BY <1>2 DEF Ready
<1>4. /\ Grown(uses, uses', made, {}) /\ Numbered(uses', made') /\ Alive' \subseteq Objects
      /\ \A o \in Alive' : uses'[o] \subseteq Objects
      /\ made' \in Nat /\ Alive' = Alive
  BY <1>2, NothingGrown
<1>5. id \in Nat /\ calls' \in 0 .. MaxCalls /\ qp \in Pairs
  BY <1>1, <1>2, QueuePairsAssumption DEF QueuePairsTypeOK
<1>6. Spare({}, TRUE)
  BY <1>3, BaseReady
<1>7. transport = "rc" => /\ PairOK(uses', SrqQueues, qp) /\ (\A k \in Used : m_qps[k].qp # qp.qp)
  BY <1>1, <1>2, <1>3 DEF ReliableOK
<1>8. transport = "ud" => qp = m_udqp
  BY <1>1, <1>2, <1>3 DEF UnreliableOK
<1>9. CASE Unused(id) /\ UNCHANGED faults
  <2>1. UsersGoFirst'
    BY <1>2, <1>9 DEF QueuePairsInvariant, QueuePairsInv, UsersGoFirst
  <2>2. UNCHANGED <<transport, phase, todo, faults, m_res, m_connected, m_srqs, m_udqp,
                    m_lastMCastConnKey, m_udpMcastConns, rts>>
    BY <1>2, <1>9
  <2>3. \A s \in DOMAIN m_srqs : \A o \in Alive' \ Alive :
            m_srqs[s].shared_rq \in uses'[o] \/ m_srqs[s].recv_cq \in uses'[o] => o = qp.qp
    BY <1>4
  <2>4. \A o \in Alive' \ Alive : o \in PointersOf(qp)
    BY <1>4
  <2>5. transport = "rc" =>
          /\ PairOK(uses', SrqQueues, qp) /\ (\A k \in Used : m_qps[k].qp # qp.qp)
          /\ qp' # NoQp => qp.qp # qp.qp
          /\ \A s \in DOMAIN m_srqs : \A o \in Alive' \ Alive :
                m_srqs[s].shared_rq \in uses'[o] \/ m_srqs[s].recv_cq \in uses'[o] => o = qp.qp
    BY <1>2, <1>7, <2>3
  <2>6. qp' = qp \/ (qp' = NoQp /\ qp = qp)
    BY <1>2
  <2> QED
    BY <1>2, <1>4, <1>5, <1>6, <1>8, <1>9, <2>1, <2>2, <2>4, <2>5, <2>6, EntryKept
<1>10. CASE id \in m_connected /\ faults' = Append(faults, "self")
  <2>1. id + 1 \in Used
    BY <1>1, <1>10 DEF ConnectedOK
  <2>2. m_qps \in Seq(Pairs) /\ NoQp \in Pairs /\ m_qps' = Entered(m_qps, id, NoQp, qp)
    <3>1. NoQp \in Pairs
      BY DEF NoQp, Pairs, Pointers
    <3> QED
      BY <1>1, <1>2, <3>1 DEF QueuePairsTypeOK, setQP, Entered
  <2>3. m_qps' \in Seq(Pairs) /\ OneEntered(m_qps, m_qps', id, NoQp, qp)
    BY <1>5, <2>2, EntrySet
  <2>4. /\ DOMAIN m_qps' = DOMAIN m_qps /\ Len(m_qps') = Len(m_qps) /\ m_qps'[id + 1] = qp
        /\ \A k \in DOMAIN m_qps : k # id + 1 => m_qps'[k] = m_qps[k]
    <3>1. id + 1 \in DOMAIN m_qps
      BY <2>1 DEF Used
    <3>2. /\ Len(m_qps) \in Nat /\ Len(m_qps') = (IF Len(m_qps) < id + 1 THEN id + 1 ELSE Len(m_qps))
          /\ DOMAIN m_qps = 1 .. Len(m_qps) /\ DOMAIN m_qps' = 1 .. Len(m_qps')
          /\ m_qps'[id + 1] = qp /\ \A k \in DOMAIN m_qps : k # id + 1 => m_qps'[k] = m_qps[k]
      BY <2>3 DEF OneEntered
    <3>3. Len(m_qps') = Len(m_qps)
      BY <1>5, <3>1, <3>2
    <3> QED
      BY <3>2, <3>3
  <2>5. Used' = Used
    <3>1. \A k \in DOMAIN m_qps : m_qps'[k] # NoQp <=> m_qps[k] # NoQp
      BY <1>2, <2>1, <2>4 DEF Used
    <3> QED
      BY <2>4, <3>1 DEF Used
  <2>6. /\ faults' \in Seq(Faults) /\ faults' # << >> /\ Range(faults') = Range(faults) \cup {"self"}
    <3>1. "self" \in Faults
      BY DEF Faults
    <3> QED
      BY <1>1, <1>10, <3>1, MoreFaults
  <2>7. ~NothingLost' /\ ConnectedCanSend' /\ UsersGoFirst'
    BY <2>6 DEF NothingLost, ConnectedCanSend, UsersGoFirst
  <2>8. QueuePairsTypeOK'
    <3>1. NoQp \in Pairs
      BY <2>2
    <3> QED
      BY <1>1, <1>2, <2>3, <2>4, <2>6, <3>1 DEF QueuePairsTypeOK
  <2>9. /\ Base' = Base /\ SrqQueues' = SrqQueues /\ ActiveKeys' = ActiveKeys
    BY <1>2 DEF Base, SrqQueues, ActiveKeys
  <2>10. BaseOK'
    BY <1>1, <1>2, <2>9 DEF BaseOK
  <2>11. ReliableOK'
    <3>1. ASSUME transport = "rc"
          PROVE  /\ m_udpMcastConns = << >> /\ m_udqp = NoQp
                 /\ \A k \in Used : PairOK(uses, SrqQueues, m_qps[k])
                 /\ \A j, k \in Used : j # k => m_qps[j].qp # m_qps[k].qp
      BY <1>1, <1>3, <3>1 DEF ReliableOK
    <3>2. ASSUME transport = "rc", NEW k \in Used PROVE PairOK(uses, SrqQueues, m_qps'[k])
      <4>1. k \in DOMAIN m_qps
        BY DEF Used
      <4> QED
        BY <1>2, <1>7, <2>4, <3>1, <3>2, <4>1
    <3>3. ASSUME transport = "rc", NEW j \in Used, NEW k \in Used, j # k PROVE m_qps'[j].qp # m_qps'[k].qp
      <4>1. j \in DOMAIN m_qps /\ k \in DOMAIN m_qps
        BY DEF Used
      <4> QED
        BY <1>7, <2>4, <3>1, <3>3, <4>1
    <3> QED
      BY <1>2, <2>5, <2>9, <3>1, <3>2, <3>3 DEF ReliableOK
  <2>12. SrqsOK'
    BY <1>1, <1>2, <1>3, <2>7 DEF SrqsOK
  <2>13. UnreliableOK'
    <3>1. ASSUME transport = "ud"
          PROVE  \A k \in DOMAIN m_qps' : m_qps'[k] \in {NoQp, m_udqp}
      BY <1>1, <1>3, <1>8, <2>4, <3>1 DEF UnreliableOK
    <3> QED
      BY <1>1, <1>2, <1>3, <2>9, <3>1 DEF UnreliableOK
  <2>14. ConnectedOK' /\ Accounted'
    BY <1>1, <1>2, <2>5, <2>6 DEF ConnectedOK, Accounted
  <2> QED
    BY <1>3, <1>4, <2>7, <2>8, <2>10, <2>11, <2>12, <2>13, <2>14, RunningKept
<1> QED
  BY <1>9, <1>10 DEF Accepted

\* A connection of a client over ReliableRDMA is refused.
LEMMA RefusedReliableKept ==
    ASSUME QueuePairsInvariant, Refused, transport = "rc"
    PROVE  Kept
<1> USE DEF Alive
<1>1. /\ QueuePairsTypeOK /\ Numbered(uses, made) /\ BaseOK /\ ReliableOK /\ ConnectedOK /\ SrqsOK /\ UnreliableOK
      /\ Accounted /\ Early /\ Ended
  BY Parts
<1>2. /\ Ready /\ qp # NoQp /\ qp' = NoQp /\ todo' = destroyQP(qp)
      /\ UNCHANGED <<transport, phase, calls, faults, uses, made, m_res, m_qps, m_connected, m_srqs,
                     m_udqp, m_lastMCastConnKey, m_udpMcastConns, rts>>
  BY DEF Refused, recorded
<1>3. phase = "running" /\ phase' = "running" /\ todo = << >>
  BY <1>2 DEF Ready
<1>4. /\ PairOK(uses, SrqQueues, qp) /\ qp.recv_cq \notin SrqQueues
      /\ \A k \in Used : PairOK(uses, SrqQueues, m_qps[k]) /\ m_qps[k].qp # qp.qp
      /\ m_udpMcastConns = << >> /\ m_udqp = NoQp
  BY <1>1, <1>2, <1>3 DEF ReliableOK
<1>5. qp \in Pairs /\ NoQp \in Pairs /\ Alive \subseteq Objects
  <2>1. NoQp \in Pairs
    BY DEF NoQp, Pairs, Pointers
  <2> QED
    BY <1>1, <2>1 DEF QueuePairsTypeOK
<1>6. /\ PointersOf(qp) \subseteq Alive /\ qp.qp.type = "qp" /\ qp.send_cq.type = "cq" /\ qp.recv_cq.type = "cq"
      /\ qp.send_cq \notin SrqQueues /\ nullptr \notin Alive /\ qp.qp # nullptr
  <2>1. PointersOf(qp) \subseteq Alive /\ qp.qp.type = "qp" /\ qp.send_cq.type = "cq" /\ qp.recv_cq.type = "cq"
        /\ qp.send_cq \notin SrqQueues
    BY <1>4 DEF PairOK
  <2>2. nullptr \notin Alive
    BY <1>5, NullIsNone
  <2>3. qp.qp \in PointersOf(qp)
    BY DEF PointersOf
  <2> QED
    BY <2>1, <2>2, <2>3
<1> DEFINE cs == destroyQP(qp)
<1>7. /\ cs \in Seq(Calls) /\ Len(cs) = 3 /\ DOMAIN cs = 1 .. 3
      /\ cs[1] = Call(qp.qp, "throw") /\ cs[2] = Call(qp.send_cq, "throw")
      /\ cs[3] = Call(qp.recv_cq, "log")
  BY <1>5, CallsOfPair
<1>8. \A p \in 1 .. 3 : cs[p] \in Firm(m_res) <=> cs[p].busy # "log"
  <2>1. \A p \in 1 .. 3 : p = 1 \/ p = 2 \/ p = 3
    OBVIOUS
  <2>2. \A p \in 1 .. 3 : cs[p] \in Calls /\ cs[p].busy \in {"throw", "log"}
    <3> HIDE DEF cs
    <3>1. \A p \in 1 .. 3 : cs[p] \in Calls
      BY <1>7, ElementOfSeq
    <3>2. cs[1].busy = "throw" /\ cs[2].busy = "throw" /\ cs[3].busy = "log"
      BY <1>7 DEF Call
    <3> QED
      BY <2>1, <3>1, <3>2
  <2>3. Call(m_res.pd, "ignore").busy = "ignore" /\ Call(m_res.ib_ctx, "force").busy = "force"
    BY DEF Call
  <2> HIDE DEF cs
  <2> QED
    BY <2>2, <2>3 DEF Firm
<1>9. /\ UsedBetween(cs, uses) /\ UsersFirst(cs, uses, Firm(m_res))
      /\ TriedAgain(cs, uses, Firm(m_res))
  BY <1>4, <1>5, <1>6, <1>8, PairCallsOK
<1>10. \A p \in DOMAIN cs : cs[p].object \in PointersOf(qp)
  <2>1. \A p \in 1 .. 3 : p = 1 \/ p = 2 \/ p = 3
    OBVIOUS
  <2> QED
    BY <1>7, <2>1 DEF Call, PointersOf
<1>11. \A o \in PointersOf(qp) : \E p \in DOMAIN cs : cs[p].object = o
  <2>1. 1 \in DOMAIN cs /\ 2 \in DOMAIN cs /\ 3 \in DOMAIN cs
    BY <1>7
  <2>2. cs[1].object = qp.qp /\ cs[2].object = qp.send_cq /\ cs[3].object = qp.recv_cq
    BY <1>7 DEF Call
  <2> QED
    BY <2>1, <2>2 DEF PointersOf
<1> HIDE DEF cs
<1>12. todo' = cs
  BY <1>2 DEF cs
<1>13. BaseOK' /\ ReliableOK' /\ SrqsOK' /\ UnreliableOK'
  <2>1. Spare({}, FALSE)
    BY <1>3, BaseReady
  <2>2. Grown(uses, uses', made, {})
    BY <1>2, NothingGrown
  <2> QED
    BY <1>1, <1>2, <1>3, <2>1, <2>2, MembersGrown
<1>14. QueuePairsTypeOK'
  BY <1>1, <1>2, <1>5, <1>7, <1>12 DEF QueuePairsTypeOK
<1>15. ASSUME NEW o \in PointersOf(qp)
       PROVE  o \in Alive /\ o \notin Base' /\ ~Named(o)'
  <2>1. o \in Alive /\ o.type \in {"qp", "cq"} /\ o # nullptr /\ o \notin SrqQueues
    <3>1. qp.qp \notin SrqQueues
      BY <1>1, <1>3, <1>6, SrqQueuesTyped
    <3>2. o = qp.qp \/ o = qp.send_cq \/ o = qp.recv_cq
      BY DEF PointersOf
    <3> QED
      BY <1>4, <1>6, <3>1, <3>2
  <2>2. o \notin Base'
    <3>1. o \notin Base
      BY <1>1, <1>3, <2>1, BaseTypes
    <3> QED
      BY <1>2, <3>1 DEF Base
  <2>3. \A k \in DOMAIN m_qps : o \notin PointersOf(m_qps[k])
    <3>1. PointersOf(NoQp) = {nullptr}
      BY DEF PointersOf, NoQp
    <3>2. \A k \in Used : PointersOf(m_qps[k]) \cap PointersOf(qp) \subseteq SrqQueues
      BY <1>4, PairsApart
    <3> QED
      BY <2>1, <3>1, <3>2 DEF Used
  <2>4. \A s \in DOMAIN m_srqs : o # m_srqs[s].shared_rq
    <3>1. \A s \in DOMAIN m_srqs : m_srqs[s].shared_rq.type = "srq"
      BY <1>1, <1>3 DEF SrqsOK
    <3> QED
      BY <2>1, <3>1
  <2>5. o \notin PointersOf(NoQp)
    BY <2>1 DEF PointersOf, NoQp
  <2>6. ActiveKeys' = {} /\ SrqQueues' = SrqQueues
    BY <1>2, <1>4 DEF ActiveKeys, SrqQueues
  <2> QED
    BY <1>2, <1>4, <2>1, <2>2, <2>3, <2>4, <2>5, <2>6 DEF Named
<1>16. TodoOK'
  <2>1. ASSUME NEW p \in DOMAIN cs PROVE cs[p].object \in Alive
    BY <1>10, <1>15
  <2>2. ASSUME NEW x \in InTodo' PROVE x \notin Base' /\ ~Named(x)'
    <3>1. PICK p \in DOMAIN cs : x = cs[p].object
      BY <1>12 DEF InTodo
    <3> QED
      BY <1>10, <1>15, <3>1
  <2>3. phase' # "destroying"
    BY <1>3
  <2> QED
    BY <1>2, <1>9, <1>12, <2>1, <2>2, <2>3 DEF TodoOK
<1>17. Accounted'
  <2>1. ASSUME NEW o \in Alive, Named(o) PROVE Named(o)' \/ o \in InTodo'
    <3>1. CASE o \in PointersOf(qp)
      BY <1>11, <1>12, <3>1 DEF InTodo
    <3>2. CASE o \notin PointersOf(qp)
      <4>1. ActiveKeys' = ActiveKeys /\ SrqQueues' = SrqQueues
        BY <1>2 DEF ActiveKeys, SrqQueues
      <4> QED
        BY <1>2, <2>1, <3>2, <4>1 DEF Named
    <3> QED
      BY <3>1, <3>2
  <2> QED
    BY <1>1, <1>2, <1>3, <2>1, AccountedGrown
<1>18. Numbered(uses', made') /\ Early' /\ Ended' /\ ConnectedOK'
  BY <1>1, <1>2, <1>3 DEF Early, Ended, ConnectedOK, Used
<1>19. UsersGoFirst' /\ EndsOrderly' /\ ConnectedCanSend'
  BY <1>2, <1>3 DEF QueuePairsInvariant, QueuePairsInv, UsersGoFirst, ConnectedCanSend, EndsOrderly
<1> QED
  BY <1>3, <1>13, <1>14, <1>16, <1>17, <1>18, <1>19 DEF Kept, Core

\* A connection of a client over UnreliableRDMA is refused.
LEMMA RefusedUnreliableKept ==
    ASSUME QueuePairsInvariant, Refused, transport = "ud"
    PROVE  Kept
<1> USE DEF Alive
<1>1. /\ QueuePairsTypeOK /\ Numbered(uses, made) /\ BaseOK /\ ReliableOK /\ ConnectedOK /\ SrqsOK /\ UnreliableOK
      /\ Accounted /\ Early /\ Ended
  BY Parts
<1>2. /\ Ready /\ qp # NoQp /\ qp' = NoQp /\ todo' = destroyQP(NoQp)
      /\ UNCHANGED <<transport, phase, calls, faults, uses, made, m_res, m_qps, m_connected, m_srqs,
                     m_udqp, m_lastMCastConnKey, m_udpMcastConns, rts>>
  BY DEF Refused, recorded
<1>3. phase = "running" /\ phase' = "running" /\ todo = << >>
  BY <1>2 DEF Ready
<1>4. qp = m_udqp
  BY <1>1, <1>2, <1>3 DEF UnreliableOK
<1>5. NoQp \in Pairs /\ nullptr \notin Alive /\ \A o \in Alive : nullptr \notin uses[o]
  <2>1. NoQp \in Pairs
    BY DEF NoQp, Pairs, Pointers
  <2>2. Alive \subseteq Objects /\ \A o \in Alive : uses[o] \subseteq Objects
    BY <1>1 DEF QueuePairsTypeOK
  <2> QED
    BY <2>1, <2>2, NullIsNone
<1> DEFINE cs == destroyQP(NoQp)
<1>6. /\ cs \in Seq(Calls) /\ \A p \in DOMAIN cs : cs[p].object = nullptr
  <2>1. /\ cs \in Seq(Calls) /\ DOMAIN cs = 1 .. 3
        /\ cs[1] = Call(NoQp.qp, "throw") /\ cs[2] = Call(NoQp.send_cq, "throw")
        /\ cs[3] = Call(NoQp.recv_cq, "log")
    BY <1>5, CallsOfPair
  <2>2. \A p \in 1 .. 3 : p = 1 \/ p = 2 \/ p = 3
    OBVIOUS
  <2>3. NoQp.qp = nullptr /\ NoQp.send_cq = nullptr /\ NoQp.recv_cq = nullptr
    BY DEF NoQp
  <2> HIDE DEF cs
  <2> QED
    BY <2>1, <2>2, <2>3 DEF Call
<1> HIDE DEF cs
<1>7. todo' = cs
  BY <1>2 DEF cs
<1>8. BaseOK' /\ ReliableOK' /\ SrqsOK' /\ UnreliableOK'
  <2>1. Spare({}, FALSE)
    BY <1>3, BaseReady
  <2>2. Grown(uses, uses', made, {})
    BY <1>2, NothingGrown
  <2> QED
    BY <1>1, <1>2, <1>3, <2>1, <2>2, MembersGrown
<1>9. QueuePairsTypeOK'
  BY <1>1, <1>2, <1>5, <1>6, <1>7 DEF QueuePairsTypeOK
<1>10. TodoOK'
  <2>1. UsedBetween(cs, uses) /\ UsersFirst(cs, uses, Firm(m_res)) /\ TriedAgain(cs, uses, Firm(m_res))
    BY <1>5, <1>6 DEF UsedBetween, UsersFirst, TriedAgain
  <2>2. \A x \in InTodo' : x = nullptr
    BY <1>6, <1>7 DEF InTodo
  <2>3. phase' # "destroying"
    BY <1>3
  <2> QED
    BY <1>2, <1>3, <1>6, <1>7, <2>1, <2>2, <2>3 DEF TodoOK
<1>11. Accounted'
  <2>1. ASSUME NEW o \in Alive, Named(o) PROVE Named(o)' \/ o \in InTodo'
    <3>1. ActiveKeys' = ActiveKeys /\ SrqQueues' = SrqQueues
      BY <1>2 DEF ActiveKeys, SrqQueues
    <3> QED
      BY <1>2, <1>4, <2>1, <3>1 DEF Named
  <2> QED
    BY <1>1, <1>2, <1>3, <2>1, AccountedGrown
<1>12. Numbered(uses', made') /\ Early' /\ Ended' /\ ConnectedOK'
  BY <1>1, <1>2, <1>3 DEF Early, Ended, ConnectedOK, Used
<1>13. UsersGoFirst' /\ EndsOrderly' /\ ConnectedCanSend'
  BY <1>2, <1>3 DEF QueuePairsInvariant, QueuePairsInv, UsersGoFirst, ConnectedCanSend, EndsOrderly
<1> QED
  BY <1>3, <1>8, <1>9, <1>10, <1>11, <1>12, <1>13 DEF Kept, Core

\* A connection of a client is refused.
LEMMA RefusedKept ==
    ASSUME QueuePairsInvariant, Refused
    PROVE  Kept
<1>1. transport = "rc" \/ transport = "ud"
  BY Parts, QueuePairsAssumption DEF QueuePairsTypeOK
<1> QED
  BY <1>1, RefusedReliableKept, RefusedUnreliableKept

\* A group is left.
LEMMA LeaveMCastGroupKept ==
    ASSUME QueuePairsInvariant, NEW k \in DOMAIN m_udpMcastConns, LeaveMCastGroup(k)
    PROVE  Kept
<1> USE DEF Alive
<1>1. /\ QueuePairsTypeOK /\ Numbered(uses, made) /\ BaseOK /\ ReliableOK /\ ConnectedOK /\ SrqsOK /\ UnreliableOK
      /\ Accounted /\ Early /\ Ended
  BY Parts
<1>2. /\ Ready /\ calls' \in 0 .. MaxCalls /\ qp = NoQp
      /\ UNCHANGED <<transport, phase, uses, made, m_res, m_qps, m_connected, m_srqs,
                     m_udqp, m_lastMCastConnKey, rts, qp>>
  BY <1>1, Counted DEF LeaveMCastGroup
<1>3. phase = "running" /\ phase' = "running" /\ todo = << >>
  BY <1>2 DEF Ready
<1>4. transport = "ud"
  <2>1. m_udpMcastConns # << >>
    OBVIOUS
  <2> QED
    BY <1>1, <2>1, QueuePairsAssumption DEF ReliableOK, QueuePairsTypeOK
<1>5. PICK group : group = m_udpMcastConns[k]
  OBVIOUS
<1>6. m_udpMcastConns \in Seq(Groups) /\ group \in Groups
  <2>1. m_udpMcastConns \in Seq(Groups)
    BY <1>1 DEF QueuePairsTypeOK
  <2> QED
    BY <1>5, <2>1, ElementOfSeq
<1>7. /\ inactive(group) \in Groups /\ inactive(group).active = FALSE
      /\ group.active = FALSE => inactive(group) = group
  BY <1>6 DEF inactive, Groups
<1>8. CASE UNCHANGED <<todo, m_udpMcastConns>> /\ (faults' = faults \/ faults' = Append(faults, "leave"))
  <2>1. faults' = faults \/ \E what \in Faults : faults' = Append(faults, what)
    BY <1>8 DEF Faults
  <2>2. m_connected' \subseteq 0 .. Len(m_qps) - 1 /\ rts' \subseteq Objects
    BY <1>1, <1>2 DEF QueuePairsTypeOK
  <2>3. ConnectedOK' /\ ConnectedCanSend'
    BY <1>1, <1>2, <1>4 DEF ConnectedOK, Used, ConnectedCanSend
  <2> QED
    BY <1>2, <1>8, <2>1, <2>2, <2>3, NoMoreKept
<1>9. CASE /\ todo' = leaveCalls(group) /\ UNCHANGED faults
           /\ m_udpMcastConns' = [m_udpMcastConns EXCEPT ![k] = inactive(group)]
  <2>1. CASE ~group.active
    <3>1. todo' = todo
      BY <1>3, <1>9, <2>1 DEF leaveCalls
    <3>2. group.active = FALSE
      BY <1>6, <2>1 DEF Groups
    <3>3. m_udpMcastConns' = m_udpMcastConns
      BY <1>5, <1>6, <1>7, <1>9, <3>2
    <3> QED
      BY <1>8, <1>9, <3>1, <3>3
  <2>2. CASE group.active
    <3> DEFINE cs == leaveCalls(group)
               G == ObjectsOfGroup(group)
    <3>1. k \in ActiveKeys
      BY <1>5, <2>2 DEF ActiveKeys
    <3>2. /\ GroupOK(uses, group) /\ G \cap (Base \cup PointersOf(m_udqp)) = {}
          /\ \A j \in ActiveKeys : j # k => G \cap ObjectsOfGroup(m_udpMcastConns[j]) = {}
          /\ m_srqs = << >> /\ \A j \in DOMAIN m_qps : m_qps[j] \in {NoQp, m_udqp}
      BY <1>1, <1>3, <1>4, <1>5, <3>1 DEF UnreliableOK
    <3>3. /\ G \subseteq Alive /\ nullptr \notin Alive
      <4>1. Alive \subseteq Objects
        BY <1>1 DEF QueuePairsTypeOK
      <4> QED
        BY <3>2, <4>1, NullIsNone DEF GroupOK
    <3>4. /\ cs \in Seq(Calls) /\ \A p \in DOMAIN cs : cs[p].object \in G /\ cs[p].busy # "log"
      BY <1>6, <2>2, CallsOfGroup, CallOfGroup
    <3>5. \A o \in G : \E p \in DOMAIN cs : cs[p].object = o
      BY <1>6, <2>2, GroupObjectsCalled
    <3>6. UsedBetween(cs, uses) /\ UsersFirst(cs, uses, Firm(m_res)) /\ TriedAgain(cs, uses, Firm(m_res))
      <4>1. Different(cs)
        BY <1>6, <2>2, <3>2, GroupCallsDifferent
      <4>2. UsedBetween(cs, uses)
        BY <4>1, DifferentNotBetween
      <4>3. TriedAgain(cs, uses, Firm(m_res))
        BY <3>4 DEF TriedAgain
      <4>4. UsersFirst(cs, uses, Firm(m_res))
        <5>1. m_res.pd \notin G /\ m_res.ib_ctx \notin G
          BY <3>2 DEF Base
        <5>2. ASSUME NEW i \in 1 .. 9 PROVE cs[i] \in Firm(m_res)
          <6> HIDE DEF cs, G
          <6>1. cs[i] \in Calls /\ cs[i].object \in G /\ cs[i].busy # "log"
            <7>1. DOMAIN cs = 1 .. 9
              BY <1>6, <2>2, CallsOfGroup DEF cs
            <7>2. cs[i] \in Calls
              BY <3>4, <7>1, LenProperties, ElementOfSeq
            <7> QED
              BY <3>4, <7>1, <7>2
          <6>2. Call(m_res.pd, "ignore").object = m_res.pd /\ Call(m_res.ib_ctx, "force").object = m_res.ib_ctx
            BY DEF Call
          <6> QED
            BY <5>1, <6>1, <6>2 DEF Firm
        <5> QED
          BY <1>6, <2>2, <3>2, <5>2, GroupUsersFirst
      <4> QED
        BY <4>2, <4>3, <4>4
    <3> HIDE DEF cs, G
    <3>7. todo' = cs
      BY <1>9 DEF cs
    <3>8. /\ m_udpMcastConns' \in Seq(Groups) /\ DOMAIN m_udpMcastConns' = DOMAIN m_udpMcastConns
          /\ m_udpMcastConns'[k].active = FALSE
          /\ \A j \in DOMAIN m_udpMcastConns : j # k => m_udpMcastConns'[j] = m_udpMcastConns[j]
      <4>1. m_udpMcastConns' \in Seq(Groups)
        BY <1>6, <1>7, <1>9, ExceptSeq
      <4> QED
        BY <1>7, <1>9, <4>1
    <3>9. ActiveKeys' = ActiveKeys \ {k} /\ \A j \in ActiveKeys' : m_udpMcastConns'[j] = m_udpMcastConns[j]
      BY <3>8 DEF ActiveKeys
    <3>10. QueuePairsTypeOK'
      BY <1>1, <1>2, <1>9, <3>4, <3>7, <3>8 DEF QueuePairsTypeOK
    <3>11. Base' = Base /\ SrqQueues' = {} /\ Used' = Used
      BY <1>2, <3>2 DEF Base, SrqQueues, Used
    <3>12. BaseOK' /\ ReliableOK' /\ SrqsOK'
      BY <1>1, <1>2, <1>4, <3>11 DEF BaseOK, ReliableOK, SrqsOK
    <3>13. UnreliableOK'
      <4>1. /\ m_udqp # NoQp /\ PairOK(uses, {}, m_udqp) /\ qp \in {NoQp, m_udqp}
            /\ \A j \in ActiveKeys :
                 /\ GroupOK(uses, m_udpMcastConns[j])
                 /\ ObjectsOfGroup(m_udpMcastConns[j]) \cap (Base \cup PointersOf(m_udqp)) = {}
            /\ \A i, j \in ActiveKeys :
                 i # j => ObjectsOfGroup(m_udpMcastConns[i]) \cap ObjectsOfGroup(m_udpMcastConns[j]) = {}
        BY <1>1, <1>3, <1>4 DEF UnreliableOK
      <4>2. \A j \in ActiveKeys' :
               /\ GroupOK(uses', m_udpMcastConns'[j])
               /\ ObjectsOfGroup(m_udpMcastConns'[j]) \cap (Base' \cup PointersOf(m_udqp')) = {}
        BY <1>2, <3>9, <3>11, <4>1
      <4>3. \A i, j \in ActiveKeys' :
               i # j => ObjectsOfGroup(m_udpMcastConns'[i]) \cap ObjectsOfGroup(m_udpMcastConns'[j]) = {}
        BY <3>9, <4>1
      <4> QED
        BY <1>2, <3>2, <4>1, <4>2, <4>3 DEF UnreliableOK
    <3>14. ASSUME NEW o \in G PROVE o \in Alive /\ o \notin Base' /\ ~Named(o)'
      <4>1. o \in Alive /\ o # nullptr /\ o \notin Base' /\ o \notin PointersOf(m_udqp)
        BY <3>2, <3>3, <3>11
      <4>2. o \notin PointersOf(NoQp)
        BY <4>1 DEF PointersOf, NoQp
      <4>3. \A j \in DOMAIN m_qps : o \notin PointersOf(m_qps[j])
        BY <3>2, <4>1, <4>2
      <4>4. \A j \in ActiveKeys' : o \notin ObjectsOfGroup(m_udpMcastConns'[j])
        BY <3>2, <3>9
      <4>5. DOMAIN m_srqs' = {}
        BY <1>2, <3>2
      <4> QED
        BY <1>2, <3>11, <4>1, <4>2, <4>3, <4>4, <4>5 DEF Named
    <3>15. TodoOK'
      <4>1. ASSUME NEW p \in DOMAIN cs PROVE cs[p].object \in Alive
        BY <3>3, <3>4
      <4>2. ASSUME NEW x \in InTodo' PROVE x \notin Base' /\ ~Named(x)'
        <5>1. PICK p \in DOMAIN cs : x = cs[p].object
          BY <3>7 DEF InTodo
        <5> QED
          BY <3>4, <3>14, <5>1
      <4>3. phase' # "destroying"
        BY <1>3
      <4> QED
        BY <1>2, <1>9, <3>6, <3>7, <4>1, <4>2, <4>3 DEF TodoOK
    <3>16. Accounted'
      <4>1. ASSUME NEW o \in Alive, Named(o) PROVE Named(o)' \/ o \in InTodo'
        <5>1. CASE o \in G
          BY <3>5, <3>7, <5>1 DEF InTodo
        <5>2. CASE o \notin G
          <6>1. SrqQueues = {}
            BY <3>2 DEF SrqQueues
          <6>2. \A j \in ActiveKeys : o \in ObjectsOfGroup(m_udpMcastConns[j]) =>
                   j \in ActiveKeys' /\ o \in ObjectsOfGroup(m_udpMcastConns'[j])
            BY <1>5, <3>9, <5>2 DEF G
          <6> QED
            BY <1>2, <3>11, <4>1, <6>1, <6>2 DEF Named
        <5> QED
          BY <5>1, <5>2
      <4> QED
        BY <1>1, <1>2, <1>3, <1>9, <4>1, AccountedGrown
    <3>17. Numbered(uses', made') /\ Early' /\ Ended' /\ ConnectedOK'
      BY <1>1, <1>2, <1>3, <3>11 DEF Early, Ended, ConnectedOK
    <3>18. UsersGoFirst' /\ EndsOrderly' /\ ConnectedCanSend'
      BY <1>2, <1>3, <1>4, <1>9 DEF QueuePairsInvariant, QueuePairsInv, UsersGoFirst, ConnectedCanSend, EndsOrderly
    <3> QED
      BY <1>3, <3>10, <3>12, <3>13, <3>15, <3>16, <3>17, <3>18 DEF Kept, Core
  <2> QED
    BY <2>1, <2>2
<1> QED
  BY <1>5, <1>8, <1>9 DEF LeaveMCastGroup

\* A group that is joined has all its objects, and to itself.
LEMMA GroupMade ==
    ASSUME QueuePairsInvariant, phase = "running", Made(groupSteps)
    PROVE  /\ newGroup \in Groups /\ newGroup.active /\ GroupOK(uses', newGroup)
           /\ ObjectsOfGroup(newGroup) \cap Alive = {}
           /\ \A o \in Alive' \ Alive : o \in ObjectsOfGroup(newGroup) \/ o.type = "addrinfo"
<1> USE DEF Alive
<1>1. /\ QueuePairsTypeOK /\ Numbered(uses, made)
  BY Parts
<1>2. /\ m_res.buffer.type = "buffer" /\ m_res.pd.type = "pd" /\ {m_res.buffer, m_res.pd} \subseteq Alive
  BY BaseReady
<1> DEFINE S == groupSteps
           channel == fresh("channel", 1)    id == fresh("id", 2)     ai == fresh("addrinfo", 3)
           pd == fresh("pd", 4)              mr == fresh("mr", 5)     scq == fresh("cq", 6)
           rcq == fresh("cq", 7)             pair == fresh("qp", 8)
           membership == fresh("membership", 9)                       ah == fresh("ah", 10)
<1>3. /\ StepsOK(S, {m_res.buffer, m_res.pd})
      /\ ObjectsOf(S) = {channel, id, ai, pd, mr, scq, rcq, pair, membership, ah}
      /\ partsOf(S, channel) = {} /\ partsOf(S, id) = {channel} /\ partsOf(S, ai) = {}
      /\ partsOf(S, pd) = {} /\ partsOf(S, mr) = {pd, m_res.buffer}
      /\ partsOf(S, scq) = {} /\ partsOf(S, rcq) = {} /\ partsOf(S, pair) = {id, pd, scq, rcq}
      /\ partsOf(S, membership) = {pair} /\ partsOf(S, ah) = {m_res.pd}
  BY <1>1, <1>2, CreateGroup
<1>4. /\ channel.type = "channel" /\ id.type = "id" /\ ai.type = "addrinfo" /\ pd.type = "pd" /\ mr.type = "mr"
      /\ scq.type = "cq" /\ rcq.type = "cq" /\ pair.type = "qp" /\ membership.type = "membership"
      /\ ah.type = "ah" /\ scq # rcq
  <2>1. made \in Nat
    BY <1>1 DEF QueuePairsTypeOK
  <2>2. made + 6 # made + 7
    BY <2>1
  <2> QED
    BY <2>2 DEF fresh
<1>5. /\ newGroup.active = TRUE /\ newGroup.channel = channel /\ newGroup.id = id /\ newGroup.pd = pd
      /\ newGroup.mr = mr /\ newGroup.scq = scq /\ newGroup.rcq = rcq /\ newGroup.qp = pair
      /\ newGroup.membership = membership /\ newGroup.ah = ah
      /\ newGroup = [active |-> TRUE, channel |-> channel, id |-> id, pd |-> pd, mr |-> mr, scq |-> scq,
                     rcq |-> rcq, qp |-> pair, membership |-> membership, ah |-> ah]
  BY DEF newGroup
<1> HIDE DEF S, channel, id, ai, pd, mr, scq, rcq, pair, membership, ah
<1>6. Made(S)
  BY DEF S
<1>7. /\ Alive' = Alive \cup ObjectsOf(S)
      /\ \A o \in ObjectsOf(S) : o \notin Alive /\ o \in Objects /\ uses'[o] = partsOf(S, o)
      /\ \A o \in ObjectsOf(S) : \A user \in Alive : o \notin uses'[user]
  BY <1>1, <1>2, <1>3, <1>6, MadeGrows
<1>8. newGroup \in Groups
  <2>1. {channel, id, pd, mr, scq, rcq, pair, membership, ah} \subseteq Pointers
    BY <1>3, <1>7 DEF Pointers
  <2> QED
    BY <1>5, <2>1 DEF Groups
<1>9. ObjectsOfGroup(newGroup) = {channel, id, pd, mr, scq, rcq, pair, membership, ah}
  BY <1>5 DEF ObjectsOfGroup
<1>10. ObjectsOfGroup(newGroup) \subseteq ObjectsOf(S)
  BY <1>3, <1>9
<1>11. \A o \in ObjectsOf(S) : o \in ObjectsOfGroup(newGroup) \/ o.type = "addrinfo"
  BY <1>3, <1>4, <1>9
<1>12. /\ m_res.pd \notin ObjectsOf(S) /\ m_res.buffer \notin ObjectsOf(S)
  BY <1>2, <1>7
<1>13. ASSUME NEW x \in ObjectsOf(S), NEW T, \A o \in ObjectsOf(S) : x \in partsOf(S, o) => o \in T
       PROVE  Only(uses', x, T)
  BY <1>7, <1>13, FreshOnly
<1>14. /\ Only(uses', membership, {}) /\ Only(uses', ah, {}) /\ Only(uses', mr, {})
  <2>1. \A x \in {membership, ah, mr} : \A o \in ObjectsOf(S) : x \notin partsOf(S, o)
    BY <1>3, <1>4, <1>12
  <2> QED
    BY <1>3, <1>13, <2>1
<1>15. /\ Only(uses', pair, {membership}) /\ Only(uses', channel, {id})
  <2>1. \A o \in ObjectsOf(S) : pair \in partsOf(S, o) => o \in {membership}
    BY <1>3, <1>4, <1>12
  <2>2. \A o \in ObjectsOf(S) : channel \in partsOf(S, o) => o \in {id}
    BY <1>3, <1>4, <1>12
  <2> QED
    BY <1>3, <1>13, <2>1, <2>2
<1>16. /\ Only(uses', scq, {pair}) /\ Only(uses', rcq, {pair}) /\ Only(uses', id, {pair})
  <2>1. \A x \in {scq, rcq, id} : \A o \in ObjectsOf(S) : x \in partsOf(S, o) => o \in {pair}
    BY <1>3, <1>4, <1>12
  <2> QED
    BY <1>3, <1>13, <2>1
<1>17. Only(uses', pd, {mr, pair})
  <2>1. \A o \in ObjectsOf(S) : pd \in partsOf(S, o) => o \in {mr, pair}
    BY <1>3, <1>4, <1>12
  <2> QED
    BY <1>3, <1>13, <2>1
<1>18. ObjectsOfGroup(newGroup) \subseteq DOMAIN uses'
  BY <1>7, <1>10
<1>19. GroupOK(uses', newGroup)
  BY <1>4, <1>5, <1>14, <1>15, <1>16, <1>17, <1>18 DEF GroupOK
<1> QED
  BY <1>5, <1>7, <1>8, <1>10, <1>11, <1>19

\* A group is joined.
LEMMA JoinMCastGroupKept ==
    ASSUME QueuePairsInvariant, JoinMCastGroup
    PROVE  Kept
<1> USE DEF Alive
<1>1. /\ QueuePairsTypeOK /\ Numbered(uses, made) /\ BaseOK /\ ReliableOK /\ ConnectedOK /\ SrqsOK /\ UnreliableOK
      /\ Accounted
  BY Parts
<1>2. /\ transport = "ud" /\ Ready /\ calls' \in 0 .. MaxCalls /\ qp = NoQp
      /\ m_lastMCastConnKey' = m_lastMCastConnKey + 1
      /\ UNCHANGED <<transport, phase, todo, m_res, m_qps, m_connected, m_srqs, m_udqp, rts, qp>>
  BY <1>1, Counted DEF JoinMCastGroup
<1>3. phase = "running" /\ phase' = "running" /\ todo = << >> /\ todo' = << >>
  BY <1>2 DEF Ready
<1>4. m_lastMCastConnKey \in Nat /\ m_lastMCastConnKey' \in Nat
  <2>1. m_lastMCastConnKey \in Nat
    BY <1>1 DEF QueuePairsTypeOK
  <2> QED
    BY <1>2, <2>1
<1>5. /\ {m_res.buffer, m_res.pd} \subseteq Alive /\ Spare({m_res.buffer, m_res.pd}, FALSE)
      /\ m_res.buffer.type = "buffer" /\ m_res.pd.type = "pd"
  BY <1>3, BaseReady
<1>6. /\ Len(groupSteps) = 11 /\ DOMAIN groupSteps = 1 .. 11
      /\ StepsOK(groupSteps, {m_res.buffer, m_res.pd})
  BY <1>1, <1>5, CreateGroup
<1>7. CASE Made(groupSteps) /\ setMCastConn(m_lastMCastConnKey, newGroup)
  <2>1. PICK new : new = newGroup
    OBVIOUS
  <2>2. PICK key : key = m_lastMCastConnKey
    OBVIOUS
  <2>3. /\ new \in Groups /\ new.active /\ GroupOK(uses', new)
        /\ ObjectsOfGroup(new) \cap Alive = {}
        /\ \A o \in Alive' \ Alive : o \in ObjectsOfGroup(new) \/ o.type = "addrinfo"
    BY <1>3, <1>7, <2>1, GroupMade
  <2>4. /\ Grown(uses, uses', made, {m_res.buffer, m_res.pd}) /\ Numbered(uses', made') /\ made' \in Nat
        /\ Alive' \subseteq Objects /\ \A o \in Alive' : uses'[o] \subseteq Objects
        /\ faults' = faults /\ (UsersGoFirst => UsersGoFirst')
    BY <1>1, <1>5, <1>6, <1>7, MadeGrows
  <2>5. /\ m_udpMcastConns' \in Seq(Groups) /\ key \in Nat
        /\ OneEntered(m_udpMcastConns, m_udpMcastConns', key, NoGroup, new)
    <3>1. NoGroup \in Groups /\ m_udpMcastConns \in Seq(Groups)
      BY <1>1 DEF NoGroup, Groups, Pointers, QueuePairsTypeOK
    <3>2. m_udpMcastConns' = Entered(m_udpMcastConns, key, NoGroup, new)
      BY <1>7, <2>1, <2>2 DEF setMCastConn, Entered
    <3> QED
      BY <1>4, <2>2, <2>3, <3>1, <3>2, EntrySet
  <2>6. /\ DOMAIN m_udpMcastConns \subseteq DOMAIN m_udpMcastConns' /\ key + 1 \in DOMAIN m_udpMcastConns'
        /\ key + 1 \notin DOMAIN m_udpMcastConns /\ m_udpMcastConns'[key + 1] = new
        /\ \A k \in DOMAIN m_udpMcastConns : m_udpMcastConns'[k] = m_udpMcastConns[k]
        /\ \A k \in DOMAIN m_udpMcastConns' \ DOMAIN m_udpMcastConns : k # key + 1 => m_udpMcastConns'[k] = NoGroup
    <3>1. key + 1 \notin DOMAIN m_udpMcastConns
      <4>1. Len(m_udpMcastConns) <= key /\ Len(m_udpMcastConns) \in Nat
            /\ DOMAIN m_udpMcastConns = 1 .. Len(m_udpMcastConns)
        BY <2>2, <2>5 DEF QueuePairsInvariant, KeysBounded, OneEntered
      <4> QED
        BY <2>5, <4>1
    <3> QED
      BY <2>5, <3>1 DEF OneEntered
  <2>7. /\ ActiveKeys' = ActiveKeys \cup {key + 1} /\ key + 1 \notin ActiveKeys
        /\ \A k \in ActiveKeys : m_udpMcastConns'[k] = m_udpMcastConns[k]
    <3>1. ~NoGroup.active
      BY DEF NoGroup
    <3>2. \A k \in DOMAIN m_udpMcastConns' :
             k \in DOMAIN m_udpMcastConns \/ k = key + 1 \/ m_udpMcastConns'[k] = NoGroup
      BY <2>6
    <3>3. ActiveKeys' \subseteq ActiveKeys \cup {key + 1}
      BY <2>6, <3>1, <3>2 DEF ActiveKeys
    <3>4. ActiveKeys \cup {key + 1} \subseteq ActiveKeys'
      BY <2>3, <2>6 DEF ActiveKeys
    <3> QED
      BY <2>6, <3>3, <3>4 DEF ActiveKeys
  <2>8. QueuePairsTypeOK'
    BY <1>1, <1>2, <1>4, <2>4, <2>5 DEF QueuePairsTypeOK
  <2>9. /\ Base' = Base /\ Used' = Used /\ SrqQueues' = SrqQueues
    BY <1>2 DEF Base, Used, SrqQueues
  <2>10. BaseOK'
    <3>1. \A x \in {m_res.buffer, m_res.pd} : x.type # "mr"
      BY <1>5
    <3> QED
      BY <1>1, <1>2, <1>3, <2>4, <3>1, BaseGrown
  <2>11. ReliableOK' /\ SrqsOK' /\ ConnectedOK'
    BY <1>1, <1>2, <2>9 DEF ReliableOK, SrqsOK, ConnectedOK
  <2>12. UnreliableOK'
    <3>1. /\ PairOK(uses', {}, m_udqp)
          /\ \A k \in ActiveKeys : GroupOK(uses', m_udpMcastConns[k])
      BY <1>1, <1>2, <1>3, <1>5, <2>4, UnreliableGrown
    <3>2. /\ m_srqs = << >> /\ m_udqp # NoQp
          /\ \A k \in DOMAIN m_qps : m_qps[k] \in {NoQp, m_udqp}
          /\ qp \in {NoQp, m_udqp} /\ PairOK(uses, {}, m_udqp)
          /\ \A k \in ActiveKeys :
               /\ ObjectsOfGroup(m_udpMcastConns[k]) \subseteq Alive
               /\ ObjectsOfGroup(m_udpMcastConns[k]) \cap (Base \cup PointersOf(m_udqp)) = {}
          /\ \A j, k \in ActiveKeys :
               j # k => ObjectsOfGroup(m_udpMcastConns[j]) \cap ObjectsOfGroup(m_udpMcastConns[k]) = {}
      BY <1>1, <1>2, <1>3 DEF UnreliableOK, GroupOK
    <3>3. Base \cup PointersOf(m_udqp) \subseteq Alive
      <4>1. PointersOf(m_udqp) \subseteq Alive
        BY <3>2 DEF PairOK
      <4>2. Base \subseteq Alive
        BY <1>1, <1>3 DEF BaseOK
      <4> QED
        BY <4>1, <4>2
    <3>4. ASSUME NEW k \in ActiveKeys'
          PROVE  /\ GroupOK(uses', m_udpMcastConns'[k])
                 /\ ObjectsOfGroup(m_udpMcastConns'[k]) \cap (Base \cup PointersOf(m_udqp)) = {}
      <4>1. CASE k = key + 1
        BY <2>3, <2>6, <3>3, <4>1
      <4>2. CASE k \in ActiveKeys
        BY <2>7, <3>1, <3>2, <4>2
      <4> QED
        BY <2>7, <4>1, <4>2
    <3>5. ASSUME NEW j \in ActiveKeys', NEW k \in ActiveKeys', j # k
          PROVE  ObjectsOfGroup(m_udpMcastConns'[j]) \cap ObjectsOfGroup(m_udpMcastConns'[k]) = {}
      <4>1. CASE j = key + 1
        <5>1. k \in ActiveKeys /\ m_udpMcastConns'[j] = new /\ m_udpMcastConns'[k] = m_udpMcastConns[k]
          BY <2>6, <2>7, <3>5, <4>1
        <5> QED
          BY <2>3, <3>2, <5>1
      <4>2. CASE k = key + 1
        <5>1. j \in ActiveKeys /\ m_udpMcastConns'[k] = new /\ m_udpMcastConns'[j] = m_udpMcastConns[j]
          BY <2>6, <2>7, <3>5, <4>2
        <5> QED
          BY <2>3, <3>2, <5>1
      <4>3. CASE j \in ActiveKeys /\ k \in ActiveKeys
        BY <2>7, <3>2, <3>5, <4>3
      <4> QED
        BY <2>7, <4>1, <4>2, <4>3
    <3> QED
      BY <1>2, <2>9, <3>1, <3>2, <3>4, <3>5 DEF UnreliableOK
  <2>13. ConnectedCanSend' /\ UsersGoFirst'
    BY <1>2, <2>4 DEF ConnectedCanSend, QueuePairsInvariant, QueuePairsInv
  <2>14. Accounted'
    <3>1. ASSUME NEW o \in Alive, Named(o) PROVE Named(o)'
      <4>1. \A k \in ActiveKeys : o \in ObjectsOfGroup(m_udpMcastConns[k]) =>
               k \in ActiveKeys' /\ o \in ObjectsOfGroup(m_udpMcastConns'[k])
        BY <2>7
      <4> QED
        BY <1>2, <2>9, <3>1, <4>1 DEF Named
    <3>2. ASSUME NEW o \in Alive' \ Alive PROVE o.type \in {"ah", "addrinfo"} \/ Named(o)'
      <4>1. CASE o \in ObjectsOfGroup(new)
        <5>1. key + 1 \in ActiveKeys' /\ o \in ObjectsOfGroup(m_udpMcastConns'[key + 1])
          BY <2>6, <2>7, <4>1
        <5> QED
          BY <5>1 DEF Named
      <4> QED
        BY <2>3, <4>1
    <3> QED
      BY <1>1, <1>2, <1>3, <2>4, <3>1, <3>2, AccountedGrown
  <2> QED
    BY <1>3, <2>4, <2>8, <2>10, <2>11, <2>12, <2>13, <2>14, RunningKept
<1>8. ASSUME NEW k \in DOMAIN groupSteps, Fails(groupSteps, k, "join"), UNCHANGED m_udpMcastConns
      PROVE  Kept
  <2>1. "join" \in Faults /\ k \in 1 .. Len(groupSteps)
    BY <1>6 DEF Faults
  <2> QED
    BY <1>2, <1>4, <1>5, <1>6, <1>8, <2>1, FailureKept
<1> QED
  BY <1>7, <1>8 DEF JoinMCastGroup

\* The base is constructed.
LEMMA BaseRDMAKept ==
    ASSUME QueuePairsInvariant, BaseRDMA
    PROVE  Kept
<1> USE DEF Alive
<1>1. QueuePairsTypeOK /\ Numbered(uses, made) /\ BaseOK /\ Early /\ UnreliableOK
  BY Parts
<1>2. /\ phase = "unmade"
      /\ UNCHANGED <<transport, calls, todo, m_qps, m_connected, m_srqs, m_udqp,
                     m_lastMCastConnKey, m_udpMcastConns, rts, qp>>
  BY DEF BaseRDMA
<1>3. /\ todo = << >> /\ m_qps = << >> /\ m_srqs = << >> /\ m_udqp = NoQp /\ qp = NoQp
      /\ m_udpMcastConns = << >> /\ faults = << >> /\ m_connected = {} /\ Alive = {}
  BY <1>1, <1>2 DEF Early
<1>4. transport = "rc" \/ transport = "ud"
  BY <1>1, QueuePairsAssumption DEF QueuePairsTypeOK
<1>5. TodoOK' /\ Ended' /\ ConnectedOK' /\ ConnectedCanSend'
  <2>1. todo' = << >> /\ m_connected' = {}
    BY <1>2, <1>3
  <2> QED
    BY <2>1, NothingTodo DEF ConnectedOK, ConnectedCanSend
<1>6. SrqsOK' /\ Used' = {}
  BY <1>2, <1>3 DEF SrqsOK, Used
<1>7. ReliableOK'
  BY <1>2, <1>3, <1>6 DEF ReliableOK
<1> DEFINE ctx == fresh("ib_ctx", 1)
           buffer == fresh("buffer", 2)
           pd == fresh("pd", 3)
           mr == fresh("mr", 4)
           S == createBuffer
<1>8. /\ Len(S) = 4 /\ StepsOK(S, {}) /\ ObjectsOf(S) = {ctx, buffer, pd, mr}
      /\ partsOf(S, ctx) = {} /\ partsOf(S, buffer) = {}
      /\ partsOf(S, pd) = {ctx} /\ partsOf(S, mr) = {pd, buffer}
  BY <1>1, CreateBuffer
<1>9. ctx.type = "ib_ctx" /\ buffer.type = "buffer" /\ pd.type = "pd" /\ mr.type = "mr"
  BY DEF fresh
<1> HIDE DEF ctx, buffer, pd, mr, S
<1>10. CASE /\ Made(S)
            /\ m_res' = [ib_ctx |-> ctx, buffer |-> buffer, pd |-> pd, mr |-> mr]
            /\ phase' = IF transport = "rc" THEN "running" ELSE "base"
  <2>1. /\ Numbered(uses', made') /\ made' \in Nat
        /\ Alive' \subseteq Objects /\ \A o \in Alive' : uses'[o] \subseteq Objects
        /\ Alive' = ObjectsOf(S) /\ faults' = faults
        /\ \A o \in ObjectsOf(S) : o \in Objects /\ uses'[o] = partsOf(S, o)
        /\ UsersGoFirst => UsersGoFirst'
    BY <1>1, <1>3, <1>8, <1>10, MadeGrows
  <2>2. m_res' \in [ib_ctx : Pointers, buffer : Pointers, pd : Pointers, mr : Pointers]
    <3>1. {ctx, buffer, pd, mr} \subseteq Pointers
      BY <1>8, <2>1 DEF Pointers
    <3> QED
      BY <1>10, <3>1
  <2>3. phase' \in {"running", "base"} /\ (phase' = "running" => transport = "rc")
        /\ (phase' = "base" => transport = "ud")
    BY <1>4, <1>10
  <2>4. Base' = {ctx, buffer, pd, mr}
    BY <1>10 DEF Base
  <2>5. QueuePairsTypeOK'
    BY <1>1, <1>2, <2>1, <2>2, <2>3 DEF QueuePairsTypeOK, Phases
  <2>6. BaseOK'
    <3>1. \A o \in Alive' : mr \notin uses'[o]
      BY <1>8, <1>9, <2>1
    <3>2. Only(uses', mr, {})
      BY <3>1 DEF Only
    <3> QED
      BY <1>8, <1>9, <1>10, <2>1, <2>4, <3>2 DEF BaseOK
  <2>7. Early'
    BY <1>2, <1>3, <2>1, <2>3 DEF Early
  <2>8. UnreliableOK'
    BY <1>2, <1>3, <2>3 DEF UnreliableOK
  <2>9. Accounted'
    BY <1>8, <2>1, <2>3, <2>4 DEF Accounted
  <2>10. UsersGoFirst' /\ EndsOrderly'
    BY <2>1, <2>3 DEF QueuePairsInvariant, QueuePairsInv, EndsOrderly
  <2>11. UNCHANGED <<transport, m_qps, m_srqs, m_udpMcastConns>>
    BY <1>2
  <2> QED
    BY <1>5, <1>6, <1>7, <2>1, <2>5, <2>6, <2>7, <2>8, <2>9, <2>10, <2>11 DEF Kept, Core
<1>11. ASSUME NEW k \in 1 .. 4, Fails(S, k, "construction"),
              phase' = IF k = 2 THEN "crashed" ELSE "gone", UNCHANGED m_res
       PROVE  Kept
  <2>1. "construction" \in Faults /\ k \in 1 .. Len(S) /\ {} \subseteq Alive
    BY <1>8 DEF Faults
  <2>2. /\ Numbered(uses', made') /\ made' \in Nat
        /\ Alive' \subseteq Objects /\ \A o \in Alive' : uses'[o] \subseteq Objects
        /\ faults' \in Seq(Faults) /\ faults' # << >>
    BY <1>1, <1>8, <1>11, <2>1, FailsGrows
  <2>3. faults' = <<"construction">>
    BY <1>3, <1>11 DEF Fails
  <2>4. phase' \in {"crashed", "gone"}
    BY <1>11
  <2>5. QueuePairsTypeOK'
    BY <1>1, <1>2, <1>11, <2>2, <2>4 DEF QueuePairsTypeOK, Phases
  <2>6. BaseOK' /\ Early' /\ Accounted' /\ UsersGoFirst'
    BY <1>1, <1>11, <2>2, <2>4 DEF BaseOK, Early, Accounted, UsersGoFirst
  <2>7. UnreliableOK' /\ EndsOrderly'
    BY <1>2, <1>3, <2>3, <2>4 DEF UnreliableOK, EndsOrderly
  <2>8. UNCHANGED <<transport, m_qps, m_srqs, m_udpMcastConns>>
    BY <1>2
  <2> QED
    BY <1>5, <1>6, <1>7, <2>2, <2>5, <2>6, <2>7, <2>8 DEF Kept, Core
<1> QED
  BY <1>10, <1>11 DEF BaseRDMA, S, ctx, buffer, pd, mr

\* UnreliableRDMA is constructed.
LEMMA UnreliableRDMAKept ==
    ASSUME QueuePairsInvariant, UnreliableRDMA
    PROVE  Kept
<1> USE DEF Alive
<1>1. /\ QueuePairsTypeOK /\ Numbered(uses, made) /\ BaseOK /\ Early /\ UnreliableOK /\ ConnectedOK
      /\ Accounted
  BY Parts
<1>2. /\ phase = "base"
      /\ UNCHANGED <<transport, calls, m_res, m_connected, m_srqs,
                     m_lastMCastConnKey, m_udpMcastConns, rts, qp>>
  BY DEF UnreliableRDMA
<1>3. /\ transport = "ud" /\ todo = << >> /\ m_qps = << >> /\ m_srqs = << >> /\ m_udqp = NoQp /\ qp = NoQp
      /\ m_udpMcastConns = << >> /\ faults = << >> /\ m_connected = {}
  BY <1>1, <1>2 DEF Early
<1> DEFINE X == {m_res.ib_ctx, m_res.pd}
<1>4. X \subseteq Alive /\ m_res.ib_ctx.type = "ib_ctx" /\ m_res.pd.type = "pd"
  BY <1>2, BaseReady
<1>5. /\ Len(createUdQueues) = 6 /\ DOMAIN createUdQueues = 1 .. 6 /\ StepsOK(createUdQueues, X)
      /\ ObjectsOf(createUdQueues) = PointersOf(queuePair)
      /\ \A o \in PointersOf(queuePair) : partsOf(createUdQueues, o) = partsOf(createQueues, o)
  BY <1>1, <1>4, CreateUdQueues
<1>6. ReliableOK' /\ SrqsOK'
  BY <1>2, <1>3 DEF ReliableOK, SrqsOK
<1>7. ConnectedOK' /\ ConnectedCanSend'
  BY <1>2, <1>3 DEF ConnectedOK, ConnectedCanSend
<1>8. CASE /\ Made(createUdQueues) /\ m_udqp' = queuePair /\ m_qps' = <<queuePair>>
           /\ phase' = "running" /\ UNCHANGED todo
  <2>1. PICK q : q = queuePair
    OBVIOUS
  <2>2. /\ PairOK(uses', {}, q) /\ q \in Pairs /\ q # NoQp /\ Alive' = Alive \cup PointersOf(q)
    BY <1>2, <1>5, <1>8, <2>1, QueuePairMade
  <2>3. /\ Grown(uses, uses', made, X) /\ Numbered(uses', made') /\ made' \in Nat
        /\ Alive' \subseteq Objects /\ \A o \in Alive' : uses'[o] \subseteq Objects
        /\ faults' = faults /\ (UsersGoFirst => UsersGoFirst')
    BY <1>1, <1>4, <1>5, <1>8, MadeGrows
  <2>4. m_udqp' = q /\ m_qps' \in Seq(Pairs) /\ \A k \in DOMAIN m_qps' : m_qps'[k] = q
    BY <1>8, <2>1, <2>2
  <2>5. m_connected' \subseteq 0 .. Len(m_qps') - 1
    BY <1>2, <1>3
  <2>6. QueuePairsTypeOK'
    BY <1>1, <1>2, <1>8, <2>2, <2>3, <2>4, <2>5 DEF QueuePairsTypeOK, Phases
  <2>7. BaseOK'
    <3>1. \A x \in X : x.type # "mr"
      BY <1>4
    <3> QED
      BY <1>1, <1>2, <2>3, <3>1, BaseGrown
  <2>8. UnreliableOK'
    <3>1. ActiveKeys' = {}
      BY <1>2, <1>3 DEF ActiveKeys
    <3> QED
      BY <1>2, <1>3, <2>2, <2>4, <3>1 DEF UnreliableOK
  <2>9. Accounted'
    <3>1. Base' = Base
      BY <1>2 DEF Base
    <3>2. ASSUME NEW o \in Alive, faults = << >>
          PROVE  o.type \in {"ah", "addrinfo"} \/ o \in Base'
      <4>1. o.type \in {"ah", "addrinfo"} \/ o \in InTodo \/ o \in Base \/ Named(o)
        BY <1>1, <1>2, <3>2 DEF Accounted
      <4>2. InTodo = {}
        BY <1>3 DEF InTodo
      <4>3. ~Named(o)
        <5>1. o # nullptr
          BY <1>1, NullIsNone DEF QueuePairsTypeOK
        <5>2. SrqQueues = {} /\ ActiveKeys = {}
          BY <1>3 DEF SrqQueues, ActiveKeys
        <5>3. o \notin PointersOf(NoQp)
          BY <5>1 DEF PointersOf, NoQp
        <5> QED
          BY <1>3, <5>2, <5>3 DEF Named
      <4> QED
        BY <3>1, <4>1, <4>2, <4>3
    <3>3. ASSUME NEW o \in PointersOf(q) PROVE Named(o)'
      BY <2>4, <3>3 DEF Named
    <3> QED
      BY <1>8, <2>2, <2>3, <3>2, <3>3 DEF Accounted
  <2>10. UsersGoFirst' /\ todo' = << >>
    BY <1>3, <1>8, <2>3 DEF QueuePairsInvariant, QueuePairsInv
  <2> QED
    BY <1>6, <1>7, <1>8, <2>3, <2>6, <2>7, <2>8, <2>9, <2>10, RunningKept
<1>9. ASSUME NEW k \in DOMAIN createUdQueues, Fails(createUdQueues, k, "construction"),
             phase' = "destroying", todo' = baseCalls(m_res), UNCHANGED <<m_udqp, m_qps>>
      PROVE  Kept
  <2>1. "construction" \in Faults /\ k \in 1 .. Len(createUdQueues)
    BY <1>5 DEF Faults
  <2>2. /\ Grown(uses, uses', made, X) /\ Numbered(uses', made') /\ made' \in Nat
        /\ Alive' \subseteq Objects /\ \A o \in Alive' : uses'[o] \subseteq Objects
        /\ faults' \in Seq(Faults) /\ faults' # << >>
    BY <1>1, <1>4, <1>5, <1>9, <2>1, FailsGrows
  <2> DEFINE cs == baseCalls(m_res)
  <2>3. /\ cs \in Seq(Calls) /\ Different(cs)
        /\ \A p \in DOMAIN cs : cs[p].object \in Base /\ cs[p].busy \in {"ignore", "force"}
    BY <1>1, <1>2, BaseCallsPlaced
  <2> HIDE DEF cs
  <2>4. todo' = cs
    BY <1>9 DEF cs
  <2>5. QueuePairsTypeOK'
    BY <1>1, <1>2, <1>9, <2>2, <2>3, <2>4 DEF QueuePairsTypeOK, Phases
  <2>6. BaseOK' /\ Early' /\ Ended' /\ Accounted' /\ UsersGoFirst' /\ EndsOrderly'
    BY <1>1, <1>2, <1>9, <2>2 DEF BaseOK, Early, Ended, Accounted, UsersGoFirst, EndsOrderly
  <2>7. UnreliableOK'
    BY <1>2, <1>3, <1>9 DEF UnreliableOK
  <2>8. TodoOK'
    <3>1. UsedBetween(cs, uses')
      BY <2>3, DifferentNotBetween
    <3>2. UsersFirst(cs, uses', Throws)
      BY <2>3 DEF UsersFirst, Throws
    <3>3. \A p \in DOMAIN cs : cs[p].object \in Alive'
      <4>1. Base \subseteq Alive
        BY <1>1, <1>2 DEF BaseOK
      <4> QED
        BY <2>2, <2>3, <4>1 DEF Grown
    <3> QED
      BY <1>9, <2>2, <2>4, <3>1, <3>2, <3>3 DEF TodoOK
  <2>9. UNCHANGED <<transport, m_qps, m_srqs, m_udpMcastConns>>
    BY <1>2, <1>9
  <2> QED
    BY <1>6, <1>7, <2>2, <2>5, <2>6, <2>7, <2>8, <2>9 DEF Kept, Core
<1> QED
  BY <1>8, <1>9 DEF UnreliableRDMA

-----------------------------------------------------------------------------
(***************************************************************************)
(* The verbs objects: the theorems                                         *)
(***************************************************************************)
\* What a step may do to the entries of the groups.
EntriesStay ==
    \A k \in DOMAIN m_udpMcastConns :
        /\ k \in DOMAIN m_udpMcastConns'
        /\ m_udpMcastConns'[k] \in {m_udpMcastConns[k], inactive(m_udpMcastConns[k])}

\* A group that is joined gets the entry of a new key.
LEMMA JoinKeepsKeys ==
    ASSUME QueuePairsTypeOK, KeysBounded, JoinMCastGroup
    PROVE  KeysBounded' /\ EntriesStay
<1>1. /\ m_lastMCastConnKey \in Nat /\ m_udpMcastConns \in Seq(Groups) /\ NoGroup \in Groups
      /\ Len(m_udpMcastConns) \in Nat /\ Len(m_udpMcastConns) <= m_lastMCastConnKey
      /\ m_lastMCastConnKey' = m_lastMCastConnKey + 1
  BY DEF QueuePairsTypeOK, KeysBounded, JoinMCastGroup, NoGroup, Groups, Pointers
<1>2. CASE UNCHANGED m_udpMcastConns
  BY <1>1, <1>2 DEF KeysBounded, EntriesStay
<1>3. CASE setMCastConn(m_lastMCastConnKey, newGroup)
  <2>1. newGroup \in Groups
    <3>1. {"channel", "id", "pd", "mr", "cq", "qp", "membership", "ah"} \subseteq Types
      BY DEF Types
    <3>2. /\ fresh("channel", 1) \in Pointers /\ fresh("id", 2) \in Pointers /\ fresh("pd", 4) \in Pointers
          /\ fresh("mr", 5) \in Pointers /\ fresh("cq", 6) \in Pointers /\ fresh("cq", 7) \in Pointers
          /\ fresh("qp", 8) \in Pointers /\ fresh("membership", 9) \in Pointers /\ fresh("ah", 10) \in Pointers
      BY <3>1, FreshObjects DEF Pointers
    <3> QED
      BY <3>2 DEF newGroup, Groups
  <2>2. PICK new, key : new = newGroup /\ key = m_lastMCastConnKey
    OBVIOUS
  <2>3. m_udpMcastConns' = Entered(m_udpMcastConns, key, NoGroup, new)
    BY <1>3, <2>2 DEF setMCastConn, Entered
  <2>4. OneEntered(m_udpMcastConns, m_udpMcastConns', key, NoGroup, new)
    BY <1>1, <2>1, <2>2, <2>3, EntrySet
  <2>5. Len(m_udpMcastConns') = key + 1 /\ DOMAIN m_udpMcastConns \subseteq DOMAIN m_udpMcastConns'
    BY <1>1, <2>2, <2>4 DEF OneEntered
  <2>6. \A k \in DOMAIN m_udpMcastConns : k # key + 1 /\ m_udpMcastConns'[k] = m_udpMcastConns[k]
    BY <1>1, <2>2, <2>4 DEF OneEntered
  <2> QED
    BY <1>1, <2>2, <2>5, <2>6 DEF KeysBounded, EntriesStay
<1> QED
  BY <1>2, <1>3 DEF JoinMCastGroup

\* A group that is left keeps its entry.
LEMMA LeaveKeepsKeys ==
    ASSUME QueuePairsTypeOK, KeysBounded, NEW k \in DOMAIN m_udpMcastConns, LeaveMCastGroup(k)
    PROVE  KeysBounded' /\ EntriesStay
<1>1. m_udpMcastConns \in Seq(Groups) /\ m_lastMCastConnKey' = m_lastMCastConnKey
  BY DEF QueuePairsTypeOK, LeaveMCastGroup
<1>2. \/ m_udpMcastConns' = m_udpMcastConns
      \/ m_udpMcastConns' = [m_udpMcastConns EXCEPT ![k] = inactive(m_udpMcastConns[k])]
  BY DEF LeaveMCastGroup
<1>3. Len(m_udpMcastConns') = Len(m_udpMcastConns) /\ DOMAIN m_udpMcastConns' = DOMAIN m_udpMcastConns
  <2>1. inactive(m_udpMcastConns[k]) \in Groups
    <3>1. m_udpMcastConns[k] \in Groups
      BY <1>1, ElementOfSeq, LenProperties
    <3> QED
      BY <3>1 DEF inactive, Groups
  <2>2. PICK g \in Groups : g = inactive(m_udpMcastConns[k])
    BY <2>1
  <2> QED
    BY <1>1, <1>2, <2>2, ExceptSeq
<1> QED
  BY <1>1, <1>2, <1>3 DEF KeysBounded, EntriesStay

\* No other step changes them.
LEMMA NextKeepsKeys ==
    ASSUME QueuePairsTypeOK, KeysBounded, [QueuePairsNext]_queuePairsVars
    PROVE  KeysBounded' /\ EntriesStay
<1>1. ASSUME UNCHANGED <<m_udpMcastConns, m_lastMCastConnKey>>
      PROVE  KeysBounded' /\ EntriesStay
  BY <1>1 DEF KeysBounded, EntriesStay
<1>2. CASE UNCHANGED queuePairsVars
  BY <1>1, <1>2 DEF queuePairsVars, recorded
<1>3. CASE BaseRDMA \/ UnreliableRDMA \/ Destruct
  BY <1>1, <1>3 DEF BaseRDMA, UnreliableRDMA, Destruct, recorded
<1>4. CASE DestroyNext \/ LeaveBusy \/ ThrowBusy \/ DestroyNothing
  BY <1>1, <1>4 DEF DestroyNext, LeaveBusy, ThrowBusy, DestroyNothing, recorded
<1>5. CASE CreateSharedReceiveQueue
  BY <1>1, <1>5 DEF CreateSharedReceiveQueue
<1>6. ASSUME NEW id \in InitIDs, InitQP(id) \/ InitUdQP(id)
      PROVE  KeysBounded' /\ EntriesStay
  BY <1>1, <1>6 DEF InitQP, InitUdQP
<1>7. ASSUME NEW s \in DOMAIN m_srqs, NEW id \in InitIDs, InitQPForSRQ(s, id)
      PROVE  KeysBounded' /\ EntriesStay
  BY <1>1, <1>7 DEF InitQPForSRQ
<1>8. ASSUME NEW id \in ConnIDs, Accepted(id)
      PROVE  KeysBounded' /\ EntriesStay
  BY <1>1, <1>8 DEF Accepted
<1>9. ASSUME NEW id \in 0 .. Len(m_qps) - 1, ConnectQP(id) \/ ConnectUdQP(id)
      PROVE  KeysBounded' /\ EntriesStay
  BY <1>1, <1>9 DEF ConnectQP, ConnectUdQP
<1>10. CASE InitOwnQP \/ InitOwnUdQP \/ Refused \/ NoAnswer
  BY <1>1, <1>10 DEF InitOwnQP, InitOwnUdQP, Refused, NoAnswer, recorded
<1>11. CASE JoinMCastGroup
  BY <1>11, JoinKeepsKeys
<1>12. ASSUME NEW k \in DOMAIN m_udpMcastConns, LeaveMCastGroup(k)
       PROVE  KeysBounded' /\ EntriesStay
  BY <1>12, LeaveKeepsKeys
<1> QED
  BY <1>2, <1>3, <1>4, <1>5, <1>6, <1>7, <1>8, <1>9, <1>10, <1>11, <1>12 DEF QueuePairsNext

\* It holds at first.
LEMMA InitHasInvariant == QueuePairsInit => QueuePairsInvariant
<1> SUFFICES ASSUME QueuePairsInit PROVE QueuePairsInvariant
  OBVIOUS
<1> USE DEF Alive
<1>1. /\ transport \in Transports /\ phase = "unmade" /\ calls = 0 /\ faults = << >> /\ made = 0
      /\ Alive = {} /\ todo = << >>
      /\ m_res = [ib_ctx |-> nullptr, buffer |-> nullptr, pd |-> nullptr, mr |-> nullptr]
      /\ m_qps = << >> /\ m_connected = {} /\ m_srqs = << >> /\ m_udqp = NoQp
      /\ m_lastMCastConnKey = 0 /\ m_udpMcastConns = << >> /\ rts = {} /\ qp = NoQp
  BY DEF QueuePairsInit
<1>2. QueuePairsTypeOK
  <2>1. NoQp \in Pairs /\ nullptr \in Pointers
    BY DEF NoQp, Pairs, Pointers
  <2>2. m_res \in [ib_ctx : Pointers, buffer : Pointers, pd : Pointers, mr : Pointers]
    BY <1>1, <2>1
  <2>3. "unmade" \in Phases /\ 0 \in 0 .. MaxCalls
    BY QueuePairsAssumption DEF Phases
  <2> QED
    BY <1>1, <2>1, <2>2, <2>3 DEF QueuePairsTypeOK
<1>3. MembersExist /\ UsersGoFirst /\ EndsOrderly /\ ConnectedCanSend
  BY <1>1 DEF MembersExist, UsersGoFirst, EndsOrderly, ConnectedCanSend
<1>4. NothingIsShared
  BY <1>1 DEF NothingIsShared, Joined, Range
<1>5. Numbered(uses, made) /\ Early /\ Ended /\ ConnectedOK
  BY <1>1 DEF Numbered, Early, Ended, ConnectedOK
<1>6. BaseOK
  <2>1. m_res.ib_ctx.type = "null"
    BY <1>1 DEF nullptr
  <2> QED
    BY <1>1, <2>1 DEF BaseOK
<1>7. ReliableOK /\ SrqsOK /\ UnreliableOK
  BY <1>1 DEF ReliableOK, SrqsOK, UnreliableOK
<1>8. TodoOK
  BY <1>1 DEF TodoOK, UsedBetween, UsersFirst, TriedAgain
<1>9. Accounted /\ KeysBounded
  BY <1>1 DEF Accounted, KeysBounded
<1> QED
  BY <1>2, <1>3, <1>4, <1>5, <1>6, <1>7, <1>8, <1>9 DEF QueuePairsInvariant, QueuePairsInv, Core

\* And when nothing changes.
LEMMA StutterKeepsInvariant ==
    ASSUME QueuePairsInvariant, UNCHANGED queuePairsVars
    PROVE  QueuePairsInvariant'
<1> USE DEF Alive
<1>1. UNCHANGED <<transport, phase, calls, faults, uses, made, todo, m_res, m_qps, m_connected, m_srqs, m_udqp,
                  m_lastMCastConnKey, m_udpMcastConns, rts, qp>>
  BY DEF queuePairsVars, recorded
<1>2. /\ Base' = Base /\ SrqQueues' = SrqQueues /\ EntryQps' = EntryQps /\ Used' = Used
      /\ ActiveKeys' = ActiveKeys /\ \A o : Named(o)' <=> Named(o)
  BY <1>1, MembersSame DEF SameMembers
<1>3. QueuePairsInv'
  BY <1>1 DEF QueuePairsInvariant, QueuePairsInv, QueuePairsTypeOK, MembersExist, ConnectedCanSend,
              NothingIsShared, UsersGoFirst, EndsOrderly, Joined
<1>4. InTodo' = InTodo /\ (NothingLost' <=> NothingLost)
  BY <1>1 DEF InTodo, NothingLost
<1>5. Numbered(uses', made') /\ BaseOK' /\ Early' /\ Ended' /\ ConnectedOK' /\ KeysBounded'
  BY <1>1, <1>2 DEF QueuePairsInvariant, Core, BaseOK, Early, Ended, ConnectedOK, KeysBounded
<1>6. ReliableOK' /\ SrqsOK' /\ UnreliableOK'
  BY <1>1, <1>2, <1>4 DEF QueuePairsInvariant, Core, ReliableOK, SrqsOK, UnreliableOK
<1>7. TodoOK'
  BY <1>1, <1>2, <1>4 DEF QueuePairsInvariant, Core, TodoOK
<1>8. Accounted'
  <2>1. \A o : Left(o)' <=> Left(o)
    BY <1>1, <1>2, <1>4 DEF Left
  <2> QED
    BY <1>1, <1>2, <1>4, <2>1 DEF QueuePairsInvariant, Core, Accounted
<1> QED
  BY <1>3, <1>5, <1>6, <1>7, <1>8 DEF QueuePairsInvariant, Core

\* Every step keeps it.
LEMMA NextKeepsInvariant ==
    ASSUME QueuePairsInvariant, [QueuePairsNext]_queuePairsVars
    PROVE  QueuePairsInvariant'
<1>1. KeysBounded'
  BY NextKeepsKeys DEF QueuePairsInvariant, QueuePairsInv
<1>2. ASSUME QueuePairsNext PROVE Kept
  <2>1. CASE BaseRDMA
    BY <2>1, BaseRDMAKept
  <2>2. CASE UnreliableRDMA
    BY <2>2, UnreliableRDMAKept
  <2>3. CASE Destruct \/ DestroyNext \/ LeaveBusy \/ ThrowBusy \/ DestroyNothing
    BY <2>3, DestroyingKept
  <2>4. CASE CreateSharedReceiveQueue
    BY <2>4, CreateSharedReceiveQueueKept
  <2>5. ASSUME NEW id \in InitIDs, InitQP(id) PROVE Kept
    BY <2>5, InitQPKept
  <2>6. ASSUME NEW id \in InitIDs, InitUdQP(id) PROVE Kept
    BY <2>6, InitUdQPKept
  <2>7. ASSUME NEW s \in DOMAIN m_srqs, NEW id \in InitIDs, InitQPForSRQ(s, id) PROVE Kept
    BY <2>7, InitQPForSRQKept
  <2>8. ASSUME NEW id \in ConnIDs, Accepted(id) PROVE Kept
    BY <2>8, AcceptedKept
  <2>9. ASSUME NEW id \in 0 .. Len(m_qps) - 1, m_qps[id + 1] # NoQp, ConnectQP(id) PROVE Kept
    BY <2>9, ConnectQPKept
  <2>10. ASSUME NEW id \in 0 .. Len(m_qps) - 1, m_qps[id + 1] # NoQp, ConnectUdQP(id) PROVE Kept
    BY <2>10, ConnectUdQPKept
  <2>11. CASE InitOwnQP
    BY <2>11, InitOwnQPKept
  <2>12. CASE InitOwnUdQP
    BY <2>12, InitOwnUdQPKept
  <2>13. CASE Refused
    BY <2>13, RefusedKept
  <2>14. CASE NoAnswer
    BY <2>14, NoAnswerKept
  <2>15. CASE JoinMCastGroup
    BY <2>15, JoinMCastGroupKept
  <2>16. ASSUME NEW k \in DOMAIN m_udpMcastConns, LeaveMCastGroup(k) PROVE Kept
    BY <2>16, LeaveMCastGroupKept
  <2> QED
    BY <1>2, <2>1, <2>2, <2>3, <2>4, <2>5, <2>6, <2>7, <2>8, <2>9, <2>10, <2>11, <2>12, <2>13, <2>14,
       <2>15, <2>16 DEF QueuePairsNext
<1>3. CASE QueuePairsNext
  BY <1>1, <1>2, <1>3, KeptIsEnough DEF QueuePairsInvariant
<1>4. CASE UNCHANGED queuePairsVars
  BY <1>4, StutterKeepsInvariant
<1> QED
  BY <1>3, <1>4

\* The inductive invariant: each object is made of objects with smaller numbers (Numbered);
\* what the members name has its parts, and of those that are not meant to be shared
\* nothing else is made (BaseOK, ReliableOK, SrqsOK, UnreliableOK); the calls still to be
\* made come in an order in which users go first (TodoOK); and every object has a member
\* that names it, is to be destroyed, or may be left (Accounted).
THEOREM QueuePairsInvariantHolds == QueuePairsSpec => []QueuePairsInvariant
<1>1. QueuePairsInit => QueuePairsInvariant
  BY InitHasInvariant
<1>2. QueuePairsInvariant /\ [QueuePairsNext]_queuePairsVars => QueuePairsInvariant'
  BY NextKeepsInvariant
<1> QED
  BY <1>1, <1>2, PTL DEF QueuePairsSpec

\* What the members of the transports name exists and is not shared, and the destructors
\* (destroyQPs, leaveMCastGroup, ~BaseRDMA) destroy in an order in which they neither fail
\* nor pull something away.
THEOREM QueuePairsInvHolds == QueuePairsSpec => []QueuePairsInv
<1>1. QueuePairsInvariant => QueuePairsInv
  BY DEF QueuePairsInvariant
<1> QED
  BY <1>1, QueuePairsInvariantHolds, PTL

\* A life in which nothing failed leaves behind address handles with their protection
\* domain, the addresses of groups, and completion queues of unused shared receive queues:
\* everything else is destroyed by the destructors.
THEOREM NothingElseLeftHolds == QueuePairsSpec => []NothingElseLeft
<1>1. QueuePairsInvariant => NothingElseLeft
  <2> SUFFICES ASSUME QueuePairsInvariant, phase = "gone", faults = << >>, NEW o \in Alive
               PROVE  \/ o.type \in {"ah", "addrinfo"}
                      \/ o = m_res.pd /\ \E ah \in Alive : ah.type = "ah" /\ o \in uses[ah]
                      \/ /\ o \in {srq.recv_cq : srq \in Range(m_srqs)}
                         /\ \A q \in Range(m_qps) : q.recv_cq # o
    BY DEF NothingElseLeft
  <2>1. Accounted /\ Ended
    BY Parts
  <2>2. InTodo = {}
    BY <2>1 DEF Ended, InTodo
  <2>3. Left(o)
    BY <2>1, <2>2 DEF Accounted
  <2> QED
    BY <2>3 DEF Left, SrqQueues, Range
<1> QED
  BY <1>1, QueuePairsInvariantHolds, PTL

\* The key of a group stands for that group for ever (nextMCastConnKey, setMCastConn).
THEOREM KeysStayHolds == QueuePairsSpec => KeysStay
<1>1. QueuePairsInvariant /\ [QueuePairsNext]_queuePairsVars => EntriesStay
  BY NextKeepsKeys DEF QueuePairsInvariant, QueuePairsInv
<1>2. EntriesStay <=> \A k \in DOMAIN m_udpMcastConns :
          /\ k \in DOMAIN m_udpMcastConns'
          /\ m_udpMcastConns'[k] \in {m_udpMcastConns[k], inactive(m_udpMcastConns[k])}
  BY DEF EntriesStay
<1> QED
  BY <1>1, <1>2, QueuePairsInvariantHolds, PTL DEF QueuePairsSpec, KeysStay
=============================================================================
