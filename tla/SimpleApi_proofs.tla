--------------------------- MODULE SimpleApi_proofs ---------------------------
(***************************************************************************)
(* Proofs about the simple API, for every set of objects, every size of    *)
(* the ring and every bound.  The first part is about the event buffer     *)
(* alone; the second, about the API, cites it.                             *)
(***************************************************************************)
EXTENDS SimpleApi, SequenceTheorems, TLAPS

(* The event buffer. *)

\* What % is for less than twice its divisor.
LEMMA ModOnce ==
    ASSUME NEW m \in Nat \ {0}, NEW a \in Nat, a < 2 * m
    PROVE  a % m = IF a < m THEN a ELSE a - m
<1>1. CASE a < m
  BY <1>1
<1>2. CASE a >= m
  <2>1. (a - m) \in 0 .. m - 1
    BY <1>2
  <2>2. a = m * 1 + (a - m)
    OBVIOUS
  <2> QED
    BY <1>2, <2>1, <2>2
<1> QED
  BY <1>1, <1>2

-----------------------------------------------------------------------------
\* The index of the k-th oldest event, without %.
LEMMA IndexOnce ==
    ASSUME eventNextWrite \in Indices, eventsCnt \in 0 .. MaxEventSize,
           NEW k \in 0 .. eventsCnt, k < MaxEventSize
    PROVE  LET i == eventNextWrite - eventsCnt + k
           IN /\ Index(k) = IF i < 0 THEN MaxEventSize + i ELSE i
              /\ Index(k) \in Indices
<1> DEFINE a == MaxEventSize + eventNextWrite - eventsCnt + k
<1>1. MaxEventSize \in Nat \ {0} /\ eventNextWrite \in 0 .. MaxEventSize - 1
  BY RingAssumption DEF Indices
<1>2. a \in Nat /\ a < 2 * MaxEventSize
  BY <1>1
<1>3. a % MaxEventSize = IF a < MaxEventSize THEN a ELSE a - MaxEventSize
  <2> HIDE DEF a
  <2> QED
    BY <1>1, <1>2, ModOnce
<1>4. Index(k) = IF a < MaxEventSize THEN a ELSE a - MaxEventSize
  BY <1>3 DEF Index
<1> QED
  BY <1>1, <1>2, <1>4 DEF Indices

\* How old the entry at an index is: 0 for the one written last.
Age(i) == IF i < eventNextWrite THEN eventNextWrite - 1 - i
          ELSE MaxEventSize + eventNextWrite - 1 - i

\* The entries that count are those that are young enough.
LEMMA CountedByAge ==
    ASSUME eventNextWrite \in Indices, eventsCnt \in 0 .. MaxEventSize, NEW i \in Indices
    PROVE  (\E k \in 0 .. eventsCnt - 1 : i = Index(k)) <=> Age(i) < eventsCnt
<1>1. MaxEventSize \in Nat \ {0} /\ eventNextWrite \in 0 .. MaxEventSize - 1 /\ i \in 0 .. MaxEventSize - 1
  BY RingAssumption DEF Indices
<1>2. ASSUME NEW k \in 0 .. eventsCnt - 1, i = Index(k)
      PROVE  Age(i) < eventsCnt
  <2>1. k \in 0 .. eventsCnt /\ k < MaxEventSize
    BY <1>1
  <2>2. i = IF eventNextWrite - eventsCnt + k < 0
            THEN MaxEventSize + (eventNextWrite - eventsCnt + k)
            ELSE eventNextWrite - eventsCnt + k
    BY <1>2, <2>1, IndexOnce
  <2> QED
    BY <1>1, <2>2 DEF Age
<1>3. ASSUME Age(i) < eventsCnt
      PROVE  \E k \in 0 .. eventsCnt - 1 : i = Index(k)
  <2> DEFINE k == eventsCnt - 1 - Age(i)
  <2>1. k \in 0 .. eventsCnt - 1 /\ k \in 0 .. eventsCnt /\ k < MaxEventSize
    BY <1>1, <1>3 DEF Age
  <2>2. Index(k) = IF eventNextWrite - eventsCnt + k < 0
                   THEN MaxEventSize + (eventNextWrite - eventsCnt + k)
                   ELSE eventNextWrite - eventsCnt + k
    <3> HIDE DEF k
    <3> QED BY <2>1, IndexOnce
  <2>3. Index(k) = i
    BY <1>1, <2>2 DEF Age
  <2> QED
    BY <2>1, <2>3
<1> QED
  BY <1>2, <1>3

\* The ring after a write moves on by one.
LEMMA NextIndex ==
    ASSUME eventNextWrite \in Indices
    PROVE  /\ (eventNextWrite + 1) % MaxEventSize
                = IF eventNextWrite + 1 < MaxEventSize THEN eventNextWrite + 1 ELSE 0
           /\ (eventNextWrite + 1) % MaxEventSize \in Indices
<1>1. MaxEventSize \in Nat \ {0} /\ eventNextWrite \in 0 .. MaxEventSize - 1
  BY RingAssumption DEF Indices
<1> DEFINE a == eventNextWrite + 1
<1>2. a % MaxEventSize = IF a < MaxEventSize THEN a ELSE a - MaxEventSize
  <2>1. a \in Nat /\ a < 2 * MaxEventSize
    BY <1>1
  <2> HIDE DEF a
  <2> QED
    BY <1>1, <2>1, ModOnce
<1> QED
  BY <1>1, <1>2 DEF Indices
-----------------------------------------------------------------------------
\* The invariant: the three properties of the ring carry each other.
RingInv == RingTypeOK /\ ValidWhereCounted /\ NeverPopsInvalid

\* Where the events are, by age.
ValidByAge == \A i \in Indices : events[i] # Invalid <=> Age(i) < eventsCnt

LEMMA ValidIsByAge == RingTypeOK => (ValidWhereCounted <=> ValidByAge)
BY CountedByAge DEF RingTypeOK, ValidWhereCounted, ValidByAge

LEMMA RingInitInv == RingInit => RingInv
<1> SUFFICES ASSUME RingInit PROVE RingInv
  OBVIOUS
<1>1. MaxEventSize \in Nat \ {0} /\ Invalid \notin Events
  BY RingAssumption
<1>2. RingTypeOK
  BY <1>1 DEF RingInit, RingTypeOK, Indices
<1>3. ValidByAge
  BY <1>1 DEF RingInit, ValidByAge, Age, Indices
<1>4. NeverPopsInvalid
  BY RingAssumption DEF RingInit, NeverPopsInvalid
<1> QED
  BY <1>2, <1>3, <1>4, ValidIsByAge DEF RingInv

LEMMA InsertInv ==
    ASSUME RingInv, NEW e \in Events, Insert(e)
    PROVE  RingInv'
<1>1. MaxEventSize \in Nat \ {0} /\ Invalid \notin Events
  BY RingAssumption
<1>2. /\ eventNextWrite \in 0 .. MaxEventSize - 1
      /\ eventsCnt \in 0 .. MaxEventSize
      /\ eventNextWrite' = IF eventNextWrite + 1 < MaxEventSize THEN eventNextWrite + 1 ELSE 0
      /\ eventsCnt' = IF eventsCnt = MaxEventSize THEN eventsCnt ELSE eventsCnt + 1
  BY NextIndex DEF RingInv, RingTypeOK, Insert, Indices
<1>3. RingTypeOK'
  BY <1>1, <1>2 DEF RingInv, RingTypeOK, Insert, Indices
<1>4. ValidByAge
  BY ValidIsByAge DEF RingInv
<1>5. ValidByAge'
  <2> SUFFICES ASSUME NEW i \in Indices
               PROVE  events'[i] # Invalid <=> Age(i)' < eventsCnt'
    BY DEF ValidByAge
  <2>1. i \in 0 .. MaxEventSize - 1
    BY DEF Indices
  <2>2. CASE i = eventNextWrite
    <3>1. events'[i] = e
      BY <2>2 DEF RingInv, RingTypeOK, Insert
    <3>2. Age(i)' = 0 /\ eventsCnt' > 0
      BY <1>1, <1>2, <2>1, <2>2 DEF Age
    <3> QED
      BY <1>1, <3>1, <3>2
  <2>3. CASE i # eventNextWrite
    <3>1. events'[i] = events[i]
      BY <2>3 DEF RingInv, RingTypeOK, Insert
    <3>2. Age(i)' = Age(i) + 1 /\ Age(i) \in 0 .. MaxEventSize - 2
      BY <1>1, <1>2, <2>1, <2>3 DEF Age
    <3>3. Age(i) < eventsCnt <=> Age(i)' < eventsCnt'
      BY <1>1, <1>2, <3>2
    <3> QED
      BY <1>4, <3>1, <3>3 DEF ValidByAge
  <2> QED
    BY <2>2, <2>3
<1>6. ValidWhereCounted'
  <2>1. (RingTypeOK => (ValidWhereCounted <=> ValidByAge))'
    BY ValidIsByAge, PTL
  <2> QED
    BY <1>3, <1>5, <2>1
<1>7. NeverPopsInvalid'
  BY DEF RingInv, NeverPopsInvalid, Insert
<1> QED
  BY <1>3, <1>6, <1>7 DEF RingInv

LEMMA PopInv ==
    ASSUME RingInv, Pop
    PROVE  RingInv'
<1>1. MaxEventSize \in Nat \ {0} /\ Invalid \notin Events
  BY RingAssumption
<1>2. /\ eventNextWrite \in 0 .. MaxEventSize - 1
      /\ eventsCnt \in 1 .. MaxEventSize
      /\ eventNextWrite' = eventNextWrite
      /\ eventsCnt' = eventsCnt - 1
  BY DEF RingInv, RingTypeOK, Pop, Indices
<1>3. /\ Index(0) = IF eventNextWrite - eventsCnt < 0
                    THEN MaxEventSize + (eventNextWrite - eventsCnt)
                    ELSE eventNextWrite - eventsCnt
      /\ Index(0) \in Indices
  BY <1>1, <1>2, IndexOnce DEF RingInv, RingTypeOK
<1>4. events[Index(0)] \in Events
  <2>1. 0 \in 0 .. eventsCnt - 1
    BY <1>2
  <2> QED
    BY <1>3, <2>1 DEF RingInv, RingTypeOK, ValidWhereCounted
<1>5. RingTypeOK'
  BY <1>1, <1>2, <1>4 DEF RingInv, RingTypeOK, Pop, Indices
<1>6. ValidByAge
  BY ValidIsByAge DEF RingInv
<1>7. ValidByAge'
  <2> SUFFICES ASSUME NEW i \in Indices
               PROVE  events'[i] # Invalid <=> Age(i)' < eventsCnt'
    BY DEF ValidByAge
  <2>1. i \in 0 .. MaxEventSize - 1 /\ Age(i)' = Age(i) /\ Age(i) \in 0 .. MaxEventSize - 1
    BY <1>1, <1>2 DEF Indices, Age
  <2>2. Age(i) = eventsCnt - 1 <=> i = Index(0)
    BY <1>1, <1>2, <1>3, <2>1 DEF Age
  <2>3. CASE i = Index(0)
    <3>1. events'[i] = Invalid
      BY <2>3 DEF RingInv, RingTypeOK, Pop
    <3> QED
      BY <1>2, <2>1, <2>2, <2>3, <3>1
  <2>4. CASE i # Index(0)
    <3>1. events'[i] = events[i]
      BY <2>4 DEF RingInv, RingTypeOK, Pop
    <3>2. Age(i) < eventsCnt <=> Age(i)' < eventsCnt'
      BY <1>2, <2>1, <2>2, <2>4
    <3> QED
      BY <1>6, <3>1, <3>2 DEF ValidByAge
  <2> QED
    BY <2>3, <2>4
<1>8. ValidWhereCounted'
  <2>1. (RingTypeOK => (ValidWhereCounted <=> ValidByAge))'
    BY ValidIsByAge, PTL
  <2> QED
    BY <1>5, <1>7, <2>1
<1>9. NeverPopsInvalid'
  BY <1>1, <1>4 DEF NeverPopsInvalid, Pop
<1> QED
  BY <1>5, <1>8, <1>9 DEF RingInv

LEMMA RingStepInv ==
    ASSUME RingInv, [RingNext]_ringVars
    PROVE  RingInv'
<1>1. CASE UNCHANGED ringVars
  BY <1>1 DEF ringVars, RingInv, RingTypeOK, ValidWhereCounted, NeverPopsInvalid, Index
<1>2. CASE Pop
  BY <1>2, PopInv
<1>3. CASE \E e \in Events : Insert(e)
  BY <1>3, InsertInv
<1> QED
  BY <1>1, <1>2, <1>3 DEF RingNext

\* However inserts and pops of the simple API follow each other, on a ring of any
\* size, every property that the invariant joins holds.
THEOREM RingAlwaysInv == RingSpec => []RingInv
<1>1. RingInit => RingInv
  BY RingInitInv
<1>2. RingInv /\ [RingNext]_ringVars => RingInv'
  BY RingStepInv
<1> QED
  BY <1>1, <1>2, PTL DEF RingSpec

\* The pop of survive_api.c never hands out an entry that holds no event: the
\* assertion behind it cannot fail.
THEOREM RingNeverPopsInvalid == RingSpec => []NeverPopsInvalid
<1>1. RingInv => NeverPopsInvalid
  BY DEF RingInv
<1> QED
  BY <1>1, RingAlwaysInv, PTL

\* The entries of the ring of survive_api.c that hold an event are those the count
\* and the write index say.
THEOREM RingAlwaysValidWhereCounted == RingSpec => []ValidWhereCounted
<1>1. RingInv => ValidWhereCounted
  BY DEF RingInv
<1> QED
  BY <1>1, RingAlwaysInv, PTL
-----------------------------------------------------------------------------
\* What a sequence is that has lost its head, or gained a last element.
LEMMA IsTail ==
    ASSUME NEW S, NEW s \in Seq(S), NEW t \in Seq(S), s # <<>>,
           Len(t) = Len(s) - 1, \A i \in 1 .. Len(t) : t[i] = s[i + 1]
    PROVE  t = Tail(s)
BY HeadTailProperties, SeqEqual

LEMMA IsAppend ==
    ASSUME NEW S, NEW s \in Seq(S), NEW t \in Seq(S), NEW e \in S,
           Len(t) = Len(s) + 1, \A i \in 1 .. Len(s) : t[i] = s[i], t[Len(t)] = e
    PROVE  t = Append(s, e)
<1>1. /\ Append(s, e) \in Seq(S)
      /\ Len(Append(s, e)) = Len(s) + 1
      /\ \A i \in 1 .. Len(s) + 1 : Append(s, e)[i] = IF i <= Len(s) THEN s[i] ELSE e
  BY AppendProperties
<1>2. Len(s) \in Nat
  BY LenProperties
<1>3. \A i \in 1 .. Len(t) : t[i] = Append(s, e)[i]
  BY <1>1, <1>2
<1> QED
  BY <1>1, <1>3, SeqEqual

Entries == Events \cup {Invalid}

Wrapped(i) == IF i < 0 THEN MaxEventSize + i ELSE i

\* Where the events of the queue are.
ContentsByIndex ==
    /\ Contents \in Seq(Entries) /\ Len(Contents) = eventsCnt
    /\ \A k \in 0 .. eventsCnt - 1 :
         /\ Index(k) = Wrapped(eventNextWrite - eventsCnt + k)
         /\ Contents[k + 1] = events[Wrapped(eventNextWrite - eventsCnt + k)]

LEMMA ContentsAre == RingTypeOK => ContentsByIndex
<1> SUFFICES ASSUME RingTypeOK PROVE ContentsByIndex
  OBVIOUS
<1>1. /\ eventNextWrite \in Indices /\ eventsCnt \in 0 .. MaxEventSize
      /\ MaxEventSize \in Nat /\ events \in [Indices -> Entries]
  BY RingAssumption DEF RingTypeOK, Entries
<1>2. ASSUME NEW k \in 0 .. eventsCnt - 1
      PROVE  /\ Index(k) = Wrapped(eventNextWrite - eventsCnt + k)
             /\ Index(k) \in Indices
  <2>1. k \in 0 .. eventsCnt /\ k < MaxEventSize
    BY <1>1
  <2> QED
    BY <1>1, <2>1, IndexOnce DEF Wrapped
<1>3. Contents \in [1 .. eventsCnt -> Entries]
  <2>1. \A k \in 1 .. eventsCnt : k - 1 \in 0 .. eventsCnt - 1
    BY <1>1
  <2>2. \A k \in 1 .. eventsCnt : events[Index(k - 1)] \in Entries
    BY <1>1, <1>2, <2>1
  <2> QED
    BY <2>2 DEF Contents
<1>4. Contents \in Seq(Entries) /\ Len(Contents) = eventsCnt
  <2>1. eventsCnt \in Nat
    BY <1>1
  <2> HIDE DEF Contents
  <2> QED
    BY <1>3, <2>1
<1>5. ASSUME NEW k \in 0 .. eventsCnt - 1
      PROVE  Contents[k + 1] = events[Index(k)]
  <2>1. k + 1 \in 1 .. eventsCnt /\ (k + 1) - 1 = k
    BY <1>1
  <2> QED
    BY <2>1 DEF Contents
<1> QED
  BY <1>2, <1>4, <1>5 DEF ContentsByIndex

\* A pop takes the head of the queue.
LEMMA PopTakes ==
    ASSUME RingInv, Pop
    PROVE  Queue!Take
<1>1. MaxEventSize \in Nat \ {0}
  BY RingAssumption
<1>2. /\ eventNextWrite \in 0 .. MaxEventSize - 1 /\ eventsCnt \in 1 .. MaxEventSize
      /\ eventNextWrite' = eventNextWrite /\ eventsCnt' = eventsCnt - 1
      /\ events \in [Indices -> Entries]
      /\ popped' = events[Index(0)] /\ events' = [events EXCEPT ![Index(0)] = Invalid]
  BY DEF RingInv, RingTypeOK, Pop, Indices, Entries
<1>3. RingTypeOK /\ RingTypeOK'
  BY PopInv DEF RingInv
<1>4. /\ Contents \in Seq(Entries) /\ Len(Contents) = eventsCnt
      /\ \A k \in 0 .. eventsCnt - 1 : Contents[k + 1] = events[Wrapped(eventNextWrite - eventsCnt + k)]
      /\ Index(0) = Wrapped(eventNextWrite - eventsCnt)
  <2>1. ContentsByIndex
    BY <1>3, ContentsAre
  <2>2. 0 \in 0 .. eventsCnt - 1 /\ eventNextWrite - eventsCnt + 0 = eventNextWrite - eventsCnt
    BY <1>2
  <2> QED
    BY <2>1, <2>2 DEF ContentsByIndex
<1>5. /\ Contents' \in Seq(Entries) /\ Len(Contents') = eventsCnt'
      /\ \A k \in 0 .. eventsCnt' - 1 : Contents'[k + 1] = events'[Wrapped(eventNextWrite' - eventsCnt' + k)]
  <2>1. (RingTypeOK => ContentsByIndex)'
    BY ContentsAre, PTL
  <2> QED
    BY <1>3, <2>1 DEF ContentsByIndex, Wrapped
<1>6. Contents # <<>> /\ Head(Contents) = Contents[1]
  BY <1>2, <1>4
<1>7. popped' = Head(Contents)
  <2>1. 0 \in 0 .. eventsCnt - 1 /\ 0 + 1 = 1 /\ eventNextWrite - eventsCnt + 0 = eventNextWrite - eventsCnt
    BY <1>2
  <2>2. Contents[1] = events[Wrapped(eventNextWrite - eventsCnt)]
    BY <1>4, <2>1
  <2> QED
    BY <1>2, <1>4, <1>6, <2>2
<1>8. ASSUME NEW i \in 1 .. Len(Contents')
      PROVE  Contents'[i] = Contents[i + 1]
  <2>1. i - 1 \in 0 .. eventsCnt' - 1 /\ i \in 0 .. eventsCnt - 1 /\ (i - 1) + 1 = i
    BY <1>2, <1>5
  <2>2. Contents'[i] = events'[Wrapped(eventNextWrite' - eventsCnt' + (i - 1))]
    BY <1>5, <2>1
  <2>3. /\ Wrapped(eventNextWrite' - eventsCnt' + (i - 1)) = Wrapped(eventNextWrite - eventsCnt + i)
        /\ Wrapped(eventNextWrite - eventsCnt + i) # Wrapped(eventNextWrite - eventsCnt)
        /\ Wrapped(eventNextWrite - eventsCnt + i) \in Indices
    BY <1>1, <1>2, <2>1 DEF Indices, Wrapped
  <2>4. events'[Wrapped(eventNextWrite - eventsCnt + i)] = events[Wrapped(eventNextWrite - eventsCnt + i)]
    BY <1>2, <1>4, <2>3
  <2> QED
    BY <1>4, <2>1, <2>2, <2>3, <2>4
<1>9. Contents' = Tail(Contents)
  <2>1. Len(Contents') = Len(Contents) - 1
    BY <1>2, <1>4, <1>5
  <2> QED
    BY <1>4, <1>5, <1>6, <1>8, <2>1, IsTail
<1> QED
  BY <1>6, <1>7, <1>9 DEF Queue!Take

\* An insert puts its event behind the others; on a full ring the oldest gives way.
LEMMA InsertPuts ==
    ASSUME RingInv, NEW e \in Events, Insert(e)
    PROVE  Queue!Put(e) \/ Queue!Displace(e)
<1>1. MaxEventSize \in Nat \ {0}
  BY RingAssumption
<1>2. /\ eventNextWrite \in 0 .. MaxEventSize - 1 /\ eventsCnt \in 0 .. MaxEventSize
      /\ eventNextWrite' = IF eventNextWrite + 1 < MaxEventSize THEN eventNextWrite + 1 ELSE 0
      /\ eventsCnt' = IF eventsCnt = MaxEventSize THEN eventsCnt ELSE eventsCnt + 1
      /\ events \in [Indices -> Entries] /\ e \in Entries
      /\ events' = [events EXCEPT ![eventNextWrite] = e] /\ popped' = popped
  BY NextIndex DEF RingInv, RingTypeOK, Insert, Indices, Entries
<1>3. RingTypeOK /\ RingTypeOK'
  BY InsertInv DEF RingInv
<1>4. /\ Contents \in Seq(Entries) /\ Len(Contents) = eventsCnt
      /\ \A k \in 0 .. eventsCnt - 1 : Contents[k + 1] = events[Wrapped(eventNextWrite - eventsCnt + k)]
  BY <1>3, ContentsAre DEF ContentsByIndex
<1>5. /\ Contents' \in Seq(Entries) /\ Len(Contents') = eventsCnt'
      /\ \A k \in 0 .. eventsCnt' - 1 : Contents'[k + 1] = events'[Wrapped(eventNextWrite' - eventsCnt' + k)]
  <2>1. (RingTypeOK => ContentsByIndex)'
    BY ContentsAre, PTL
  <2> QED
    BY <1>3, <2>1 DEF ContentsByIndex, Wrapped
\* The newest event is the last of the queue.
<1>6. Contents'[Len(Contents')] = e
  <2>1. /\ eventsCnt' - 1 \in 0 .. eventsCnt' - 1 /\ (eventsCnt' - 1) + 1 = eventsCnt'
        /\ Wrapped(eventNextWrite' - eventsCnt' + (eventsCnt' - 1)) = eventNextWrite
        /\ eventNextWrite \in Indices
    BY <1>1, <1>2 DEF Wrapped, Indices
  <2>2. Contents'[eventsCnt'] = events'[eventNextWrite]
    BY <1>5, <2>1
  <2> QED
    BY <1>2, <1>5, <2>1, <2>2
\* An older event stays where it is.
<1>7. ASSUME NEW j \in 0 .. eventsCnt - 1, NEW i \in 0 .. eventsCnt' - 1,
             Wrapped(eventNextWrite' - eventsCnt' + i) = Wrapped(eventNextWrite - eventsCnt + j),
             Wrapped(eventNextWrite - eventsCnt + j) # eventNextWrite
      PROVE  Contents'[i + 1] = Contents[j + 1]
  BY <1>2, <1>4, <1>5, <1>7
<1>8. CASE eventsCnt < MaxEventSize
  <2>1. Len(Contents') = Len(Contents) + 1
    BY <1>2, <1>4, <1>5, <1>8
  <2>2. ASSUME NEW i \in 1 .. Len(Contents)
        PROVE  Contents'[i] = Contents[i]
    <3>1. /\ i - 1 \in 0 .. eventsCnt - 1 /\ i - 1 \in 0 .. eventsCnt' - 1 /\ (i - 1) + 1 = i
          /\ Wrapped(eventNextWrite' - eventsCnt' + (i - 1)) = Wrapped(eventNextWrite - eventsCnt + (i - 1))
          /\ Wrapped(eventNextWrite - eventsCnt + (i - 1)) # eventNextWrite
      BY <1>1, <1>2, <1>4, <1>8 DEF Wrapped
    <3>2. Contents'[(i - 1) + 1] = Contents[(i - 1) + 1]
      BY <1>7, <3>1
    <3> QED
      BY <3>1, <3>2
  <2>3. Contents' = Append(Contents, e)
    BY <1>2, <1>4, <1>5, <1>6, <2>1, <2>2, IsAppend
  <2> QED
    BY <1>2, <1>4, <1>8, <2>3 DEF Queue!Put
<1>9. CASE eventsCnt = MaxEventSize
  <2>1. Contents # <<>> /\ Tail(Contents) \in Seq(Entries) /\ Len(Tail(Contents)) = eventsCnt - 1
    BY <1>1, <1>4, <1>9, HeadTailProperties
  <2>2. Len(Contents') = Len(Tail(Contents)) + 1
    BY <1>2, <1>5, <1>9, <2>1
  <2>3. ASSUME NEW i \in 1 .. Len(Tail(Contents))
        PROVE  Contents'[i] = Tail(Contents)[i]
    <3>1. /\ i \in 0 .. eventsCnt - 1 /\ i - 1 \in 0 .. eventsCnt' - 1 /\ (i - 1) + 1 = i
          /\ Wrapped(eventNextWrite' - eventsCnt' + (i - 1)) = Wrapped(eventNextWrite - eventsCnt + i)
          /\ Wrapped(eventNextWrite - eventsCnt + i) # eventNextWrite
      BY <1>1, <1>2, <1>9, <2>1 DEF Wrapped
    <3>2. Contents'[(i - 1) + 1] = Contents[i + 1]
      BY <1>7, <3>1
    <3>3. Tail(Contents)[i] = Contents[i + 1]
      BY <1>4, <2>1, HeadTailProperties
    <3> QED
      BY <3>1, <3>2, <3>3
  <2>4. Contents' = Append(Tail(Contents), e)
    BY <1>2, <1>5, <1>6, <2>1, <2>2, <2>3, IsAppend
  <2> QED
    BY <1>2, <1>4, <1>9, <2>4 DEF Queue!Displace
<1>10. eventsCnt < MaxEventSize \/ eventsCnt = MaxEventSize
  BY <1>1, <1>2
<1> QED
  BY <1>8, <1>9, <1>10

LEMMA RingStepQueue ==
    ASSUME RingInv, [RingNext]_ringVars
    PROVE  [Queue!Next]_(Queue!fifoVars)
<1>1. CASE UNCHANGED ringVars
  BY <1>1 DEF ringVars, Queue!fifoVars, Contents, Index
<1>2. CASE Pop
  BY <1>2, PopTakes DEF Queue!Next
<1>3. CASE \E e \in Events : Insert(e)
  BY <1>3, InsertPuts DEF Queue!Next
<1> QED
  BY <1>1, <1>2, <1>3 DEF RingNext

\* The ring of survive_api.c is a bounded queue, whatever its size: the application
\* gets the events in the order of their insertion, each at most once, and a full
\* ring gives up its oldest.
THEOREM RingIsAQueue == RingSpec => IsAQueue
<1>1. RingInv /\ [RingNext]_ringVars => [Queue!Next]_(Queue!fifoVars)
  BY RingStepQueue
<1>2. IsAQueue <=> [][Queue!Next]_(Queue!fifoVars)
  BY DEF IsAQueue
<1> QED
  BY <1>1, <1>2, RingAlwaysInv, PTL DEF RingSpec
-----------------------------------------------------------------------------
(* The API. *)

(* The inductive invariant.  TypeOK and NoUpdateIsLost are not inductive: the *)
(* parts below say where a hook and the application can be together.         *)

\* A hook under way is about an object, after the announcement about one in the
\* list; its pose is still to be counted only in external_pose_fn.
HookSound ==
    /\ hook.at # "idle" => hook.object \in Objects
    /\ hook.at \in {"announce", "flag", "pose"} => Listed(hook.object)
    /\ hook.at = "announce" => inserted < MaxInserted
    /\ hook.at = "located" /\ ~Listed(hook.object) => inserted < MaxInserted
    /\ hook.at = "pose" => pose[hook.object] < MaxPoses

\* external_pose_fn raises the flag first: the application may clear it before
\* the pose is there, and then reads the pose only after the hook.
FlagBeforePose ==
    hook.at = "pose" =>
        \/ hasUpdate[hook.object]
        \/ app.at = "pose" /\ objects[app.next] = hook.object

\* The application is at an object of the list.
CursorSound ==
    /\ app.at = "scan" => app.next >= 1
    /\ app.at \in {"clear", "pose"} => app.next \in 1 .. Len(objects)

UpdatesListed == \A o \in Objects : hasUpdate[o] => Listed(o)

\* No hook runs after the thread, and only the thread or the close stop it.
EndedSound ==
    /\ thread = "ended" => hook.at = "idle" /\ ~running
    /\ ~running => thread = "ended" \/ app.at \in {"join", "closed"}
    /\ app.at = "shutdown" => ~running

\* What the application has looked at since its last pop is still as it was.
Looked ==
    ~late /\ app.at \in {"scan", "running", "shutdown"} =>
        /\ eventsCnt = 0
        /\ \A i \in 1 .. Len(objects) :
             (app.at = "scan" => i < app.next) =>
                ~hasUpdate[objects[i]] \/ (hook.at = "pose" /\ hook.object = objects[i])

\* The parts of the invariant that are not about the ring.
Kept ==
    /\ ApiTypeOK
    /\ HookSound /\ FlagBeforePose /\ CursorSound /\ UpdatesListed /\ EndedSound
    /\ NoUpdateIsLost /\ Looked

ApiInv == RingInv /\ Kept
-----------------------------------------------------------------------------
(* The list of objects. *)

LEMMA ListFacts ==
    ASSUME ApiTypeOK
    PROVE  Len(objects) \in Nat /\ DOMAIN objects = 1 .. Len(objects)
BY DEF ApiTypeOK

\* An object that is appended is listed, at the end, and nothing else changes.
LEMMA ListGrows ==
    ASSUME ApiTypeOK, NEW o \in Objects, objects' = Append(objects, o)
    PROVE  /\ objects' \in Seq(Objects) /\ Len(objects') = Len(objects) + 1
           /\ \A i \in 1 .. Len(objects) : objects'[i] = objects[i]
           /\ objects'[Len(objects')] = o
           /\ \A p \in Objects : Listed(p)' <=> Listed(p) \/ p = o
<1>1. /\ objects \in Seq(Objects) /\ Len(objects) \in Nat
      /\ DOMAIN objects = 1 .. Len(objects)
  BY ListFacts DEF ApiTypeOK
<1>2. /\ objects' \in Seq(Objects) /\ Len(objects') = Len(objects) + 1
      /\ \A i \in 1 .. Len(objects) : objects'[i] = objects[i]
      /\ objects'[Len(objects) + 1] = o
  BY <1>1, AppendProperties
<1>3. DOMAIN objects' = 1 .. Len(objects) + 1
  BY <1>1, <1>2
<1> QED
  BY <1>1, <1>2, <1>3 DEF Listed

LEMMA StaysInjective ==
    ASSUME ApiTypeOK, NEW o \in Objects, ~Listed(o), objects' = Append(objects, o)
    PROVE  IsInjective(objects')
<1>1. /\ Len(objects) \in Nat /\ DOMAIN objects = 1 .. Len(objects)
      /\ Len(objects') = Len(objects) + 1 /\ DOMAIN objects' = 1 .. Len(objects')
      /\ \A i \in 1 .. Len(objects) : objects'[i] = objects[i]
      /\ objects'[Len(objects')] = o
  BY ListFacts, ListGrows
<1> QED
  BY <1>1 DEF ApiTypeOK, IsInjective, Listed
-----------------------------------------------------------------------------
(* Each step keeps the invariant. *)

LEMMA NewObjectKeeps ==
    ASSUME ApiInv, NEW o \in Objects, NewObject(o)
    PROVE  Kept'
<1> USE ApiAssumption DEF ApiInv, Kept, NewObject, Starts, HookAt, HookOnly, ringVars
<1>a. /\ objects' \in Seq(Objects) /\ Len(objects') = Len(objects) + 1
      /\ \A i \in 1 .. Len(objects) : objects'[i] = objects[i]
      /\ objects'[Len(objects')] = o
      /\ \A p \in Objects : Listed(p)' <=> Listed(p) \/ p = o
  BY ListGrows
<1>b. Len(objects) \in Nat
  BY ListFacts
<1>1. ApiTypeOK'
  BY <1>a, <1>b, StaysInjective DEF ApiTypeOK
<1>2. HookSound'
  BY <1>a DEF HookSound, ApiTypeOK
<1>3. FlagBeforePose'
  BY DEF FlagBeforePose
<1>4. CursorSound'
  BY DEF CursorSound, ApiTypeOK
<1>5. UpdatesListed'
  BY <1>a DEF UpdatesListed
<1>6. EndedSound'
  BY DEF EndedSound
<1>7. NoUpdateIsLost'
  BY DEF NoUpdateIsLost, ApiTypeOK, CursorSound
<1>8. Looked'
  BY <1>a, <1>b DEF Looked, ApiTypeOK, UpdatesListed
<1> QED
  BY <1>1, <1>2, <1>3, <1>4, <1>5, <1>6, <1>7, <1>8 DEF Kept

LEMMA AnnounceObjectKeeps ==
    ASSUME ApiInv, AnnounceObject
    PROVE  Kept'
<1> USE ApiAssumption
    DEF ApiInv, Kept, AnnounceObject, HookAt, HookOnly, NoHook, Wrote, InsertEvent, Insert,
        ringVars
<1>1. ApiTypeOK'
  BY DEF ApiTypeOK, IsInjective
<1>2. HookSound'
  BY DEF HookSound, ApiTypeOK
<1>3. FlagBeforePose'
  BY DEF FlagBeforePose
<1>4. CursorSound'
  BY DEF CursorSound, ApiTypeOK
<1>5. UpdatesListed'
  BY DEF UpdatesListed, ApiTypeOK, CursorSound, Listed, Objects
<1>6. EndedSound'
  BY DEF EndedSound
<1>7. NoUpdateIsLost'
  BY DEF NoUpdateIsLost, ApiTypeOK
<1>8. Looked'
  BY DEF Looked
<1> QED
  BY <1>1, <1>2, <1>3, <1>4, <1>5, <1>6, <1>7, <1>8 DEF Kept

LEMMA ConfigKeeps ==
    ASSUME ApiInv, NEW o \in Objects, Config(o)
    PROVE  Kept'
<1> USE ApiAssumption
    DEF ApiInv, Kept, Config, Starts, HookAt, HookOnly, Wrote, InsertEvent, Insert, ringVars
<1>1. ApiTypeOK'
  BY DEF ApiTypeOK, IsInjective
<1>2. HookSound'
  BY DEF HookSound, ApiTypeOK
<1>3. FlagBeforePose'
  BY DEF FlagBeforePose
<1>4. CursorSound'
  BY DEF CursorSound, ApiTypeOK
<1>5. UpdatesListed'
  BY DEF UpdatesListed, ApiTypeOK, CursorSound, Listed, Objects
<1>6. EndedSound'
  BY DEF EndedSound
<1>7. NoUpdateIsLost'
  BY DEF NoUpdateIsLost, ApiTypeOK
<1>8. Looked'
  BY DEF Looked
<1> QED
  BY <1>1, <1>2, <1>3, <1>4, <1>5, <1>6, <1>7, <1>8 DEF Kept

LEMMA ButtonKeeps ==
    ASSUME ApiInv, NEW o \in Objects, Button(o)
    PROVE  Kept'
<1> USE ApiAssumption
    DEF ApiInv, Kept, Button, Starts, HookAt, HookOnly, Wrote, InsertEvent, Insert, ringVars
<1>1. ApiTypeOK'
  BY DEF ApiTypeOK, IsInjective
<1>2. HookSound'
  BY DEF HookSound, ApiTypeOK
<1>3. FlagBeforePose'
  BY DEF FlagBeforePose
<1>4. CursorSound'
  BY DEF CursorSound, ApiTypeOK
<1>5. UpdatesListed'
  BY DEF UpdatesListed, ApiTypeOK, CursorSound, Listed, Objects
<1>6. EndedSound'
  BY DEF EndedSound
<1>7. NoUpdateIsLost'
  BY DEF NoUpdateIsLost, ApiTypeOK
<1>8. Looked'
  BY DEF Looked
<1> QED
  BY <1>1, <1>2, <1>3, <1>4, <1>5, <1>6, <1>7, <1>8 DEF Kept

LEMMA TrackedPoseKeeps ==
    ASSUME ApiInv, NEW o \in Objects, TrackedPose(o)
    PROVE  Kept'
<1> USE ApiAssumption DEF ApiInv, Kept, TrackedPose, Starts, HookAt, HookOnly, Wrote, ringVars
<1>1. ApiTypeOK'
  BY DEF ApiTypeOK, IsInjective
<1>2. HookSound'
  BY DEF HookSound, ApiTypeOK, Listed, Objects
<1>3. FlagBeforePose'
  BY DEF FlagBeforePose
<1>4. CursorSound'
  BY DEF CursorSound, ApiTypeOK
<1>5. UpdatesListed'
  BY DEF UpdatesListed, ApiTypeOK, CursorSound, Listed, Objects
<1>6. EndedSound'
  BY DEF EndedSound
<1>7. NoUpdateIsLost'
  BY DEF NoUpdateIsLost, ApiTypeOK
<1>8. Looked'
  BY DEF Looked
<1> QED
  BY <1>1, <1>2, <1>3, <1>4, <1>5, <1>6, <1>7, <1>8 DEF Kept

LEMMA LighthousePoseKeeps ==
    ASSUME ApiInv, NEW o \in Objects, LighthousePose(o)
    PROVE  Kept'
<1> USE ApiAssumption
    DEF ApiInv, Kept, LighthousePose, Starts, HookAt, HookOnly, Wrote, ringVars
<1>1. ApiTypeOK'
  BY DEF ApiTypeOK, IsInjective
<1>2. HookSound'
  BY DEF HookSound, ApiTypeOK, Listed, Objects
<1>3. FlagBeforePose'
  BY DEF FlagBeforePose
<1>4. CursorSound'
  BY DEF CursorSound, ApiTypeOK
<1>5. UpdatesListed'
  BY DEF UpdatesListed, ApiTypeOK, CursorSound, Listed, Objects
<1>6. EndedSound'
  BY DEF EndedSound
<1>7. NoUpdateIsLost'
  BY DEF NoUpdateIsLost, ApiTypeOK
<1>8. Looked'
  BY DEF Looked
<1> QED
  BY <1>1, <1>2, <1>3, <1>4, <1>5, <1>6, <1>7, <1>8 DEF Kept

LEMMA EnterLighthouseKeeps ==
    ASSUME ApiInv, EnterLighthouse
    PROVE  Kept'
<1> USE ApiAssumption
    DEF ApiInv, Kept, EnterLighthouse, Starts, HookAt, HookOnly, Wrote, InsertEvent,
        Insert, ringVars
<1>a. Len(objects) \in Nat /\ hook.object \in Objects
  BY ListFacts DEF HookSound
<1>b. CASE Listed(hook.object) /\ objects' = objects
  <2>1. \A p \in Objects : Listed(p)' <=> Listed(p)
    BY <1>b DEF Listed
  <2>2. ApiTypeOK'
    BY <1>a, <1>b, <2>1 DEF ApiTypeOK, HookSound, IsInjective
  <2>3. HookSound'
    BY <1>a, <1>b, <2>1 DEF HookSound, ApiTypeOK
  <2>4. FlagBeforePose'
    BY <1>a, <1>b, <2>1 DEF FlagBeforePose, ApiTypeOK, HookSound, CursorSound
  <2>5. CursorSound'
    BY <1>a, <1>b, <2>1 DEF CursorSound, ApiTypeOK
  <2>6. UpdatesListed'
    BY <1>a, <1>b, <2>1 DEF UpdatesListed, ApiTypeOK, HookSound, CursorSound
  <2>7. EndedSound'
    BY <1>a, <1>b, <2>1 DEF EndedSound, ApiTypeOK
  <2>8. NoUpdateIsLost'
    BY <1>a, <1>b, <2>1
    DEF NoUpdateIsLost, ApiTypeOK, HookSound, FlagBeforePose, CursorSound, UpdatesListed
  <2>9. Looked'
    BY <1>a, <1>b, <2>1
    DEF Looked, ApiTypeOK, HookSound, CursorSound, UpdatesListed, RingInv, RingTypeOK
  <2> QED
    BY <2>2, <2>3, <2>4, <2>5, <2>6, <2>7, <2>8, <2>9 DEF Kept
<1>c. CASE ~Listed(hook.object) /\ objects' = Append(objects, hook.object)
  <2>1. /\ objects' \in Seq(Objects) /\ Len(objects') = Len(objects) + 1
        /\ \A i \in 1 .. Len(objects) : objects'[i] = objects[i]
        /\ objects'[Len(objects')] = hook.object
        /\ \A p \in Objects : Listed(p)' <=> Listed(p) \/ p = hook.object
    BY <1>a, <1>c, ListGrows
  <2>2. ApiTypeOK'
    <3>1. IsInjective(objects')
      BY <1>a, <1>c, StaysInjective
    <3>2. inserted' \in 0 .. MaxInserted
      BY <1>c DEF ApiTypeOK
    <3>3. hasUpdate' \in [Objects -> BOOLEAN]
      BY <1>c DEF ApiTypeOK
    <3>4. late' \in BOOLEAN
      BY <1>c
    <3>5. hook'.at = "flag" /\ hook' \in [at : {"idle", "announce", "located", "flag", "pose"},
                                        object : Objects \cup {"none"}]
      BY DEF ApiTypeOK
    <3>6. app' \in [at : {"pop", "scan", "clear", "pose", "running", "shutdown", "join", "closed"},
                    next : 0 .. Len(objects') + 1]
      BY <1>a, <2>1 DEF ApiTypeOK
    <3> QED
      BY <1>a, <2>1, <3>1, <3>2, <3>3, <3>4, <3>5, <3>6 DEF ApiTypeOK
  <2>3. HookSound'
    BY <1>a, <1>c, <2>1 DEF HookSound, ApiTypeOK
  <2>4. FlagBeforePose'
    BY <1>a, <1>c, <2>1 DEF FlagBeforePose, ApiTypeOK, HookSound, CursorSound
  <2>5. CursorSound'
    BY <1>a, <1>c, <2>1 DEF CursorSound, ApiTypeOK
  <2>6. UpdatesListed'
    BY <1>a, <1>c, <2>1 DEF UpdatesListed, ApiTypeOK, HookSound, CursorSound
  <2>7. EndedSound'
    BY <1>a, <1>c, <2>1 DEF EndedSound, ApiTypeOK
  <2>8. NoUpdateIsLost'
    BY <1>a, <1>c, <2>1
    DEF NoUpdateIsLost, ApiTypeOK, HookSound, FlagBeforePose, CursorSound, UpdatesListed
  <2>9. Looked'
    BY <1>a, <1>c, <2>1
    DEF Looked, ApiTypeOK, HookSound, CursorSound, UpdatesListed, RingInv, RingTypeOK
  <2> QED
    BY <2>2, <2>3, <2>4, <2>5, <2>6, <2>7, <2>8, <2>9 DEF Kept
<1> QED
  BY <1>b, <1>c

LEMMA RaiseFlagKeeps ==
    ASSUME ApiInv, RaiseFlag
    PROVE  Kept'
<1> USE ApiAssumption DEF ApiInv, Kept, RaiseFlag, HookAt, HookOnly, NoHook, Wrote, ringVars
<1>1. ApiTypeOK'
  BY DEF ApiTypeOK, IsInjective
<1>2. HookSound'
  BY DEF HookSound, ApiTypeOK
<1>3. FlagBeforePose'
  BY DEF FlagBeforePose
<1>4. CursorSound'
  BY DEF CursorSound, ApiTypeOK
<1>5. UpdatesListed'
  BY DEF UpdatesListed, ApiTypeOK, HookSound, CursorSound, Listed, Objects
<1>6. EndedSound'
  BY DEF EndedSound
<1>7. NoUpdateIsLost'
  BY DEF NoUpdateIsLost, ApiTypeOK
<1>8. Looked'
  BY DEF Looked
<1> QED
  BY <1>1, <1>2, <1>3, <1>4, <1>5, <1>6, <1>7, <1>8 DEF Kept

LEMMA ExternalKeeps ==
    ASSUME ApiInv, NEW o \in Objects, External(o)
    PROVE  Kept'
<1> USE ApiAssumption DEF ApiInv, Kept, External, Starts, HookAt, HookOnly, ringVars
<1>a. Len(objects) \in Nat
  BY ListFacts
<1>b. CASE Listed(o) /\ objects' = objects
  <2>1. \A p \in Objects : Listed(p)' <=> Listed(p)
    BY <1>b DEF Listed
  <2>2. ApiTypeOK'
    BY <1>a, <1>b, <2>1 DEF ApiTypeOK, HookSound, IsInjective
  <2>3. HookSound'
    BY <1>a, <1>b, <2>1 DEF HookSound, ApiTypeOK
  <2>4. FlagBeforePose'
    BY <1>a, <1>b, <2>1 DEF FlagBeforePose, ApiTypeOK, HookSound, CursorSound
  <2>5. CursorSound'
    BY <1>a, <1>b, <2>1 DEF CursorSound, ApiTypeOK
  <2>6. UpdatesListed'
    BY <1>a, <1>b, <2>1 DEF UpdatesListed, ApiTypeOK, HookSound, CursorSound
  <2>7. EndedSound'
    BY <1>a, <1>b, <2>1 DEF EndedSound, ApiTypeOK
  <2>8. NoUpdateIsLost'
    BY <1>a, <1>b, <2>1
    DEF NoUpdateIsLost, ApiTypeOK, HookSound, FlagBeforePose, CursorSound, UpdatesListed
  <2>9. Looked'
    <3>1. \A p \in Objects : hasUpdate'[p] => hasUpdate[p] \/ p = hook'.object
      BY DEF ApiTypeOK
    <3>2. \A i \in 1 .. Len(objects) : objects[i] \in Objects
      BY DEF ApiTypeOK
    <3> QED
      BY <1>b, <3>1, <3>2 DEF Looked
  <2> QED
    BY <2>2, <2>3, <2>4, <2>5, <2>6, <2>7, <2>8, <2>9 DEF Kept
<1>c. CASE ~Listed(o) /\ objects' = Append(objects, o)
  <2>1. /\ objects' \in Seq(Objects) /\ Len(objects') = Len(objects) + 1
        /\ \A i \in 1 .. Len(objects) : objects'[i] = objects[i]
        /\ objects'[Len(objects')] = o
        /\ \A p \in Objects : Listed(p)' <=> Listed(p) \/ p = o
    BY <1>c, ListGrows
  <2>2. ApiTypeOK'
    BY <1>a, <1>c, <2>1, StaysInjective DEF ApiTypeOK, HookSound
  <2>3. HookSound'
    BY <1>a, <1>c, <2>1 DEF HookSound, ApiTypeOK
  <2>4. FlagBeforePose'
    BY <1>a, <1>c, <2>1 DEF FlagBeforePose, ApiTypeOK, HookSound, CursorSound
  <2>5. CursorSound'
    BY <1>a, <1>c, <2>1 DEF CursorSound, ApiTypeOK
  <2>6. UpdatesListed'
    BY <1>a, <1>c, <2>1 DEF UpdatesListed, ApiTypeOK, HookSound, CursorSound
  <2>7. EndedSound'
    BY <1>a, <1>c, <2>1 DEF EndedSound, ApiTypeOK
  <2>8. NoUpdateIsLost'
    BY <1>a, <1>c, <2>1
    DEF NoUpdateIsLost, ApiTypeOK, HookSound, FlagBeforePose, CursorSound, UpdatesListed
  <2>9. Looked'
    <3>1. \A p \in Objects : hasUpdate'[p] => hasUpdate[p] \/ p = hook'.object
      BY DEF ApiTypeOK
    <3>2. \A i \in 1 .. Len(objects) : objects[i] \in Objects
      BY DEF ApiTypeOK
    <3>3. \A i \in 1 .. Len(objects') : i \in 1 .. Len(objects) \/ objects'[i] = hook'.object
      BY <1>a, <2>1
    <3> QED
      BY <2>1, <3>1, <3>2, <3>3 DEF Looked
  <2> QED
    BY <2>2, <2>3, <2>4, <2>5, <2>6, <2>7, <2>8, <2>9 DEF Kept
<1> QED
  BY <1>b, <1>c

LEMMA ExternalPoseKeeps ==
    ASSUME ApiInv, ExternalPose
    PROVE  Kept'
<1> USE ApiAssumption DEF ApiInv, Kept, ExternalPose, HookAt, HookOnly, NoHook, Wrote, ringVars
<1>1. ApiTypeOK'
  BY DEF ApiTypeOK, HookSound, IsInjective
<1>2. HookSound'
  BY DEF HookSound, ApiTypeOK
<1>3. FlagBeforePose'
  BY DEF FlagBeforePose
<1>4. CursorSound'
  BY DEF CursorSound, ApiTypeOK
<1>5. UpdatesListed'
  BY DEF UpdatesListed, ApiTypeOK, CursorSound, Listed, Objects
<1>6. EndedSound'
  BY DEF EndedSound
<1>7. NoUpdateIsLost'
  BY DEF NoUpdateIsLost, ApiTypeOK, FlagBeforePose, CursorSound, UpdatesListed
<1>8. Looked'
  BY DEF Looked
<1> QED
  BY <1>1, <1>2, <1>3, <1>4, <1>5, <1>6, <1>7, <1>8 DEF Kept

LEMMA ThreadEndsKeeps ==
    ASSUME ApiInv, ThreadEnds
    PROVE  Kept'
<1> USE ApiAssumption DEF ApiInv, Kept, ThreadEnds, HookAt, ringVars
<1>1. ApiTypeOK'
  BY DEF ApiTypeOK, IsInjective
<1>2. HookSound'
  BY DEF HookSound, ApiTypeOK
<1>3. FlagBeforePose'
  BY DEF FlagBeforePose
<1>4. CursorSound'
  BY DEF CursorSound, ApiTypeOK
<1>5. UpdatesListed'
  BY DEF UpdatesListed, ApiTypeOK, CursorSound, Listed, Objects
<1>6. EndedSound'
  BY DEF EndedSound
<1>7. NoUpdateIsLost'
  BY DEF NoUpdateIsLost, ApiTypeOK
<1>8. Looked'
  BY DEF Looked
<1> QED
  BY <1>1, <1>2, <1>3, <1>4, <1>5, <1>6, <1>7, <1>8 DEF Kept

LEMMA PopEventKeeps ==
    ASSUME ApiInv, PopEvent
    PROVE  Kept'
<1> USE ApiAssumption DEF ApiInv, Kept, PopEvent, AppAt, AppOnly, Pop, ringVars
<1>a. Len(objects) \in Nat
  BY ListFacts
<1>1. ApiTypeOK'
  <2>1. app' \in [at : {"pop", "scan", "clear", "pose", "running", "shutdown", "join", "closed"},
                  next : 0 .. Len(objects') + 1]
    <3>1. CASE UNCHANGED app
      BY <3>1 DEF ApiTypeOK
    <3>2. CASE app' = [at |-> "scan", next |-> 1]
      BY <1>a, <3>2 DEF ApiTypeOK
    <3> QED
      BY <3>1, <3>2
  <2> QED
    BY <2>1 DEF ApiTypeOK, IsInjective
<1>2. HookSound'
  BY DEF HookSound, ApiTypeOK, Listed, Objects
<1>3. FlagBeforePose'
  BY DEF FlagBeforePose
<1>4. CursorSound'
  BY DEF CursorSound, ApiTypeOK
<1>5. UpdatesListed'
  BY DEF UpdatesListed, ApiTypeOK, CursorSound, Listed, Objects
<1>6. EndedSound'
  BY DEF EndedSound
<1>7. NoUpdateIsLost'
  BY DEF NoUpdateIsLost, ApiTypeOK
<1>8. Looked'
  BY DEF Looked
<1> QED
  BY <1>1, <1>2, <1>3, <1>4, <1>5, <1>6, <1>7, <1>8 DEF Kept

LEMMA ScanKeeps ==
    ASSUME ApiInv, Scan
    PROVE  Kept'
<1> USE ApiAssumption DEF ApiInv, Kept, Scan, AppAt, AppGoes, AppOnly, ringVars
<1>a. Len(objects) \in Nat /\ app.next \in Nat
  BY ListFacts DEF ApiTypeOK
<1>1. ApiTypeOK'
  BY DEF ApiTypeOK, IsInjective
<1>2. HookSound'
  BY DEF HookSound, ApiTypeOK, Listed, Objects
<1>3. FlagBeforePose'
  BY DEF FlagBeforePose
<1>4. CursorSound'
  <2>1. CASE app.next > Len(objects) /\ AppGoes("running")
    BY <1>a, <2>1 DEF CursorSound, ApiTypeOK
  <2>2. CASE app.next <= Len(objects) /\ hasUpdate[objects[app.next]] /\ AppGoes("clear")
    BY <1>a, <2>2 DEF CursorSound, ApiTypeOK
  <2>3. CASE /\ app.next <= Len(objects) /\ ~hasUpdate[objects[app.next]]
             /\ app' = [app EXCEPT !.next = @ + 1]
    <3>1. app'.at = "scan" /\ app'.next = app.next + 1 /\ app.next >= 1
      BY <2>3 DEF CursorSound, ApiTypeOK
    <3> QED
      BY <1>a, <3>1 DEF CursorSound
  <2> QED
    BY <2>1, <2>2, <2>3
<1>5. UpdatesListed'
  BY DEF UpdatesListed, ApiTypeOK, CursorSound, Listed, Objects
<1>6. EndedSound'
  BY DEF EndedSound, ApiTypeOK
<1>7. NoUpdateIsLost'
  BY DEF NoUpdateIsLost, ApiTypeOK
<1>8. Looked'
  <2>1. CASE app.next > Len(objects) /\ AppGoes("running")
    BY <1>a, <2>1 DEF Looked, ApiTypeOK
  <2>2. CASE app.next <= Len(objects) /\ hasUpdate[objects[app.next]] /\ AppGoes("clear")
    BY <1>a, <2>2 DEF Looked, ApiTypeOK
  <2>3. CASE /\ app.next <= Len(objects) /\ ~hasUpdate[objects[app.next]]
             /\ app' = [app EXCEPT !.next = @ + 1]
    <3>1. app'.at = app.at /\ app'.next = app.next + 1
      BY <2>3 DEF ApiTypeOK
    <3>2. \A i \in 1 .. Len(objects) : i < app'.next => i < app.next \/ i = app.next
      BY <1>a, <3>1
    <3> QED
      BY <2>3, <3>1, <3>2 DEF Looked
  <2> QED
    BY <2>1, <2>2, <2>3
<1> QED
  BY <1>1, <1>2, <1>3, <1>4, <1>5, <1>6, <1>7, <1>8 DEF Kept

LEMMA ClearFlagKeeps ==
    ASSUME ApiInv, ClearFlag
    PROVE  Kept'
<1> USE ApiAssumption DEF ApiInv, Kept, ClearFlag, AppAt, AppGoes, AppOnly, ringVars
<1>1. ApiTypeOK'
  BY DEF ApiTypeOK, IsInjective
<1>2. HookSound'
  BY DEF HookSound, ApiTypeOK, Listed, Objects
<1>3. FlagBeforePose'
  BY DEF FlagBeforePose
<1>4. CursorSound'
  BY DEF CursorSound, ApiTypeOK
<1>5. UpdatesListed'
  BY DEF UpdatesListed, ApiTypeOK, CursorSound, Listed, Objects
<1>6. EndedSound'
  BY DEF EndedSound
<1>7. NoUpdateIsLost'
  BY DEF NoUpdateIsLost, ApiTypeOK
<1>8. Looked'
  BY DEF Looked
<1> QED
  BY <1>1, <1>2, <1>3, <1>4, <1>5, <1>6, <1>7, <1>8 DEF Kept

LEMMA ReadPoseKeeps ==
    ASSUME ApiInv, ReadPose
    PROVE  Kept'
<1> USE ApiAssumption DEF ApiInv, Kept, ReadPose, AppAt, AppOnly, MutexFree, HookAt, ringVars
<1>a. Len(objects) \in Nat
  BY ListFacts
<1>1. ApiTypeOK'
  BY <1>a, SMTT(30) DEF ApiTypeOK, CursorSound, IsInjective
<1>2. HookSound'
  BY DEF HookSound, ApiTypeOK, Listed, Objects
<1>3. FlagBeforePose'
  BY DEF FlagBeforePose
<1>4. CursorSound'
  BY DEF CursorSound, ApiTypeOK
<1>5. UpdatesListed'
  BY DEF UpdatesListed, ApiTypeOK, CursorSound, Listed, Objects
<1>6. EndedSound'
  BY DEF EndedSound
<1>7. NoUpdateIsLost'
  BY DEF NoUpdateIsLost, ApiTypeOK
<1>8. Looked'
  BY DEF Looked
<1> QED
  BY <1>1, <1>2, <1>3, <1>4, <1>5, <1>6, <1>7, <1>8 DEF Kept

LEMMA CheckRunningKeeps ==
    ASSUME ApiInv, CheckRunning
    PROVE  Kept'
<1> USE ApiAssumption DEF ApiInv, Kept, CheckRunning, AppAt, AppOnly, ringVars
<1>1. ApiTypeOK'
  BY DEF ApiTypeOK, IsInjective
<1>2. HookSound'
  BY DEF HookSound, ApiTypeOK, Listed, Objects
<1>3. FlagBeforePose'
  BY DEF FlagBeforePose
<1>4. CursorSound'
  BY DEF CursorSound, ApiTypeOK
<1>5. UpdatesListed'
  BY DEF UpdatesListed, ApiTypeOK, CursorSound, Listed, Objects
<1>6. EndedSound'
  BY DEF EndedSound
<1>7. NoUpdateIsLost'
  BY DEF NoUpdateIsLost, ApiTypeOK
<1>8. Looked'
  BY DEF Looked
<1> QED
  BY <1>1, <1>2, <1>3, <1>4, <1>5, <1>6, <1>7, <1>8 DEF Kept

LEMMA CloseKeeps ==
    ASSUME ApiInv, Close
    PROVE  Kept'
<1> USE ApiAssumption DEF ApiInv, Kept, Close, AppAt, ringVars
<1>a. Len(objects) \in Nat
  BY ListFacts
<1>1. ApiTypeOK'
  <2>1. app' \in [at : {"pop", "scan", "clear", "pose", "running", "shutdown", "join", "closed"},
                  next : 0 .. Len(objects') + 1]
    BY <1>a DEF ApiTypeOK
  <2> QED
    BY <2>1 DEF ApiTypeOK, IsInjective
<1>2. HookSound'
  BY DEF HookSound, ApiTypeOK, Listed, Objects
<1>3. FlagBeforePose'
  BY DEF FlagBeforePose
<1>4. CursorSound'
  BY DEF CursorSound, ApiTypeOK
<1>5. UpdatesListed'
  BY DEF UpdatesListed, ApiTypeOK, CursorSound, Listed, Objects
<1>6. EndedSound'
  BY DEF EndedSound
<1>7. NoUpdateIsLost'
  BY DEF NoUpdateIsLost, ApiTypeOK
<1>8. Looked'
  BY DEF Looked
<1> QED
  BY <1>1, <1>2, <1>3, <1>4, <1>5, <1>6, <1>7, <1>8 DEF Kept

LEMMA JoinedKeeps ==
    ASSUME ApiInv, Joined
    PROVE  Kept'
<1> USE ApiAssumption DEF ApiInv, Kept, Joined, AppAt, AppGoes, AppOnly, ringVars
<1>1. ApiTypeOK'
  BY DEF ApiTypeOK, IsInjective
<1>2. HookSound'
  BY DEF HookSound, ApiTypeOK, Listed, Objects
<1>3. FlagBeforePose'
  BY DEF FlagBeforePose
<1>4. CursorSound'
  BY DEF CursorSound, ApiTypeOK
<1>5. UpdatesListed'
  BY DEF UpdatesListed, ApiTypeOK, CursorSound, Listed, Objects
<1>6. EndedSound'
  BY DEF EndedSound
<1>7. NoUpdateIsLost'
  BY DEF NoUpdateIsLost, ApiTypeOK
<1>8. Looked'
  BY DEF Looked
<1> QED
  BY <1>1, <1>2, <1>3, <1>4, <1>5, <1>6, <1>7, <1>8 DEF Kept
-----------------------------------------------------------------------------
(* The ring within the API. *)

\* A step of the API does to the ring nothing but insert or pop one event.
LEMMA StepOfRing ==
    ASSUME ApiInv, [Next]_vars
    PROVE  [RingNext]_ringVars
<1>1. ASSUME NEW kind \in {"added", "button", "config"}, NEW o \in Objects, InsertEvent(kind, o)
      PROVE  RingNext
  <2>1. <<kind, o, inserted + 1>> \in Events
    BY <1>1, ApiAssumption DEF InsertEvent, ApiInv, Kept, ApiTypeOK
  <2> QED
    BY <1>1, <2>1 DEF InsertEvent, RingNext
<1>2. CASE UNCHANGED vars
  BY <1>2 DEF vars, ringVars
<1>3. CASE StartHook
  BY <1>1, <1>3 DEF StartHook, NewObject, Config, Button, TrackedPose, LighthousePose, External
<1>4. CASE FinishHook
  <2>1. hook.at # "idle" => hook.object \in Objects
    BY DEF ApiInv, Kept, HookSound
  <2> QED
    BY <1>1, <1>4, <2>1
    DEF FinishHook, AnnounceObject, EnterLighthouse, RaiseFlag, ExternalPose, HookAt
<1>5. CASE ThreadEnds \/ App \/ Close
  BY <1>5
  DEF ThreadEnds, App, PopEvent, Scan, ClearFlag, ReadPose, CheckRunning, Joined, Close, RingNext
<1> QED
  BY <1>2, <1>3, <1>4, <1>5 DEF Next

-----------------------------------------------------------------------------
(* The initial states. *)

LEMMA InitRing == Init => RingInv
<1> SUFFICES ASSUME Init PROVE RingInv
  OBVIOUS
<1> DEFINE n == Len(objects)
<1>1. /\ MaxEventSize \in Nat \ {0} /\ Invalid \notin Events \cup {<<>>}
      /\ n \in Nat /\ n <= MaxEventSize /\ n <= MaxInserted /\ MaxInserted \in Nat
      /\ \A i \in 1 .. n : objects[i] \in Objects
  BY RingAssumption, ApiAssumption DEF Init, Objects
<1>2. eventsCnt = n /\ eventNextWrite = IF n < MaxEventSize THEN n ELSE 0
  <2>1. n % MaxEventSize = IF n < MaxEventSize THEN n ELSE n - MaxEventSize
    <3>1. n < 2 * MaxEventSize
      BY <1>1
    <3> HIDE DEF n
    <3> QED
      BY <1>1, <3>1, ModOnce
  <2> QED
    BY <1>1, <2>1 DEF Init
<1>3. ASSUME NEW i \in Indices
      PROVE  /\ events[i] \in Events \cup {Invalid}
             /\ events[i] # Invalid <=> i < n
  <2>1. CASE i < n
    <3>1. events[i] = <<"added", objects[i + 1], i + 1>>
      BY <1>3, <2>1 DEF Init
    <3>2. i + 1 \in 1 .. n /\ i + 1 \in 1 .. MaxInserted
      BY <1>1, <2>1 DEF Indices
    <3>3. <<"added", objects[i + 1], i + 1>> \in Events
      BY <1>1, <3>2, ApiAssumption
    <3> QED
      BY <1>1, <2>1, <3>1, <3>3
  <2>2. CASE ~(i < n)
    BY <1>3, <2>2 DEF Init
  <2> QED
    BY <2>1, <2>2
<1>4. RingTypeOK
  <2>1. events \in [Indices -> Events \cup {Invalid}]
    BY <1>3 DEF Init
  <2> QED
    BY <1>1, <1>2, <2>1 DEF Init, RingTypeOK, Indices
<1>5. ValidByAge
  <2> SUFFICES ASSUME NEW i \in Indices
               PROVE  events[i] # Invalid <=> Age(i) < eventsCnt
    BY DEF ValidByAge
  <2>1. i < n <=> Age(i) < eventsCnt
    BY <1>1, <1>2 DEF Age, Indices
  <2> QED
    BY <1>3, <2>1
<1>6. NeverPopsInvalid
  BY <1>1 DEF Init, NeverPopsInvalid
<1> QED
  BY <1>4, <1>5, <1>6, ValidIsByAge DEF RingInv

LEMMA InitKept == Init => Kept
<1> SUFFICES ASSUME Init PROVE Kept
  OBVIOUS
<1>1. /\ objects \in Seq(Objects) /\ IsInjective(objects)
      /\ Len(objects) \in Nat /\ Len(objects) <= MaxInserted
      /\ MaxInserted \in Nat /\ MaxPoses \in Nat \ {0}
  BY ApiAssumption DEF Init, Objects
<1>2. ApiTypeOK
  <2>1. pose \in [Objects -> 0 .. MaxPoses] /\ told \in [Objects -> 0 .. MaxPoses]
    BY <1>1 DEF Init
  <2>2. app \in [at : {"pop", "scan", "clear", "pose", "running", "shutdown", "join", "closed"},
                next : 0 .. Len(objects) + 1]
    BY <1>1 DEF Init
  <2>3. inserted \in 0 .. MaxInserted
    BY <1>1 DEF Init
  <2> QED
    BY <1>1, <2>1, <2>2, <2>3 DEF Init, ApiTypeOK, NoHook
<1>3. HookSound /\ FlagBeforePose /\ CursorSound /\ EndedSound /\ Looked
  BY DEF Init, NoHook, HookSound, FlagBeforePose, CursorSound, EndedSound, Looked
<1>4. UpdatesListed
  BY DEF Init, UpdatesListed
<1>5. NoUpdateIsLost
  BY DEF Init, NoUpdateIsLost
<1> QED
  BY <1>2, <1>3, <1>4, <1>5 DEF Kept

-----------------------------------------------------------------------------
(* The theorems. *)

LEMMA StepKeeps ==
    ASSUME ApiInv, [Next]_vars
    PROVE  ApiInv'
<1>1. RingInv'
  BY StepOfRing, RingStepInv DEF ApiInv
<1>2. Kept'
  <2>1. CASE UNCHANGED vars
    BY <2>1 DEF ApiInv, Kept, vars, apiVars, ringVars, ApiTypeOK, HookSound, FlagBeforePose,
                CursorSound, UpdatesListed, EndedSound, NoUpdateIsLost, Looked, Listed, IsInjective
  <2>2. CASE StartHook
    BY <2>2, NewObjectKeeps, ConfigKeeps, ButtonKeeps, TrackedPoseKeeps, LighthousePoseKeeps,
       ExternalKeeps DEF StartHook
  <2>3. CASE FinishHook
    BY <2>3, AnnounceObjectKeeps, EnterLighthouseKeeps, RaiseFlagKeeps, ExternalPoseKeeps
    DEF FinishHook
  <2>4. CASE App
    BY <2>4, PopEventKeeps, ScanKeeps, ClearFlagKeeps, ReadPoseKeeps, CheckRunningKeeps,
       JoinedKeeps DEF App
  <2>5. CASE ThreadEnds \/ Close
    BY <2>5, ThreadEndsKeeps, CloseKeeps
  <2> QED
    BY <2>1, <2>2, <2>3, <2>4, <2>5 DEF Next
<1> QED
  BY <1>1, <1>2 DEF ApiInv

LEMMA ApiAlwaysInv == Spec => []ApiInv
<1>1. Init => ApiInv
  BY InitRing, InitKept DEF ApiInv
<1>2. ApiInv /\ [Next]_vars => ApiInv'
  BY StepKeeps
<1> QED
  BY <1>1, <1>2, PTL DEF Spec

\* The variables of survive_api.c stay in their types, for every list of objects
\* that survive_simple_init can find.
THEOREM ApiTypeCorrect == Spec => []TypeOK
<1>1. ApiInv => TypeOK
  BY DEF ApiInv, Kept, RingInv, TypeOK
<1> QED
  BY <1>1, ApiAlwaysInv, PTL

\* The application looks at has_update and clears it without poll_mutex, but no
\* pose is lost between that and the hooks, however many objects there are.
THEOREM UpdatesAreNeverLost == Spec => []NoUpdateIsLost
<1>1. ApiInv => NoUpdateIsLost
  BY DEF ApiInv, Kept
<1> QED
  BY <1>1, ApiAlwaysInv, PTL

\* When survive_simple_wait_for_event returns the shutdown, what was written before
\* that call began has been handed out.
THEOREM ShutdownAlwaysLast == Spec => []ShutdownComesLast
<1>1. ApiInv => ShutdownComesLast
  <2> SUFFICES ASSUME ApiInv, app.at = "shutdown"
               PROVE  ~running /\ (~late => eventsCnt = 0 /\ \A o \in Objects : told[o] = pose[o])
    BY DEF ShutdownComesLast, AppAt
  <2>1. ~running /\ thread = "ended" /\ hook.at = "idle"
    BY DEF ApiInv, Kept, EndedSound
  <2>2. ASSUME ~late, NEW o \in Objects
        PROVE  eventsCnt = 0 /\ told[o] = pose[o]
    <3>1. eventsCnt = 0 /\ \A i \in 1 .. Len(objects) : ~hasUpdate[objects[i]]
      BY <2>1, <2>2 DEF ApiInv, Kept, Looked
    <3>2. ~hasUpdate[o]
      BY <3>1, ListFacts DEF ApiInv, Kept, UpdatesListed, Listed
    <3> QED
      BY <2>1, <3>1, <3>2 DEF ApiInv, Kept, NoUpdateIsLost
  <2>3. ~late => eventsCnt = 0
    BY DEF ApiInv, Kept, Looked
  <2> QED
    BY <2>1, <2>2, <2>3
<1> QED
  BY <1>1, ApiAlwaysInv, PTL

\* The events of the API are a bounded queue, with hooks on one side and the
\* application on the other, and with what survive_simple_init has put there.
THEOREM ApiEventsAreAQueue == Spec => IsAQueue
<1>1. ApiInv /\ [Next]_vars => [Queue!Next]_(Queue!fifoVars)
  BY StepOfRing, RingStepQueue DEF ApiInv
<1>2. IsAQueue <=> [][Queue!Next]_(Queue!fifoVars)
  BY DEF IsAQueue
<1> QED
  BY <1>1, <1>2, ApiAlwaysInv, PTL DEF Spec
=============================================================================
