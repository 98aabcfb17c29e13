---------------------------- MODULE StreamProofs ----------------------------
(* What the consumer of a subscription is told, for any number of rows,    *)
(* emissions and waiters and any size of the buffer; and what the reader   *)
(* of a user feed is, over any disconnects.                                *)
EXTENDS WsSubscription, UserFeed, FiniteSetTheorems, SequenceTheorems, WellFoundedInduction, TLAPS

\* What a subscription emits, and what else its consumer may get.
Sources == {"row", "notice", "event"}
Items == [kind : Sources \cup {"summary", "fatal"}, key : Rows \cup {"none"},
          snapshot : BOOLEAN, parts : SUBSET Nat]
IsItem(b) == b \in Items /\ b.parts # {} /\ (b.kind = "row" <=> b.key # "none")
AreItems(s) == s \in Seq(Items) /\ \A i \in DOMAIN s : IsItem(s[i])

\* Emitted items are numbered by their place.
AreNumbered(em) ==
    /\ AreItems(em)
    /\ \A n \in DOMAIN em : em[n].parts = {n} /\ em[n].kind \in Sources

\* The properties, for any items emitted, seen and lost to an overflow.
Exact(em, sn, lost) ==
    /\ PartsOf(sn, "event") = PartsOf(em, "event") \ lost
    /\ PartsOf(sn, "notice") \subseteq PartsOf(em, "notice") \ lost
    /\ PartsOf(sn, "row") = PartsOf(em, "row")
    /\ \A i \in Where(sn, "event") \cup Where(sn, "notice") : Single(sn[i])
RowsFit(em, sn) ==
    /\ \A i, j \in Where(sn, "row") : i < j /\ sn[i].key = sn[j].key =>
          \A n \in sn[i].parts, m \in sn[j].parts : n < m
    /\ \A i \in Where(sn, "row") :
          sn[i].snapshot <=> \E n \in sn[i].parts : em[n].snapshot
Told(em, sn, lost) == Exact(em, sn, lost) /\ InOrder(sn) /\ RowsFit(em, sn)
Evicted(em, sn, lost) == PartsOf(em, "notice") \ (PartsOf(sn, "notice") \cup lost)

\* An item of a sequence of items.
LEMMA ItemOf ==
    ASSUME NEW s, AreItems(s)
    PROVE  /\ s \in Seq(Items) /\ Len(s) \in Nat /\ DOMAIN s = 1..Len(s)
           /\ \A i \in DOMAIN s : /\ IsItem(s[i]) /\ s[i] \in Items
                                  /\ s[i].parts \in SUBSET Nat /\ s[i].parts # {}
                                  /\ s[i].snapshot \in BOOLEAN
                                  /\ s[i].kind \in Sources \cup {"summary", "fatal"}
BY DEF AreItems, IsItem, Items

\* An item more.
LEMMA OneItemMore ==
    ASSUME NEW s, AreItems(s), NEW e, IsItem(e)
    PROVE  /\ AreItems(Append(s, e)) /\ Len(Append(s, e)) = Len(s) + 1
           /\ DOMAIN Append(s, e) = 1..(Len(s) + 1)
           /\ \A i \in 1..Len(s) : Append(s, e)[i] = s[i]
           /\ Append(s, e)[Len(s) + 1] = e
BY AppendProperties DEF AreItems, IsItem

\* What an appended item adds to the parts of its kind.
LEMMA PartsOfMore ==
    ASSUME NEW s, AreItems(s), NEW e, IsItem(e), NEW k
    PROVE  PartsOf(Append(s, e), k) =
             PartsOf(s, k) \cup (IF e.kind = k THEN e.parts ELSE {})
<1>1. /\ DOMAIN s = 1..Len(s) /\ Len(s) \in Nat
      /\ DOMAIN Append(s, e) = 1..(Len(s) + 1)
      /\ \A i \in 1..Len(s) : Append(s, e)[i] = s[i]
      /\ Append(s, e)[Len(s) + 1] = e
  BY ItemOf, OneItemMore
<1>2. Where(Append(s, e), k) =
        Where(s, k) \cup (IF e.kind = k THEN {Len(s) + 1} ELSE {})
  BY <1>1 DEF Where
<1>3. \A n : n \in PartsOf(Append(s, e), k) <=>
               n \in PartsOf(s, k) \/ (e.kind = k /\ n \in e.parts)
  <2> TAKE n
  <2>1. n \in PartsOf(Append(s, e), k) <=>
          \E i \in Where(Append(s, e), k) : n \in Append(s, e)[i].parts
    BY DEF PartsOf
  <2>2. n \in PartsOf(s, k) <=> \E i \in Where(s, k) : n \in s[i].parts
    BY DEF PartsOf
  <2>3. \A i \in Where(s, k) : Append(s, e)[i] = s[i]
    BY <1>1 DEF Where
  <2> QED BY <1>1, <1>2, <2>1, <2>2, <2>3
<1> QED BY <1>3

\* The parts of numbered items are their places.
LEMMA PartsOfNumbered ==
    ASSUME NEW em, AreNumbered(em), NEW k
    PROVE  PartsOf(em, k) = Where(em, k) /\ PartsOf(em, k) \subseteq 1..Len(em)
<1>1. DOMAIN em = 1..Len(em) /\ \A n \in DOMAIN em : em[n].parts = {n}
  BY ItemOf DEF AreNumbered
<1>2. \A n : n \in PartsOf(em, k) <=> n \in Where(em, k)
  BY <1>1 DEF PartsOf, Where
<1> QED BY <1>1, <1>2 DEF Where

\* The parts of what is told are places of what was emitted.
LEMMA PartsAreEmitted ==
    ASSUME NEW em, AreNumbered(em), NEW sn, AreItems(sn), NEW lost, Exact(em, sn, lost),
           NEW i \in DOMAIN sn, sn[i].kind \in Sources
    PROVE  sn[i].parts \subseteq 1..Len(em)
<1>1. sn[i].parts \subseteq PartsOf(sn, sn[i].kind)
  BY DEF PartsOf, Where
<1>2. PartsOf(sn, sn[i].kind) \subseteq PartsOf(em, sn[i].kind)
  BY DEF Exact, Sources
<1> QED BY <1>1, <1>2, PartsOfNumbered

\* An emitted item: the next number, of a kind that is emitted.
IsNext(em, e) == IsItem(e) /\ e.kind \in Sources /\ e.parts = {Len(em) + 1}

\* What is emitted next keeps the numbering.
LEMMA NumberedMore ==
    ASSUME NEW em, AreNumbered(em), NEW e, IsNext(em, e)
    PROVE  /\ AreNumbered(Append(em, e)) /\ Len(Append(em, e)) = Len(em) + 1
           /\ \A n \in 1..Len(em) : Append(em, e)[n] = em[n]
           /\ Append(em, e)[Len(em) + 1] = e
<1>1. AreItems(em) /\ IsItem(e) /\ DOMAIN em = 1..Len(em) /\ Len(em) \in Nat
  BY ItemOf DEF AreNumbered, IsNext
<1>2. /\ AreItems(Append(em, e)) /\ Len(Append(em, e)) = Len(em) + 1
      /\ DOMAIN Append(em, e) = 1..(Len(em) + 1)
      /\ \A i \in 1..Len(em) : Append(em, e)[i] = em[i]
      /\ Append(em, e)[Len(em) + 1] = e
  BY <1>1, OneItemMore
<1>3. \A n \in DOMAIN Append(em, e) :
        Append(em, e)[n].parts = {n} /\ Append(em, e)[n].kind \in Sources
  <2> TAKE n \in DOMAIN Append(em, e)
  <2>1. CASE n = Len(em) + 1
    BY <1>2, <2>1 DEF IsNext
  <2>2. CASE n \in 1..Len(em)
    BY <1>1, <1>2, <2>2 DEF AreNumbered
  <2> QED BY <1>1, <1>2, <2>1, <2>2
<1> QED BY <1>2, <1>3 DEF AreNumbered

\* An emitted item that nobody merges or loses.
LEMMA SeenAsSent ==
    ASSUME NEW em, AreNumbered(em), NEW sn, AreItems(sn),
           NEW lost \in SUBSET (1..Len(em)), Told(em, sn, lost), NEW e, IsNext(em, e)
    PROVE  /\ Told(Append(em, e), Append(sn, e), lost)
           /\ Evicted(Append(em, e), Append(sn, e), lost) = Evicted(em, sn, lost)
<1> DEFINE N == Len(em) + 1
           em2 == Append(em, e)
           sn2 == Append(sn, e)
<1>1. /\ AreItems(em) /\ IsItem(e) /\ Len(em) \in Nat /\ e.parts = {N}
      /\ Len(sn) \in Nat /\ DOMAIN sn = 1..Len(sn)
      /\ DOMAIN sn2 = 1..(Len(sn) + 1) /\ sn2[Len(sn) + 1] = e
      /\ \A i \in 1..Len(sn) : sn2[i] = sn[i]
      /\ \A n \in 1..Len(em) : em2[n] = em[n]
      /\ em2[N] = e
  BY ItemOf, OneItemMore, NumberedMore DEF AreNumbered, IsNext
<1>2. \A k : /\ PartsOf(em2, k) = PartsOf(em, k) \cup (IF e.kind = k THEN {N} ELSE {})
             /\ PartsOf(sn2, k) = PartsOf(sn, k) \cup (IF e.kind = k THEN {N} ELSE {})
             /\ PartsOf(em, k) \subseteq 1..Len(em)
  BY <1>1, PartsOfMore, PartsOfNumbered
<1>3. \A i \in 1..Len(sn) : sn[i].kind \in Sources =>
        sn[i].parts \subseteq 1..Len(em) /\ sn[i].parts # {}
  BY <1>1, ItemOf, PartsAreEmitted DEF Told
<1> HIDE DEF N, em2, sn2
<1>4. N \notin 1..Len(em) /\ N \notin lost /\ N \in Nat /\ \A n \in 1..Len(em) : n < N
  BY <1>1 DEF N
<1>5. Exact(em2, sn2, lost)
  <2>1. \A i \in Where(sn2, "event") \cup Where(sn2, "notice") : Single(sn2[i])
    <3> TAKE i \in Where(sn2, "event") \cup Where(sn2, "notice")
    <3>1. CASE i \in 1..Len(sn)
      BY <1>1, <3>1 DEF Told, Exact, Where
    <3>2. CASE i = Len(sn) + 1
      BY <1>1, <3>2 DEF Single
    <3> QED BY <1>1, <3>1, <3>2 DEF Where
  <2>2. PartsOf(sn2, "event") = PartsOf(em2, "event") \ lost
    BY <1>2, <1>4 DEF Told, Exact
  <2>3. PartsOf(sn2, "notice") \subseteq PartsOf(em2, "notice") \ lost
    BY <1>2, <1>4 DEF Told, Exact
  <2>4. PartsOf(sn2, "row") = PartsOf(em2, "row")
    BY <1>2 DEF Told, Exact
  <2> QED BY <2>1, <2>2, <2>3, <2>4 DEF Exact
<1>6. InOrder(sn2)
  <2> SUFFICES ASSUME NEW i \in DOMAIN sn2, NEW j \in DOMAIN sn2, i < j,
                      {sn2[i].kind, sn2[j].kind} \subseteq {"row", "notice", "event"}
               PROVE  Before(sn2[i], sn2[j])
    BY DEF InOrder
  <2>1. i \in 1..Len(sn) /\ sn2[i] = sn[i]
    BY <1>1
  <2>2. CASE j \in 1..Len(sn)
    BY <1>1, <2>1, <2>2 DEF Told, InOrder
  <2>3. CASE j = Len(sn) + 1
    <3>1. PICK n \in sn[i].parts : n \in 1..Len(em)
      BY <1>3, <2>1 DEF Sources
    <3>2. \A m \in sn2[j].parts : n < m
      BY <1>1, <1>4, <2>3, <3>1
    <3> QED BY <2>1, <3>1, <3>2 DEF Before
  <2> QED BY <1>1, <2>2, <2>3
<1>7. RowsFit(em2, sn2)
  <2>1. ASSUME NEW i \in Where(sn2, "row"), NEW j \in Where(sn2, "row"), i < j,
               sn2[i].key = sn2[j].key, NEW n \in sn2[i].parts, NEW m \in sn2[j].parts
        PROVE  n < m
    <3>1. i \in 1..Len(sn) /\ sn2[i] = sn[i] /\ sn[i].kind = "row"
      BY <1>1, <2>1 DEF Where
    <3>2. CASE j \in 1..Len(sn)
      BY <1>1, <2>1, <3>1, <3>2 DEF Told, RowsFit, Where
    <3>3. CASE j = Len(sn) + 1
      BY <1>1, <1>3, <1>4, <2>1, <3>1, <3>3 DEF Sources
    <3> QED BY <1>1, <2>1, <3>2, <3>3 DEF Where
  <2>2. ASSUME NEW i \in Where(sn2, "row")
        PROVE  sn2[i].snapshot <=> \E n \in sn2[i].parts : em2[n].snapshot
    <3>1. CASE i \in 1..Len(sn)
      <4>1. i \in Where(sn, "row") /\ sn2[i] = sn[i] /\ sn[i].parts \subseteq 1..Len(em)
        BY <1>1, <1>3, <2>2, <3>1 DEF Where, Sources
      <4>2. sn[i].snapshot <=> \E n \in sn[i].parts : em[n].snapshot
        BY <4>1 DEF Told, RowsFit
      <4>3. \A n \in sn[i].parts : em2[n] = em[n]
        BY <1>1, <4>1
      <4> QED BY <4>1, <4>2, <4>3
    <3>2. CASE i = Len(sn) + 1
      BY <1>1, <3>2
    <3> QED BY <1>1, <2>2, <3>1, <3>2 DEF Where
  <2> QED BY <2>1, <2>2 DEF RowsFit
<1>8. Evicted(em2, sn2, lost) = Evicted(em, sn, lost)
  BY <1>2, <1>4 DEF Evicted
<1> QED BY <1>5, <1>6, <1>7, <1>8 DEF Told, em2, sn2

\* The fatal error and the summary stand for nothing that was emitted.
IsExtra(x) == IsItem(x) /\ x.kind \notin Sources

\* Neither the fatal error nor the summary changes what is told of the rest.
LEMMA SeenWithError ==
    ASSUME NEW em, NEW sn, AreItems(sn), NEW lost, Told(em, sn, lost), NEW x, IsExtra(x)
    PROVE  /\ Told(em, Append(sn, x), lost)
           /\ Evicted(em, Append(sn, x), lost) = Evicted(em, sn, lost)
<1> DEFINE sn2 == Append(sn, x)
<1>1. /\ Len(sn) \in Nat /\ DOMAIN sn = 1..Len(sn)
      /\ DOMAIN sn2 = 1..(Len(sn) + 1) /\ sn2[Len(sn) + 1] = x
      /\ \A i \in 1..Len(sn) : sn2[i] = sn[i]
  BY ItemOf, OneItemMore DEF IsExtra
<1>2. \A k \in Sources : PartsOf(sn2, k) = PartsOf(sn, k)
  <2> TAKE k \in Sources
  <2>1. IsItem(x) /\ x.kind # k
    BY DEF IsExtra
  <2>2. PartsOf(sn2, k) = PartsOf(sn, k) \cup (IF x.kind = k THEN x.parts ELSE {})
    BY <2>1, PartsOfMore
  <2> QED BY <2>1, <2>2
<1> HIDE DEF sn2
<1>3. \A i \in DOMAIN sn2 : sn2[i].kind \in Sources => i \in DOMAIN sn /\ sn2[i] = sn[i]
  BY <1>1 DEF IsExtra
<1>4. Exact(em, sn2, lost)
  BY <1>2, <1>3 DEF Told, Exact, Where, Sources
<1>5. InOrder(sn2)
  BY <1>3 DEF Told, InOrder, Sources
<1>6. RowsFit(em, sn2)
  BY <1>3 DEF Told, RowsFit, Where, Sources
<1>7. Evicted(em, sn2, lost) = Evicted(em, sn, lost)
  BY <1>2 DEF Evicted, Sources
<1> QED BY <1>4, <1>5, <1>6, <1>7 DEF Told, sn2

\* The control that finds the buffer full is lost; no other was lost before it.
LEMMA LostUnseen ==
    ASSUME NEW em, AreNumbered(em), NEW sn, AreItems(sn), Told(em, sn, {}),
           NEW e, IsNext(em, e), e.kind # "row"
    PROVE  /\ Told(Append(em, e), sn, e.parts)
           /\ Evicted(Append(em, e), sn, e.parts) = Evicted(em, sn, {})
<1> DEFINE N == Len(em) + 1
           em2 == Append(em, e)
<1>1. /\ AreItems(em) /\ IsItem(e) /\ Len(em) \in Nat /\ e.parts = {N}
      /\ DOMAIN sn = 1..Len(sn)
      /\ \A n \in 1..Len(em) : em2[n] = em[n]
  BY ItemOf, NumberedMore DEF AreNumbered, IsNext
<1>2. \A k : /\ PartsOf(em2, k) = PartsOf(em, k) \cup (IF e.kind = k THEN {N} ELSE {})
             /\ PartsOf(em, k) \subseteq 1..Len(em)
  BY <1>1, PartsOfMore, PartsOfNumbered
<1>3. \A i \in DOMAIN sn : sn[i].kind \in Sources => sn[i].parts \subseteq 1..Len(em)
  BY PartsAreEmitted DEF Told
<1> HIDE DEF N, em2
<1>4. N \notin 1..Len(em)
  BY <1>1 DEF N
<1>5. Exact(em2, sn, {N})
  BY <1>2, <1>4 DEF Told, Exact
<1>6. RowsFit(em2, sn)
  <2>1. ASSUME NEW i \in Where(sn, "row")
        PROVE  sn[i].snapshot <=> \E n \in sn[i].parts : em2[n].snapshot
    <3>1. sn[i].parts \subseteq 1..Len(em)
      BY <1>3 DEF Where, Sources
    <3>2. \A n \in sn[i].parts : em2[n] = em[n]
      BY <1>1, <3>1
    <3>3. sn[i].snapshot <=> \E n \in sn[i].parts : em[n].snapshot
      BY DEF Told, RowsFit
    <3> QED BY <3>2, <3>3
  <2> QED BY <2>1 DEF Told, RowsFit
<1>7. Evicted(em2, sn, {N}) = Evicted(em, sn, {})
  BY <1>2, <1>4 DEF Evicted
<1> QED BY <1>1, <1>5, <1>6, <1>7 DEF Told, em2

\* The next row of a key that is queued: the queued row keeps its place and its key,
\* and stands for both.
LEMMA SeenMerged ==
    ASSUME NEW em, AreNumbered(em), NEW sn, AreItems(sn),
           NEW lost \in SUBSET (1..Len(em)), Told(em, sn, lost),
           NEW e, IsNext(em, e), NEW i \in Where(sn, "row"), sn[i].key = e.key,
           e.kind = "row",
           \A j \in Where(sn, "row") : sn[j].key = e.key => j <= i,
           NEW sn2, AreItems(sn2), DOMAIN sn2 = DOMAIN sn,
           \A j \in DOMAIN sn : j # i => sn2[j] = sn[j],
           sn2[i].kind = "row", sn2[i].key = e.key,
           sn2[i].parts = sn[i].parts \cup e.parts,
           sn2[i].snapshot <=> sn[i].snapshot \/ e.snapshot
    PROVE  /\ Told(Append(em, e), sn2, lost)
           /\ Evicted(Append(em, e), sn2, lost) = Evicted(em, sn, lost)
<1> DEFINE N == Len(em) + 1
           em2 == Append(em, e)
<1>1. /\ AreItems(em) /\ IsItem(e) /\ Len(em) \in Nat /\ e.parts = {N}
      /\ Len(sn) \in Nat /\ DOMAIN sn = 1..Len(sn)
      /\ \A n \in 1..Len(em) : em2[n] = em[n]
      /\ em2[N] = e
  BY ItemOf, NumberedMore DEF AreNumbered, IsNext
<1>2. \A k : /\ PartsOf(em2, k) = PartsOf(em, k) \cup (IF e.kind = k THEN {N} ELSE {})
             /\ PartsOf(em, k) \subseteq 1..Len(em)
  BY <1>1, PartsOfMore, PartsOfNumbered
<1>3. \A j \in DOMAIN sn : sn[j].kind \in Sources =>
        sn[j].parts \subseteq 1..Len(em) /\ sn[j].parts # {}
  BY <1>1, ItemOf, PartsAreEmitted DEF Told
<1> HIDE DEF N, em2
<1>4. N \notin 1..Len(em) /\ N \notin lost /\ N \in Nat /\ \A n \in 1..Len(em) : n < N
  BY <1>1 DEF N
<1>5. i \in DOMAIN sn /\ sn[i].kind = "row" /\ sn2[i].parts = sn[i].parts \cup {N}
  BY <1>1 DEF Where
<1>6. \A j \in DOMAIN sn : sn2[j].kind = sn[j].kind /\ (sn[j].kind = "row" => sn2[j].key = sn[j].key)
  BY <1>5
<1>7. \A k : Where(sn2, k) = Where(sn, k)
  BY <1>6 DEF Where
<1>8. PartsOf(sn2, "row") = PartsOf(sn, "row") \cup {N}
  <2>1. \A n : n \in PartsOf(sn2, "row") <=> \E j \in Where(sn, "row") : n \in sn2[j].parts
    BY <1>7 DEF PartsOf
  <2>2. \A n : n \in PartsOf(sn, "row") <=> \E j \in Where(sn, "row") : n \in sn[j].parts
    BY DEF PartsOf
  <2>3. \A j \in Where(sn, "row") : j # i => sn2[j] = sn[j]
    BY DEF Where
  <2> QED BY <1>5, <2>1, <2>2, <2>3
<1>9. \A k : k # "row" => PartsOf(sn2, k) = PartsOf(sn, k)
  <2> SUFFICES ASSUME NEW k, k # "row" PROVE PartsOf(sn2, k) = PartsOf(sn, k)
    OBVIOUS
  <2>1. \A j \in Where(sn, k) : sn2[j] = sn[j]
    BY <1>5 DEF Where
  <2> QED BY <1>7, <2>1 DEF PartsOf
<1>10. Exact(em2, sn2, lost)
  <2>1. \A j \in Where(sn2, "event") \cup Where(sn2, "notice") : sn2[j] = sn[j]
    BY <1>5, <1>7 DEF Where
  <2> QED BY <1>2, <1>4, <1>7, <1>8, <1>9, <2>1 DEF Told, Exact
<1>11. InOrder(sn2)
  <2> SUFFICES ASSUME NEW g \in DOMAIN sn, NEW h \in DOMAIN sn, g < h,
                      {sn2[g].kind, sn2[h].kind} \subseteq {"row", "notice", "event"}
               PROVE  Before(sn2[g], sn2[h])
    BY DEF InOrder
  <2>1. Before(sn[g], sn[h]) /\ sn[g].kind \in Sources
    BY <1>6 DEF Told, InOrder, Sources
  <2>2. PICK n \in sn[g].parts : \A m \in sn[h].parts : n < m
    BY <2>1 DEF Before
  <2>3. n \in sn2[g].parts /\ n < N
    BY <1>3, <1>4, <1>5, <2>1, <2>2
  <2>4. \A m \in sn2[h].parts : m \in sn[h].parts \/ m = N
    BY <1>5
  <2> QED BY <2>2, <2>3, <2>4 DEF Before
<1>12. RowsFit(em2, sn2)
  <2>1. ASSUME NEW g \in Where(sn, "row"), NEW h \in Where(sn, "row"), g < h,
               sn2[g].key = sn2[h].key, NEW n \in sn2[g].parts, NEW m \in sn2[h].parts
        PROVE  n < m
    <3>1. /\ g \in DOMAIN sn /\ h \in DOMAIN sn /\ sn[g].key = sn[h].key
          /\ g \in Nat /\ h \in Nat /\ i \in Nat
      BY <1>1, <1>5, <1>6, <2>1 DEF Where
    <3>2. g # i
      BY <1>5, <2>1, <3>1 DEF Where
    <3>3. n \in sn[g].parts /\ n \in 1..Len(em)
      BY <1>3, <2>1, <3>1, <3>2 DEF Where, Sources
    <3>4. CASE m = N
      BY <1>4, <3>3, <3>4
    <3>5. CASE m # N
      <4>1. m \in sn[h].parts
        BY <1>5, <2>1, <3>1, <3>5
      <4> QED BY <2>1, <3>1, <3>3, <4>1 DEF Told, RowsFit
    <3> QED BY <3>4, <3>5
  <2>2. ASSUME NEW g \in Where(sn, "row")
        PROVE  sn2[g].snapshot <=> \E n \in sn2[g].parts : em2[n].snapshot
    <3>1. sn[g].snapshot <=> \E n \in sn[g].parts : em[n].snapshot
      BY DEF Told, RowsFit
    <3>2. \A n \in sn[g].parts : em2[n] = em[n]
      BY <1>1, <1>3 DEF Where, Sources
    <3>3. CASE g = i
      BY <1>1, <1>5, <3>1, <3>2, <3>3
    <3>4. CASE g # i
      BY <3>1, <3>2, <3>4 DEF Where
    <3> QED BY <3>3, <3>4
  <2> QED BY <1>7, <2>1, <2>2 DEF RowsFit
<1>13. Evicted(em2, sn2, lost) = Evicted(em, sn, lost)
  BY <1>2, <1>9, <1>1 DEF Evicted
<1> QED BY <1>10, <1>11, <1>12, <1>13 DEF Told, em2

\* Any two sequences of items, one with what the other has, a place further on.
LEMMA SeenAfterSummary ==
    ASSUME NEW em, NEW sn, AreItems(sn), NEW lost, Told(em, sn, lost), NEW x, IsExtra(x),
           NEW sn2, sn2 = <<x>> \o sn
    PROVE  /\ Told(em, sn2, lost)
           /\ Evicted(em, sn2, lost) = Evicted(em, sn, lost)
           /\ AreItems(sn2)
           /\ Len(sn2) = Len(sn) + 1 /\ sn2[1] = x
           /\ \A i \in DOMAIN sn : sn2[i + 1] = sn[i]
<1>1. /\ AreItems(sn2)
      /\ Len(sn) \in Nat /\ DOMAIN sn = 1..Len(sn) /\ Len(sn2) = Len(sn) + 1
      /\ DOMAIN sn2 = 1..(Len(sn) + 1) /\ sn2[1] = x
      /\ \A i \in DOMAIN sn : sn2[i + 1] = sn[i]
  <2>1. x \in Items /\ sn \in Seq(Items) /\ Len(sn) \in Nat /\ DOMAIN sn = 1..Len(sn)
    BY ItemOf DEF IsExtra, IsItem
  <2>2. <<x>> \in Seq(Items) /\ Len(<<x>>) = 1 /\ <<x>>[1] = x
    BY <2>1
  <2>3. /\ sn2 \in Seq(Items) /\ Len(sn2) = 1 + Len(sn)
        /\ \A i \in 1..(1 + Len(sn)) : sn2[i] = IF i <= 1 THEN <<x>>[i] ELSE sn[i - 1]
    BY <2>1, <2>2, ConcatProperties
  <2>4. DOMAIN sn2 = 1..(Len(sn) + 1)
    BY <2>1, <2>3
  <2>5. sn2[1] = x /\ \A i \in 1..Len(sn) : sn2[i + 1] = sn[i]
    BY <2>1, <2>2, <2>3
  <2>6. \A i \in DOMAIN sn2 : i = 1 \/ (i - 1 \in DOMAIN sn /\ sn2[i] = sn[i - 1])
    BY <2>1, <2>3, <2>4
  <2>7. \A i \in DOMAIN sn2 : IsItem(sn2[i])
    BY <2>5, <2>6 DEF AreItems, IsExtra
  <2> QED BY <2>1, <2>3, <2>4, <2>5, <2>7 DEF AreItems
<1>2. \A i \in DOMAIN sn2 : sn2[i].kind \in Sources =>
         i - 1 \in DOMAIN sn /\ sn2[i] = sn[i - 1] /\ i \in Nat
  <2> SUFFICES ASSUME NEW i \in DOMAIN sn2, sn2[i].kind \in Sources
               PROVE  i - 1 \in DOMAIN sn /\ sn2[i] = sn[i - 1] /\ i \in Nat
    OBVIOUS
  <2>1. i # 1 /\ i \in 1..(Len(sn) + 1)
    BY <1>1 DEF IsExtra
  <2>2. i - 1 \in DOMAIN sn /\ i = (i - 1) + 1 /\ i \in Nat
    BY <1>1, <2>1
  <2> QED BY <1>1, <2>2
<1>3. \A i \in DOMAIN sn : i + 1 \in DOMAIN sn2 /\ sn2[i + 1] = sn[i]
  BY <1>1
<1>4. \A k \in Sources : PartsOf(sn2, k) = PartsOf(sn, k)
  <2> SUFFICES ASSUME NEW k \in Sources, NEW n
               PROVE  n \in PartsOf(sn2, k) <=> n \in PartsOf(sn, k)
    OBVIOUS
  <2>1. n \in PartsOf(sn2, k) <=> \E i \in DOMAIN sn2 : sn2[i].kind = k /\ n \in sn2[i].parts
    BY DEF PartsOf, Where
  <2>2. n \in PartsOf(sn, k) <=> \E i \in DOMAIN sn : sn[i].kind = k /\ n \in sn[i].parts
    BY DEF PartsOf, Where
  <2>3. ASSUME n \in PartsOf(sn2, k) PROVE n \in PartsOf(sn, k)
    <3>1. PICK i \in DOMAIN sn2 : sn2[i].kind = k /\ n \in sn2[i].parts
      BY <2>1, <2>3
    <3>2. i - 1 \in DOMAIN sn /\ sn2[i] = sn[i - 1]
      BY <1>2, <3>1
    <3> QED BY <2>2, <3>1, <3>2
  <2>4. ASSUME n \in PartsOf(sn, k) PROVE n \in PartsOf(sn2, k)
    <3>1. PICK i \in DOMAIN sn : sn[i].kind = k /\ n \in sn[i].parts
      BY <2>2, <2>4
    <3> QED BY <1>3, <2>1, <3>1
  <2> QED BY <2>3, <2>4
<1>5. Exact(em, sn2, lost)
  <2>1. \A i \in Where(sn2, "event") \cup Where(sn2, "notice") : Single(sn2[i])
    <3> TAKE i \in Where(sn2, "event") \cup Where(sn2, "notice")
    <3>1. i \in DOMAIN sn2 /\ sn2[i].kind \in {"event", "notice"}
      BY DEF Where
    <3>2. i - 1 \in DOMAIN sn /\ sn2[i] = sn[i - 1]
      BY <1>2, <3>1 DEF Sources
    <3>3. i - 1 \in Where(sn, "event") \cup Where(sn, "notice")
      BY <3>1, <3>2 DEF Where
    <3> QED BY <3>2, <3>3 DEF Told, Exact
  <2> QED BY <1>4, <2>1 DEF Told, Exact, Sources
<1>6. InOrder(sn2)
  <2> SUFFICES ASSUME NEW g \in DOMAIN sn2, NEW h \in DOMAIN sn2, g < h,
                      {sn2[g].kind, sn2[h].kind} \subseteq {"row", "notice", "event"}
               PROVE  Before(sn2[g], sn2[h])
    BY DEF InOrder
  <2>1. /\ g - 1 \in DOMAIN sn /\ h - 1 \in DOMAIN sn /\ g \in Nat /\ h \in Nat
        /\ sn2[g] = sn[g - 1] /\ sn2[h] = sn[h - 1]
    BY <1>2 DEF Sources
  <2>2. g - 1 < h - 1
    BY <2>1
  <2> QED BY <2>1, <2>2 DEF Told, InOrder
<1>7. RowsFit(em, sn2)
  <2>1. \A g \in Where(sn2, "row") :
          g - 1 \in Where(sn, "row") /\ sn2[g] = sn[g - 1] /\ g \in Nat
    BY <1>2 DEF Where, Sources
  <2>2. ASSUME NEW g \in Where(sn2, "row"), NEW h \in Where(sn2, "row"), g < h,
               sn2[g].key = sn2[h].key
        PROVE  \A n \in sn2[g].parts, m \in sn2[h].parts : n < m
    <3>1. g - 1 < h - 1
      BY <2>1, <2>2
    <3> QED BY <2>1, <2>2, <3>1 DEF Told, RowsFit
  <2>3. ASSUME NEW g \in Where(sn2, "row")
        PROVE  sn2[g].snapshot <=> \E n \in sn2[g].parts : em[n].snapshot
    BY <2>1 DEF Told, RowsFit
  <2> QED BY <2>2, <2>3 DEF RowsFit
<1>8. Evicted(em, sn2, lost) = Evicted(em, sn, lost)
  BY <1>4 DEF Evicted, Sources
<1> QED BY <1>1, <1>5, <1>6, <1>7, <1>8 DEF Told

\* s2 is s without its i-th item.
Skip(i, j) == IF j < i THEN j ELSE j + 1
Back(i, j) == IF j < i THEN j ELSE j - 1
IsWithout(s, i, s2) ==
    /\ AreItems(s) /\ AreItems(s2) /\ i \in DOMAIN s /\ Len(s) = Len(s2) + 1
    /\ \A j \in DOMAIN s2 : s2[j] = s[Skip(i, j)]

\* Skip counts the places of what is left among those of all, Back returns.
LEMMA SkipAndBack ==
    ASSUME NEW s, NEW i, NEW s2, IsWithout(s, i, s2)
    PROVE  /\ \A j \in DOMAIN s2 : /\ Skip(i, j) \in DOMAIN s \ {i} /\ s2[j] = s[Skip(i, j)]
                                   /\ Back(i, Skip(i, j)) = j
           /\ \A j \in DOMAIN s \ {i} : /\ Back(i, j) \in DOMAIN s2 /\ s[j] = s2[Back(i, j)]
                                        /\ Skip(i, Back(i, j)) = j
           /\ \A g, h \in DOMAIN s2 : g < h => Skip(i, g) < Skip(i, h)
<1>1. /\ Len(s) \in Nat /\ Len(s2) \in Nat /\ Len(s) = Len(s2) + 1 /\ i \in 1..Len(s)
      /\ DOMAIN s = 1..Len(s) /\ DOMAIN s2 = 1..Len(s2)
  BY ItemOf DEF IsWithout
<1>2. \A j \in DOMAIN s2 : Skip(i, j) \in DOMAIN s \ {i} /\ Back(i, Skip(i, j)) = j
  BY <1>1 DEF Skip, Back
<1>3. \A j \in DOMAIN s \ {i} : Back(i, j) \in DOMAIN s2 /\ Skip(i, Back(i, j)) = j
  BY <1>1 DEF Skip, Back
<1>4. \A g, h \in DOMAIN s2 : g < h => Skip(i, g) < Skip(i, h)
  BY <1>1 DEF Skip
<1> QED BY <1>2, <1>3, <1>4 DEF IsWithout

\* A sequence without its last element is what it was appended to.
LEMMA AppendIsOneMore ==
    ASSUME NEW s, AreItems(s), NEW e, IsItem(e)
    PROVE  IsWithout(Append(s, e), Len(s) + 1, s)
<1>1. /\ Len(s) \in Nat /\ DOMAIN s = 1..Len(s)
      /\ AreItems(Append(s, e)) /\ Len(Append(s, e)) = Len(s) + 1
      /\ DOMAIN Append(s, e) = 1..(Len(s) + 1)
      /\ \A i \in 1..Len(s) : Append(s, e)[i] = s[i]
  BY ItemOf, OneItemMore
<1>2. \A j \in DOMAIN s : Skip(Len(s) + 1, j) = j
  BY <1>1 DEF Skip
<1> QED BY <1>1, <1>2 DEF IsWithout

\* A sequence without its first element is its tail.
LEMMA TailIsOneLess ==
    ASSUME NEW s, AreItems(s), s # <<>>
    PROVE  IsWithout(s, 1, Tail(s)) /\ Head(s) = s[1]
<1>1. s \in Seq(Items) /\ Len(s) \in Nat /\ DOMAIN s = 1..Len(s)
  BY ItemOf
<1>2. /\ Tail(s) \in Seq(Items) /\ Len(Tail(s)) = Len(s) - 1
      /\ \A j \in 1..Len(Tail(s)) : Tail(s)[j] = s[j + 1]
  BY <1>1, HeadTailProperties
<1>3. Len(s) >= 1 /\ 1 \in DOMAIN s /\ DOMAIN Tail(s) = 1..(Len(s) - 1)
  BY <1>1, <1>2, EmptySeq
<1>4. \A j \in DOMAIN Tail(s) : Tail(s)[j] = s[Skip(1, j)] /\ j + 1 \in DOMAIN s
  BY <1>1, <1>2, <1>3 DEF Skip
<1>5. AreItems(Tail(s))
  BY <1>1, <1>2, <1>3, <1>4 DEF AreItems
<1> QED BY <1>1, <1>2, <1>3, <1>4, <1>5 DEF IsWithout

\* RemoveAt removes one element.
LEMMA RemovedIsOneLess ==
    ASSUME NEW s, AreItems(s), NEW i \in DOMAIN s
    PROVE  IsWithout(s, i, RemoveAt(s, i))
<1> DEFINE a == SubSeq(s, 1, i - 1)
           b == SubSeq(s, i + 1, Len(s))
           s2 == RemoveAt(s, i)
<1>1. s \in Seq(Items) /\ Len(s) \in Nat /\ DOMAIN s = 1..Len(s) /\ i \in 1..Len(s)
      /\ \A j \in 1..Len(s) : s[j] \in Items /\ IsItem(s[j])
  BY ItemOf
<1>2. /\ a \in Seq(Items) /\ Len(a) = i - 1
      /\ \A j \in 1..(i - 1) : a[j] = s[j]
  <2>1. \A j \in 1..(i - 1) : s[j] \in Items
    BY <1>1
  <2>2. /\ a \in Seq(Items) /\ Len(a) = IF 1 <= i - 1 THEN i - 1 - 1 + 1 ELSE 0
        /\ \A j \in 1..(i - 1 - 1 + 1) : a[j] = s[1 + j - 1]
    BY <1>1, <2>1, SubSeqProperties
  <2> HIDE DEF a
  <2>3. Len(a) = i - 1
    BY <1>1, <2>2
  <2>4. \A j \in 1..(i - 1) : a[j] = s[j]
    <3> TAKE j \in 1..(i - 1)
    <3>1. j \in 1..(i - 1 - 1 + 1) /\ 1 + j - 1 = j
      BY <1>1
    <3> QED BY <2>2, <3>1
  <2> QED BY <2>2, <2>3, <2>4
<1>3. /\ b \in Seq(Items) /\ Len(b) = Len(s) - i
      /\ \A j \in 1..(Len(s) - i) : b[j] = s[i + j]
  <2>1. \A j \in (i + 1)..Len(s) : s[j] \in Items
    BY <1>1
  <2>2. /\ b \in Seq(Items)
        /\ Len(b) = IF i + 1 <= Len(s) THEN Len(s) - (i + 1) + 1 ELSE 0
        /\ \A j \in 1..(Len(s) - (i + 1) + 1) : b[j] = s[i + 1 + j - 1]
    BY <1>1, <2>1, SubSeqProperties
  <2> HIDE DEF b
  <2>3. Len(b) = Len(s) - i
    BY <1>1, <2>2
  <2>4. \A j \in 1..(Len(s) - i) : b[j] = s[i + j]
    <3> TAKE j \in 1..(Len(s) - i)
    <3>1. j \in 1..(Len(s) - (i + 1) + 1) /\ i + 1 + j - 1 = i + j
      BY <1>1
    <3> QED BY <2>2, <3>1
  <2> QED BY <2>2, <2>3, <2>4
<1>4. s2 = a \o b
  BY DEF RemoveAt
<1> HIDE DEF a, b, s2
<1>5. /\ s2 \in Seq(Items) /\ Len(s2) = Len(s) - 1
      /\ \A j \in 1..(Len(s) - 1) : s2[j] = IF j <= i - 1 THEN a[j] ELSE b[j - (i - 1)]
  <2>1. /\ s2 \in Seq(Items) /\ Len(s2) = Len(a) + Len(b)
        /\ \A j \in 1..(Len(a) + Len(b)) : s2[j] = IF j <= Len(a) THEN a[j] ELSE b[j - Len(a)]
    BY <1>2, <1>3, <1>4, ConcatProperties
  <2>2. Len(a) + Len(b) = Len(s) - 1
    BY <1>1, <1>2, <1>3
  <2> QED BY <1>2, <2>1, <2>2
<1>6. \A j \in 1..(Len(s) - 1) : s2[j] = s[Skip(i, j)] /\ Skip(i, j) \in DOMAIN s
  <2> TAKE j \in 1..(Len(s) - 1)
  <2>1. CASE j < i
    BY <1>1, <1>2, <1>5, <2>1 DEF Skip
  <2>2. CASE ~(j < i)
    <3>1. j - (i - 1) \in 1..(Len(s) - i) /\ i + (j - (i - 1)) = j + 1
      BY <1>1, <2>2
    <3>2. s2[j] = b[j - (i - 1)]
      BY <1>1, <1>5, <2>2
    <3>3. b[j - (i - 1)] = s[i + (j - (i - 1))]
      BY <1>3, <3>1
    <3>4. s2[j] = s[j + 1] /\ j + 1 \in 1..Len(s)
      BY <1>1, <3>1, <3>2, <3>3
    <3> QED BY <1>1, <2>2, <3>4 DEF Skip
  <2> QED BY <2>1, <2>2
<1>7. DOMAIN s2 = 1..(Len(s) - 1)
  BY <1>5
<1>8. AreItems(s2)
  BY <1>1, <1>5, <1>6, <1>7 DEF AreItems
<1> QED BY <1>1, <1>5, <1>6, <1>7, <1>8 DEF IsWithout, s2

\* The first item of a kind that may be evicted is one.
LEMMA LeastOf ==
    ASSUME NEW T \in SUBSET Nat, T # {} PROVE \E x \in T : \A y \in T : x <= y
<1>1. PICK x \in T : \A y \in T : <<y, x>> \notin OpToRel(<, Nat)
  BY NatLessThanWellFounded, WFMin
<1>2. \A y \in T : ~(y < x)
  BY <1>1 DEF OpToRel
<1>3. x \in Nat /\ \A y \in T : y \in Nat
  OBVIOUS
<1> QED BY <1>2, <1>3

\* What is evicted is a buffered notice.
LEMMA FirstIsEvictable ==
    ASSUME AreItems(boxes), FirstEvictable > 0
    PROVE  FirstEvictable \in Where(boxes, "notice")
<1> DEFINE I == {i \in 1..Len(boxes) : Evictable(boxes[i])}
<1>1. FirstEvictable = IF I # {} THEN Min(I) ELSE 0
  BY DEF FirstEvictable, SelectInSeq
<1>2. I \in SUBSET Nat /\ DOMAIN boxes = 1..Len(boxes)
  BY ItemOf
<1>3. I # {}
  BY <1>1
<1>4. Min(I) \in I
  BY <1>2, <1>3, LeastOf DEF Min
<1> QED BY <1>1, <1>2, <1>3, <1>4 DEF Where, Evictable

\* The queue without one item: what counts and the keys.
ControlsOf(s) == {i \in DOMAIN s : IsControl(s[i])}
KeysOf(s) == {s[i].key : i \in Where(s, "row")}
OneRowPerKey(s) == \A i, j \in Where(s, "row") : s[i].key = s[j].key => i = j

\* The control items of a buffer are finitely many.
LEMMA ControlsAreFew ==
    ASSUME NEW s, AreItems(s)
    PROVE  IsFiniteSet(ControlsOf(s)) /\ Cardinality(ControlsOf(s)) \in Nat
<1>1. ControlsOf(s) \subseteq 1..Len(s) /\ Len(s) \in Nat
  BY ItemOf DEF ControlsOf
<1>2. IsFiniteSet(1..Len(s))
  BY <1>1, FS_Interval
<1>3. IsFiniteSet(ControlsOf(s))
  BY <1>1, <1>2, FS_Subset
<1> QED BY <1>3, FS_CardinalityType

\* One item less is one control item less, if it was one.
LEMMA ControlsOfLess ==
    ASSUME NEW s, NEW i, NEW s2, IsWithout(s, i, s2)
    PROVE  Cardinality(ControlsOf(s)) =
             Cardinality(ControlsOf(s2)) + (IF IsControl(s[i]) THEN 1 ELSE 0)
<1>1. AreItems(s) /\ AreItems(s2) /\ i \in DOMAIN s
  BY DEF IsWithout
<1> DEFINE S == ControlsOf(s2)
           T == ControlsOf(s) \ {i}
           f == [j \in S |-> Skip(i, j)]
           Other(j) == Back(i, j)
<1>2. \A j \in S : Skip(i, j) \in T /\ Back(i, Skip(i, j)) = j
  BY SkipAndBack DEF ControlsOf
<1>3. \A j \in T : Other(j) \in S /\ Skip(i, Other(j)) = j
  BY SkipAndBack DEF ControlsOf
<1> HIDE DEF S, T, Other
<1>4. f \in [S -> T] /\ \A j \in S : f[j] = Skip(i, j)
  BY <1>2
<1>5. \A g, h \in S : f[g] = f[h] => g = h
  BY <1>2, <1>4
<1>6. \A j \in T : \E g \in S : f[g] = j
  BY <1>3, <1>4
<1>7. f \in Bijection(S, T)
  BY <1>4, <1>5, <1>6 DEF Bijection, Injection, Surjection, IsInjective
<1>8. IsFiniteSet(S) /\ Cardinality(T) = Cardinality(S)
  <2>1. IsFiniteSet(S)
    BY <1>1, ControlsAreFew DEF S
  <2>2. ExistsBijection(S, T)
    BY <1>7 DEF ExistsBijection
  <2> QED BY <2>1, <2>2, FS_Bijection
<1>9. /\ IsFiniteSet(ControlsOf(s)) /\ Cardinality(ControlsOf(s)) \in Nat
      /\ Cardinality(T) = IF i \in ControlsOf(s) THEN Cardinality(ControlsOf(s)) - 1
                          ELSE Cardinality(ControlsOf(s))
  BY <1>1, ControlsAreFew, FS_RemoveElement DEF T
<1>10. i \in ControlsOf(s) <=> IsControl(s[i])
  BY <1>1 DEF ControlsOf
<1> QED BY <1>8, <1>9, <1>10 DEF S

\* One row less is one key less, if every key has one row.
LEMMA KeysOfLess ==
    ASSUME NEW s, NEW i, NEW s2, IsWithout(s, i, s2)
    PROVE  /\ KeysOf(s) = KeysOf(s2) \cup (IF s[i].kind = "row" THEN {s[i].key} ELSE {})
           /\ OneRowPerKey(s) <=>
                /\ OneRowPerKey(s2)
                /\ s[i].kind = "row" => s[i].key \notin KeysOf(s2)
<1>1. AreItems(s) /\ AreItems(s2) /\ i \in DOMAIN s
  BY DEF IsWithout
<1>2. \A j \in Where(s2, "row") : /\ Skip(i, j) \in Where(s, "row") /\ Skip(i, j) # i
                                  /\ s2[j] = s[Skip(i, j)]
                                  /\ Back(i, Skip(i, j)) = j
  BY SkipAndBack DEF Where
<1>3. \A j \in Where(s, "row") : j # i => /\ Back(i, j) \in Where(s2, "row")
                                          /\ s[j] = s2[Back(i, j)]
                                          /\ Skip(i, Back(i, j)) = j
  BY SkipAndBack DEF Where
<1>4. i \in Where(s, "row") <=> s[i].kind = "row"
  BY <1>1 DEF Where
<1>5. KeysOf(s) = KeysOf(s2) \cup (IF s[i].kind = "row" THEN {s[i].key} ELSE {})
  <2> SUFFICES ASSUME NEW k
               PROVE  k \in KeysOf(s) <=> k \in KeysOf(s2) \/ (s[i].kind = "row" /\ k = s[i].key)
    OBVIOUS
  <2>1. k \in KeysOf(s) <=> \E j \in Where(s, "row") : k = s[j].key
    BY DEF KeysOf
  <2>2. k \in KeysOf(s2) <=> \E j \in Where(s2, "row") : k = s2[j].key
    BY DEF KeysOf
  <2> QED BY <1>2, <1>3, <1>4, <2>1, <2>2
<1>6. ASSUME OneRowPerKey(s)
      PROVE  OneRowPerKey(s2) /\ (s[i].kind = "row" => s[i].key \notin KeysOf(s2))
  <2>1. OneRowPerKey(s2)
    BY <1>2, <1>6 DEF OneRowPerKey
  <2>2. s[i].kind = "row" => s[i].key \notin KeysOf(s2)
    BY <1>2, <1>4, <1>6 DEF OneRowPerKey, KeysOf
  <2> QED BY <2>1, <2>2
<1>7. ASSUME OneRowPerKey(s2), s[i].kind = "row" => s[i].key \notin KeysOf(s2)
      PROVE  OneRowPerKey(s)
  <2> SUFFICES ASSUME NEW g \in Where(s, "row"), NEW h \in Where(s, "row"), s[g].key = s[h].key
               PROVE  g = h
    BY DEF OneRowPerKey
  <2>1. \A j \in Where(s, "row") : j # i => s[j].key \in KeysOf(s2)
    BY <1>3 DEF KeysOf
  <2>2. CASE g # i /\ h # i
    <3>1. Back(i, g) = Back(i, h)
      BY <1>3, <1>7, <2>2 DEF OneRowPerKey
    <3> QED BY <1>3, <2>2, <3>1
  <2>3. CASE ~(g # i /\ h # i)
    BY <1>4, <1>7, <2>1, <2>3
  <2> QED BY <2>2, <2>3
<1> QED BY <1>5, <1>6, <1>7

\* A notice that makes room is missing in what is seen, and counted once.
LEMMA SeenEvicted ==
    ASSUME NEW em, AreNumbered(em), NEW sn, NEW i, NEW sn2, IsWithout(sn, i, sn2),
           NEW lost, Told(em, sn, lost), sn[i].kind = "notice"
    PROVE  /\ Told(em, sn2, lost)
           /\ Cardinality(Evicted(em, sn2, lost)) = Cardinality(Evicted(em, sn, lost)) + 1
<1>0. AreItems(sn) /\ AreItems(sn2) /\ i \in DOMAIN sn
  BY DEF IsWithout
<1>1. /\ \A j \in DOMAIN sn2 : Skip(i, j) \in DOMAIN sn /\ Skip(i, j) # i
                               /\ sn2[j] = sn[Skip(i, j)]
      /\ \A j \in DOMAIN sn : j # i => Back(i, j) \in DOMAIN sn2 /\ sn[j] = sn2[Back(i, j)]
      /\ \A g, h \in DOMAIN sn2 : g < h => Skip(i, g) < Skip(i, h)
  BY SkipAndBack
<1>2. \A k : k # "notice" => PartsOf(sn2, k) = PartsOf(sn, k)
  <2> SUFFICES ASSUME NEW k, k # "notice", NEW n
               PROVE  n \in PartsOf(sn2, k) <=> n \in PartsOf(sn, k)
    OBVIOUS
  <2>1. n \in PartsOf(sn2, k) <=> \E j \in DOMAIN sn2 : sn2[j].kind = k /\ n \in sn2[j].parts
    BY DEF PartsOf, Where
  <2>2. n \in PartsOf(sn, k) <=> \E j \in DOMAIN sn : sn[j].kind = k /\ n \in sn[j].parts
    BY DEF PartsOf, Where
  <2> QED BY <1>1, <2>1, <2>2
<1>3. PICK n : sn[i].parts = {n} /\ n \in Nat
  <2>1. i \in Where(sn, "notice") /\ sn[i].parts \in SUBSET Nat
    BY <1>0, ItemOf DEF Where
  <2>2. Single(sn[i])
    BY <2>1 DEF Told, Exact
  <2> QED BY <2>1, <2>2 DEF Single
<1>4. \A j \in DOMAIN sn : j # i /\ sn[j].kind = "notice" => n \notin sn[j].parts
  <2> SUFFICES ASSUME NEW j \in DOMAIN sn, j # i, sn[j].kind = "notice", n \in sn[j].parts
               PROVE  FALSE
    OBVIOUS
  <2>1. Single(sn[j]) /\ j \in Nat /\ i \in Nat
    BY <1>0, ItemOf DEF Told, Exact, Where
  <2>2. sn[j].parts = {n}
    BY <2>1 DEF Single
  <2>3. Before(sn[i], sn[j]) \/ Before(sn[j], sn[i])
    <3>1. CASE i < j
      BY <1>0, <3>1 DEF Told, InOrder
    <3>2. CASE j < i
      BY <1>0, <3>2 DEF Told, InOrder
    <3> QED BY <2>1, <3>1, <3>2
  <2> QED BY <1>3, <2>2, <2>3 DEF Before
<1>5. PartsOf(sn2, "notice") = PartsOf(sn, "notice") \ {n} /\ n \in PartsOf(sn, "notice")
  <2>1. \A m : m \in PartsOf(sn2, "notice") <=>
                 \E j \in DOMAIN sn2 : sn2[j].kind = "notice" /\ m \in sn2[j].parts
    BY DEF PartsOf, Where
  <2>2. \A m : m \in PartsOf(sn, "notice") <=>
                 \E j \in DOMAIN sn : sn[j].kind = "notice" /\ m \in sn[j].parts
    BY DEF PartsOf, Where
  <2> QED BY <1>0, <1>1, <1>3, <1>4, <2>1, <2>2
<1>6. Exact(em, sn2, lost)
  <2>1. \A j \in Where(sn2, "event") \cup Where(sn2, "notice") : Single(sn2[j])
    BY <1>1 DEF Told, Exact, Where
  <2> QED BY <1>2, <1>5, <2>1 DEF Told, Exact
<1>7. InOrder(sn2)
  BY <1>1 DEF Told, InOrder
<1>8. RowsFit(em, sn2)
  <2>1. \A j \in Where(sn2, "row") : Skip(i, j) \in Where(sn, "row") /\ sn2[j] = sn[Skip(i, j)]
                                     /\ j \in DOMAIN sn2
    BY <1>1 DEF Where
  <2> QED BY <1>1, <2>1 DEF Told, RowsFit
<1>9. Cardinality(Evicted(em, sn2, lost)) = Cardinality(Evicted(em, sn, lost)) + 1
  <2>1. /\ PartsOf(em, "notice") \subseteq 1..Len(em) /\ Len(em) \in Nat
        /\ n \in PartsOf(em, "notice") /\ n \notin lost
    BY <1>5, PartsOfNumbered, ItemOf DEF Told, Exact, AreNumbered
  <2>2. Evicted(em, sn2, lost) = Evicted(em, sn, lost) \cup {n} /\ n \notin Evicted(em, sn, lost)
    BY <1>5, <2>1 DEF Evicted
  <2>3. IsFiniteSet(Evicted(em, sn, lost))
    <3>1. IsFiniteSet(1..Len(em)) /\ Evicted(em, sn, lost) \in SUBSET (1..Len(em))
      BY <2>1, FS_Interval DEF Evicted
    <3> QED BY <3>1, FS_Subset
  <2> QED BY <2>2, <2>3, FS_AddElement
<1> QED BY <1>6, <1>7, <1>8, <1>9 DEF Told

\* What was handed out and what is queued, one after the other.
LEMMA OneAfterOther ==
    ASSUME NEW g, AreItems(g), NEW q, AreItems(q)
    PROVE  /\ AreItems(g \o q) /\ Len(g \o q) = Len(g) + Len(q)
           /\ \A i \in DOMAIN (g \o q) :
                (g \o q)[i] = IF i <= Len(g) THEN g[i] ELSE q[i - Len(g)]
           /\ \A i \in DOMAIN q : Len(g) + i \in DOMAIN (g \o q) /\ (g \o q)[Len(g) + i] = q[i]
<1>1. /\ g \in Seq(Items) /\ Len(g) \in Nat /\ DOMAIN g = 1..Len(g)
      /\ q \in Seq(Items) /\ Len(q) \in Nat /\ DOMAIN q = 1..Len(q)
      /\ \A i \in DOMAIN g : IsItem(g[i])
      /\ \A i \in DOMAIN q : IsItem(q[i])
  BY ItemOf
<1> DEFINE s == g \o q
<1>2. /\ s \in Seq(Items) /\ Len(s) = Len(g) + Len(q)
      /\ \A i \in 1..(Len(g) + Len(q)) : s[i] = IF i <= Len(g) THEN g[i] ELSE q[i - Len(g)]
  BY <1>1, ConcatProperties
<1> HIDE DEF s
<1>3. DOMAIN s = 1..(Len(g) + Len(q))
  BY <1>1, <1>2
<1>4. \A i \in DOMAIN s : IsItem(s[i])
  <2> TAKE i \in DOMAIN s
  <2>1. CASE i <= Len(g)
    BY <1>1, <1>2, <1>3, <2>1
  <2>2. CASE ~(i <= Len(g))
    <3>1. i - Len(g) \in DOMAIN q
      BY <1>1, <1>3, <2>2
    <3> QED BY <1>1, <1>2, <1>3, <2>2, <3>1
  <2> QED BY <2>1, <2>2
<1>5. \A i \in DOMAIN q : Len(g) + i \in DOMAIN s /\ s[Len(g) + i] = q[i]
  <2> TAKE i \in DOMAIN q
  <2>1. Len(g) + i \in 1..(Len(g) + Len(q)) /\ ~(Len(g) + i <= Len(g)) /\ Len(g) + i - Len(g) = i
    BY <1>1
  <2> QED BY <1>2, <1>3, <2>1
<1> QED BY <1>2, <1>3, <1>4, <1>5 DEF AreItems, s

\* What is appended to the buffer is appended to what is seen.
LEMMA MoreAtTheEnd ==
    ASSUME NEW g, AreItems(g), NEW q, AreItems(q), NEW e, IsItem(e)
    PROVE  /\ g \o Append(q, e) = Append(g \o q, e)
           /\ q = <<>> => g \o q = g /\ Append(g, e) \o q = Append(g, e)
           /\ g = <<>> => g \o q = q
<1>1. g \in Seq(Items) /\ q \in Seq(Items) /\ e \in Items
  BY ItemOf DEF IsItem
<1>2. <<e>> \in Seq(Items) /\ g \o q \in Seq(Items) /\ Append(g, e) \in Seq(Items)
  BY <1>1, ConcatProperties, AppendProperties
<1>3. Append(q, e) = q \o <<e>> /\ Append(g \o q, e) = (g \o q) \o <<e>>
  BY <1>1, <1>2, AppendIsConcat
<1>4. g \o Append(q, e) = Append(g \o q, e)
  BY <1>1, <1>2, <1>3, ConcatAssociative
<1> QED BY <1>1, <1>2, <1>4, ConcatEmptySeq

\* What moves from the head of the buffer to the consumer stays in its place.
LEMMA HandedOut ==
    ASSUME NEW g, AreItems(g), NEW q, AreItems(q), q # <<>>
    PROVE  Append(g, Head(q)) \o Tail(q) = g \o q
<1> DEFINE h == Head(q)
           t == Tail(q)
           a == Append(g, h)
           l == a \o t
           r == g \o q
<1>1. IsWithout(q, 1, t) /\ h = q[1]
  BY TailIsOneLess
<1>2. /\ AreItems(t) /\ 1 \in DOMAIN q /\ Len(q) = Len(t) + 1 /\ IsItem(h)
      /\ \A j \in DOMAIN t : t[j] = q[Skip(1, j)]
  BY <1>1, ItemOf DEF IsWithout
<1> HIDE DEF h, t
<1>3. /\ AreItems(a) /\ Len(a) = Len(g) + 1 /\ a[Len(g) + 1] = h
      /\ \A i \in 1..Len(g) : a[i] = g[i]
  BY <1>2, OneItemMore
<1> HIDE DEF a
<1>4. /\ Len(g) \in Nat /\ Len(t) \in Nat /\ Len(q) \in Nat /\ DOMAIN t = 1..Len(t)
      /\ DOMAIN q = 1..Len(q)
  BY <1>2, ItemOf
<1>5. /\ AreItems(l) /\ Len(l) = Len(a) + Len(t) /\ l \in Seq(Items) /\ DOMAIN l = 1..Len(l)
      /\ \A i \in DOMAIN l : l[i] = IF i <= Len(a) THEN a[i] ELSE t[i - Len(a)]
  <2>1. AreItems(l) /\ Len(l) = Len(a) + Len(t)
    BY <1>2, <1>3, OneAfterOther
  <2>2. l \in Seq(Items) /\ DOMAIN l = 1..Len(l)
    BY <2>1, ItemOf
  <2>3. \A i \in DOMAIN l : l[i] = IF i <= Len(a) THEN a[i] ELSE t[i - Len(a)]
    BY <1>2, <1>3, OneAfterOther
  <2> QED BY <2>1, <2>2, <2>3
<1>6. /\ AreItems(r) /\ Len(r) = Len(g) + Len(q) /\ r \in Seq(Items) /\ DOMAIN r = 1..Len(r)
      /\ \A i \in DOMAIN r : r[i] = IF i <= Len(g) THEN g[i] ELSE q[i - Len(g)]
  <2>1. AreItems(r) /\ Len(r) = Len(g) + Len(q)
    BY <1>2, OneAfterOther
  <2>2. r \in Seq(Items) /\ DOMAIN r = 1..Len(r)
    BY <2>1, ItemOf
  <2>3. \A i \in DOMAIN r : r[i] = IF i <= Len(g) THEN g[i] ELSE q[i - Len(g)]
    BY <1>2, OneAfterOther
  <2> QED BY <2>1, <2>2, <2>3
<1> HIDE DEF l, r
<1>7. Len(l) = Len(r) /\ DOMAIN l = DOMAIN r
  BY <1>2, <1>3, <1>4, <1>5, <1>6
<1>8. ASSUME NEW i \in 1..Len(l) PROVE l[i] = r[i]
  <2>0. i \in DOMAIN l /\ i \in DOMAIN r /\ i \in Nat
    BY <1>5, <1>7
  <2>1. CASE i <= Len(g)
    BY <1>3, <1>4, <1>5, <1>6, <2>0, <2>1
  <2>2. CASE i = Len(g) + 1
    <3>1. l[i] = h
      BY <1>3, <1>4, <1>5, <2>0, <2>2
    <3>2. r[i] = q[i - Len(g)] /\ i - Len(g) = 1
      BY <1>4, <1>6, <2>0, <2>2
    <3> QED BY <1>1, <3>1, <3>2
  <2>3. CASE i > Len(g) + 1
    <3>1. l[i] = t[i - Len(a)] /\ i - Len(a) \in DOMAIN t
      BY <1>3, <1>4, <1>5, <2>0, <2>3
    <3>2. Skip(1, i - Len(a)) = i - Len(g)
      BY <1>3, <1>4, <2>3, <3>1 DEF Skip
    <3>3. r[i] = q[i - Len(g)]
      BY <1>4, <1>6, <2>0, <2>3
    <3> QED BY <1>2, <3>1, <3>2, <3>3
  <2> QED BY <1>4, <2>0, <2>1, <2>2, <2>3
<1>9. l = r
  BY <1>5, <1>6, <1>7, <1>8, SeqEqual
<1> QED BY <1>9 DEF l, r, a, t, h

-----------------------------------------------------------------------------
(* What is known of a subscription at any time *)

\* The summary tells how many notices were evicted, or they are still counted.
Account(em, sn, lost, d) ==
    LET n == Cardinality(Evicted(em, sn, lost)) IN
    /\ Where(sn, "summary") = {} => d = n
    /\ \A i \in Where(sn, "summary") : sn[i].parts = {n} /\ d = 0 /\ i = 1

Story ==
    /\ AreNumbered(emitted) /\ AreItems(got)
    /\ Told(emitted, Seen, overflowed)
    /\ Account(emitted, Seen, overflowed, discarded)
    /\ overflowed # {} => Seen # <<>> /\ Last1(Seen).kind = "fatal"

Queue ==
    /\ AreItems(boxes) /\ OneRowPerKey(boxes)
    /\ counted = Cardinality(ControlsOf(boxes)) /\ keyed = KeysOf(boxes)

SubPhases ==
    /\ state \in {"pending", "active", "rejected", "closed"}
    /\ iterating \in BOOLEAN /\ buffering \in BOOLEAN /\ over \in BOOLEAN
    /\ discarded \in Nat /\ waiters \in 0..MaxWaiters
    /\ iterating => buffering /\ discarded = 0
    /\ ~iterating => got = <<>> /\ waiters = 0 /\ Where(boxes, "summary") = {}
    /\ ~buffering => boxes = <<>> /\ emitted = <<>> /\ overflowed = {} /\ discarded = 0
    /\ \/ overflowed = {}
       \/ Closed /\ emitted # <<>> /\ overflowed = {Len(emitted)}
    /\ counted <= BufferSize + (IF iterating THEN 1 ELSE 0) + (IF Closed THEN 1 ELSE 0)
    /\ waiters > 0 => boxes = <<>> /\ ~Closed

SubInv == Story /\ Queue /\ SubPhases

\* What the inductive invariant says of types, for the lemmas above.
LEMMA SeenIsItems ==
    ASSUME SubInv
    PROVE  /\ AreItems(Seen) /\ AreItems(boxes) /\ AreItems(got) /\ AreNumbered(emitted)
           /\ counted \in Nat /\ (~iterating => Seen = boxes)
           /\ overflowed \in SUBSET (1..Len(emitted)) /\ (~Closed => overflowed = {})
<1>1. AreItems(boxes) /\ AreItems(got) /\ AreNumbered(emitted)
  BY DEF SubInv, Story, Queue
<1>2. AreItems(Seen)
  BY <1>1, OneAfterOther DEF Seen
<1>3. counted \in Nat
  BY <1>1, ControlsAreFew DEF SubInv, Queue
<1>4. ~iterating => Seen = boxes
  <2>1. ~iterating => got = <<>>
    BY DEF SubInv, SubPhases
  <2>2. boxes \in Seq(Items)
    BY <1>1, ItemOf
  <2> QED BY <2>1, <2>2, ConcatEmptySeq DEF Seen
<1>5. overflowed \in SUBSET (1..Len(emitted)) /\ (~Closed => overflowed = {})
  <2>1. emitted # <<>> => Len(emitted) \in 1..Len(emitted)
    BY <1>1, ItemOf, EmptySeq DEF AreNumbered
  <2> QED BY <2>1 DEF SubInv, SubPhases
<1> QED BY <1>1, <1>2, <1>3, <1>4, <1>5

-----------------------------------------------------------------------------
(* Every step keeps it *)

\* What is seen stays what it is.
LEMMA StoryKept ==
    ASSUME SubInv, AreItems(got'), AreItems(boxes'), Seen' = Seen,
           UNCHANGED <<emitted, overflowed, discarded>>
    PROVE  Story'
BY DEF SubInv, Story

\* An item is seen as it was emitted.
LEMMA StoryGoesOn ==
    ASSUME SubInv, ~Closed, NEW e, IsNext(emitted, e), AreItems(got'),
           emitted' = Append(emitted, e), Seen' = Append(Seen, e),
           UNCHANGED <<overflowed, discarded>>
    PROVE  Story'
<1>1. AreItems(Seen) /\ AreNumbered(emitted) /\ overflowed = {}
  BY SeenIsItems
<1>2. Told(emitted, Seen, {}) /\ {} \in SUBSET (1..Len(emitted))
  BY <1>1 DEF SubInv, Story
<1>3. /\ Told(Append(emitted, e), Append(Seen, e), {})
      /\ Evicted(Append(emitted, e), Append(Seen, e), {}) = Evicted(emitted, Seen, {})
  BY <1>1, <1>2, SeenAsSent
<1>4. AreNumbered(emitted')
  BY <1>1, NumberedMore
<1>5. Where(Append(Seen, e), "summary") = Where(Seen, "summary")
      /\ \A i \in Where(Seen, "summary") : Append(Seen, e)[i] = Seen[i]
  <2>1. /\ DOMAIN Seen = 1..Len(Seen) /\ DOMAIN Append(Seen, e) = 1..(Len(Seen) + 1)
        /\ \A i \in 1..Len(Seen) : Append(Seen, e)[i] = Seen[i]
        /\ Append(Seen, e)[Len(Seen) + 1].kind # "summary"
        /\ Len(Seen) \in Nat
    BY <1>1, OneItemMore, ItemOf DEF IsNext, Sources
  <2> QED BY <2>1 DEF Where
<1>6. Account(Append(emitted, e), Append(Seen, e), {}, discarded)
  BY <1>1, <1>3, <1>5 DEF SubInv, Story, Account
<1> QED BY <1>1, <1>3, <1>4, <1>6 DEF Story

\* The fatal error is the last thing seen, and says that an item was lost if one was.
LEMMA StoryFails ==
    ASSUME SubInv, ~Closed, AreItems(got'), Seen' = Append(Seen, Fatal),
           \/ UNCHANGED <<emitted, overflowed>>
           \/ \E e : /\ IsNext(emitted, e) /\ e.kind # "row"
                     /\ emitted' = Append(emitted, e) /\ overflowed' = e.parts,
           UNCHANGED discarded
    PROVE  Story'
<1>1. AreItems(Seen) /\ AreNumbered(emitted) /\ overflowed = {}
  BY SeenIsItems
<1>2. Told(emitted, Seen, {}) /\ Account(emitted, Seen, {}, discarded)
  BY <1>1 DEF SubInv, Story
<1>3. /\ AreNumbered(emitted') /\ Told(emitted', Seen, overflowed')
      /\ Evicted(emitted', Seen, overflowed') = Evicted(emitted, Seen, {})
  <2>1. CASE UNCHANGED <<emitted, overflowed>>
    BY <1>1, <1>2, <2>1
  <2>2. CASE \E e : /\ IsNext(emitted, e) /\ e.kind # "row"
                    /\ emitted' = Append(emitted, e) /\ overflowed' = e.parts
    <3>1. PICK e : /\ IsNext(emitted, e) /\ e.kind # "row"
                   /\ emitted' = Append(emitted, e) /\ overflowed' = e.parts
      BY <2>2
    <3> QED BY <1>1, <1>2, <3>1, NumberedMore, LostUnseen
  <2> QED BY <2>1, <2>2
<1>4. IsExtra(Fatal) /\ Fatal.kind = "fatal"
  BY DEF IsExtra, IsItem, Items, Fatal, Item, Sources
<1>5. /\ Told(emitted', Append(Seen, Fatal), overflowed')
      /\ Evicted(emitted', Append(Seen, Fatal), overflowed') = Evicted(emitted, Seen, {})
  BY <1>1, <1>3, <1>4, SeenWithError
<1>6. /\ DOMAIN Seen = 1..Len(Seen) /\ DOMAIN Append(Seen, Fatal) = 1..(Len(Seen) + 1)
      /\ \A i \in 1..Len(Seen) : Append(Seen, Fatal)[i] = Seen[i]
      /\ Append(Seen, Fatal)[Len(Seen) + 1] = Fatal
      /\ Len(Seen) \in Nat /\ Len(Append(Seen, Fatal)) = Len(Seen) + 1
  BY <1>1, <1>4, OneItemMore, ItemOf DEF IsExtra
<1>7. Where(Append(Seen, Fatal), "summary") = Where(Seen, "summary")
      /\ \A i \in Where(Seen, "summary") : Append(Seen, Fatal)[i] = Seen[i]
  BY <1>4, <1>6 DEF Where
<1>8. Account(emitted', Append(Seen, Fatal), overflowed', discarded)
  BY <1>2, <1>5, <1>7 DEF Account
<1>9. Append(Seen, Fatal) # <<>> /\ Last1(Append(Seen, Fatal)).kind = "fatal"
  BY <1>4, <1>6 DEF Last1
<1> QED BY <1>3, <1>5, <1>8, <1>9 DEF Story

\* fail: the error goes to a waiter or to the end of the queue.
LEMMA FailsAtTheEnd ==
    ASSUME SubInv, ~Closed, FailsWith(boxes, counted, Fatal),
           UNCHANGED <<iterating, buffering, keyed, discarded>>,
           buffering \/ UNCHANGED <<emitted, overflowed>>,
           \/ UNCHANGED <<emitted, overflowed>>
           \/ \E e : /\ IsNext(emitted, e) /\ e.kind # "row"
                     /\ emitted' = Append(emitted, e) /\ overflowed' = e.parts
    PROVE  SubInv'
<1>1. /\ AreItems(Seen) /\ AreItems(boxes) /\ AreItems(got) /\ AreNumbered(emitted)
      /\ counted \in Nat /\ overflowed = {}
  BY SeenIsItems
<1>2. IsExtra(Fatal) /\ IsItem(Fatal) /\ Fatal.kind = "fatal" /\ IsControl(Fatal)
  BY DEF IsExtra, IsItem, Items, Fatal, Item, Sources, IsControl, Control
<1>3. /\ Closed' /\ state' \in {"rejected", "closed"} /\ waiters' = 0 /\ over' \in BOOLEAN
  <2>1. state' \in {"rejected", "closed"} /\ waiters' = 0
    BY DEF FailsWith, Finishes
  <2>2. over' = (over \/ waiters > 0) \/ over' = (over \/ waiters > 1)
    BY DEF FailsWith, Finishes
  <2>3. over' \in BOOLEAN
    BY <2>2, Zenon DEF SubInv, SubPhases
  <2> QED BY <2>1, <2>3 DEF Closed
<1>7. counted <= BufferSize + (IF iterating THEN 1 ELSE 0) /\ 0 \in 0..MaxWaiters
  BY SubscriptionAssumption DEF SubInv, SubPhases
<1>4. CASE ~buffering
  <2>1. UNCHANGED <<boxes, counted, got, emitted, overflowed>>
    BY <1>4 DEF FailsWith
  <2>2. Seen' = Seen
    BY <2>1 DEF Seen
  <2>3. Story'
    BY <1>1, <2>1, <2>2, StoryKept
  <2>4. Queue'
    BY <2>1 DEF SubInv, Queue
  <2>5. counted' <= BufferSize + (IF iterating' THEN 1 ELSE 0) + (IF Closed' THEN 1 ELSE 0)
    BY <1>1, <1>3, <1>7, <2>1, SubscriptionAssumption
  <2>6. SubPhases'
    BY <1>1, <1>3, <1>4, <1>7, <2>1, <2>5 DEF SubInv, SubPhases
  <2> QED BY <2>3, <2>4, <2>6 DEF SubInv
<1>5. CASE buffering /\ waiters > 0
  <2>1. got' = Append(got, Fatal) /\ boxes' = boxes /\ counted' = counted /\ boxes = <<>>
    BY <1>5 DEF FailsWith, SubInv, SubPhases
  <2>2. Seen' = Append(Seen, Fatal) /\ AreItems(got')
    BY <1>1, <1>2, <2>1, MoreAtTheEnd, OneItemMore DEF Seen
  <2>3. Story'
    BY <2>2, StoryFails
  <2>4. Queue'
    BY <2>1 DEF SubInv, Queue
  <2>5. iterating /\ iterating'
    BY <1>5 DEF SubInv, SubPhases
  <2>6. overflowed' = {} \/ (emitted' # <<>> /\ overflowed' = {Len(emitted')})
    BY <1>1, NumberedMore, ItemOf DEF IsNext, AreNumbered
  <2>7. counted' <= BufferSize + (IF iterating' THEN 1 ELSE 0) + (IF Closed' THEN 1 ELSE 0)
    BY <1>1, <1>3, <1>7, <2>1, SubscriptionAssumption
  <2>8. SubPhases'
    BY <1>1, <1>3, <1>5, <1>7, <2>1, <2>5, <2>6, <2>7 DEF SubInv, SubPhases
  <2> QED BY <2>3, <2>4, <2>8 DEF SubInv
<1>6. CASE buffering /\ ~(waiters > 0)
  <2>1. got' = got /\ boxes' = Append(boxes, Fatal) /\ counted' = counted + 1
    BY <1>6 DEF FailsWith
  <2>2. Seen' = Append(Seen, Fatal) /\ AreItems(got')
    BY <1>1, <1>2, <2>1, MoreAtTheEnd DEF Seen
  <2>3. Story'
    BY <2>2, StoryFails
  <2>4. IsWithout(boxes', Len(boxes) + 1, boxes) /\ boxes'[Len(boxes) + 1] = Fatal
    BY <1>1, <1>2, <2>1, AppendIsOneMore, OneItemMore
  <2>5. Queue'
    <3>1. AreItems(boxes')
      BY <2>4 DEF IsWithout
    <3>2. Cardinality(ControlsOf(boxes')) = Cardinality(ControlsOf(boxes)) + 1
      BY <1>2, <2>4, ControlsOfLess
    <3>3. KeysOf(boxes') = KeysOf(boxes) /\ (OneRowPerKey(boxes) => OneRowPerKey(boxes'))
      <4>1. boxes'[Len(boxes) + 1].kind # "row"
        BY <1>2, <2>4
      <4>2. KeysOf(boxes') = KeysOf(boxes) \cup {}
        BY <2>4, <4>1, KeysOfLess
      <4>3. OneRowPerKey(boxes) => OneRowPerKey(boxes')
        BY <2>4, <4>1, KeysOfLess
      <4> QED BY <4>2, <4>3
    <3> QED BY <2>1, <3>1, <3>2, <3>3 DEF SubInv, Queue
  <2>6. overflowed' = {} \/ (emitted' # <<>> /\ overflowed' = {Len(emitted')})
    BY <1>1, NumberedMore, ItemOf DEF IsNext, AreNumbered
  <2>7. ~iterating => Where(boxes', "summary") = {}
    <3>1. \A i \in DOMAIN boxes' : boxes'[i] = Fatal \/ (i \in DOMAIN boxes /\ boxes'[i] = boxes[i])
      BY <1>1, <1>2, <2>1, OneItemMore, ItemOf, SMTT(30)
    <3> QED BY <1>2, <3>1 DEF SubInv, SubPhases, Where
  <2>8. counted' <= BufferSize + (IF iterating' THEN 1 ELSE 0) + (IF Closed' THEN 1 ELSE 0)
    BY <1>1, <1>3, <1>7, <2>1, SubscriptionAssumption
  <2>9. SubPhases'
    BY <1>1, <1>3, <1>6, <1>7, <2>1, <2>6, <2>7, <2>8 DEF SubInv, SubPhases
  <2> QED BY <2>3, <2>5, <2>9 DEF SubInv
<1> QED BY <1>4, <1>5, <1>6 DEF SubInv, SubPhases

\* What is queued at the end.
LEMMA QueuedAtTheEnd ==
    ASSUME NEW q, AreItems(q), NEW e, IsItem(e)
    PROVE  /\ AreItems(Append(q, e))
           /\ Cardinality(ControlsOf(Append(q, e))) =
                Cardinality(ControlsOf(q)) + (IF IsControl(e) THEN 1 ELSE 0)
           /\ KeysOf(Append(q, e)) = KeysOf(q) \cup (IF e.kind = "row" THEN {e.key} ELSE {})
           /\ OneRowPerKey(q) /\ (e.kind = "row" => e.key \notin KeysOf(q)) =>
                OneRowPerKey(Append(q, e))
           /\ e.kind # "summary" /\ Where(q, "summary") = {} =>
                Where(Append(q, e), "summary") = {}
<1> DEFINE q2 == Append(q, e)
<1>1. IsWithout(q2, Len(q) + 1, q) /\ q2[Len(q) + 1] = e /\ AreItems(q2)
  BY AppendIsOneMore, OneItemMore
<1>2. /\ DOMAIN q = 1..Len(q) /\ Len(q) \in Nat /\ DOMAIN q2 = 1..(Len(q) + 1)
      /\ \A i \in 1..Len(q) : q2[i] = q[i]
  BY ItemOf, OneItemMore
<1> HIDE DEF q2
<1>3. Cardinality(ControlsOf(q2)) = Cardinality(ControlsOf(q)) + (IF IsControl(e) THEN 1 ELSE 0)
  BY <1>1, ControlsOfLess
<1>4. KeysOf(q2) = KeysOf(q) \cup (IF e.kind = "row" THEN {e.key} ELSE {})
  BY <1>1, KeysOfLess
<1>5. OneRowPerKey(q) /\ (e.kind = "row" => e.key \notin KeysOf(q)) => OneRowPerKey(q2)
  BY <1>1, KeysOfLess
<1>6. e.kind # "summary" /\ Where(q, "summary") = {} => Where(q2, "summary") = {}
  BY <1>1, <1>2 DEF Where
<1> QED BY <1>1, <1>3, <1>4, <1>5, <1>6 DEF q2

\* A waiting next() gets the item at once.
LEMMA EmitsToWaiter ==
    ASSUME SubInv, NEW e, IsNext(emitted, e), Emit(e), buffering, waiters > 0
    PROVE  SubInv'
<1>1. /\ AreItems(boxes) /\ AreItems(got) /\ ~Closed /\ IsItem(e)
  BY SeenIsItems DEF Emit, IsNext
<1>2. /\ emitted' = Append(emitted, e) /\ got' = Append(got, e) /\ waiters' = waiters - 1
      /\ UNCHANGED <<state, iterating, buffering, boxes, keyed, counted, discarded,
                     overflowed, over>>
  BY DEF Emit
<1>3. boxes = <<>> /\ iterating
  BY DEF SubInv, SubPhases
<1>4. Seen' = Append(Seen, e) /\ AreItems(got')
  BY <1>1, <1>2, <1>3, MoreAtTheEnd, OneItemMore DEF Seen
<1>5. Story'
  BY <1>1, <1>2, <1>4, StoryGoesOn
<1>6. Queue'
  BY <1>2 DEF SubInv, Queue
<1>7. SubPhases'
  <2>1. overflowed = {} /\ waiters' \in 0..MaxWaiters
    <3>1. overflowed = {}
      BY <1>1, SeenIsItems
    <3>2. waiters \in 0..MaxWaiters /\ waiters' = waiters - 1
      BY <1>2 DEF SubInv, SubPhases
    <3> QED BY <3>1, <3>2, SubscriptionAssumption
  <2> QED BY <1>1, <1>2, <1>3, <2>1 DEF SubInv, SubPhases, Closed
<1> QED BY <1>5, <1>6, <1>7 DEF SubInv

\* An item is queued behind the others.
LEMMA EmitsToQueue ==
    ASSUME SubInv, ~Closed, buffering, waiters = 0, NEW e, IsNext(emitted, e),
           emitted' = Append(emitted, e), boxes' = Append(boxes, e),
           e.kind = "row" => e.key \notin keyed,
           keyed' = keyed \cup (IF e.kind = "row" THEN {e.key} ELSE {}),
           counted' = counted + (IF IsControl(e) THEN 1 ELSE 0),
           IsControl(e) => counted < BufferSize,
           UNCHANGED <<state, iterating, buffering, discarded, got, waiters, overflowed, over>>
    PROVE  SubInv'
<1>1. AreItems(boxes) /\ AreItems(got) /\ IsItem(e) /\ counted \in Nat /\ overflowed = {}
  BY SeenIsItems DEF IsNext
<1>2. Seen' = Append(Seen, e)
  BY <1>1, MoreAtTheEnd DEF Seen
<1>3. Story'
  BY <1>1, <1>2, StoryGoesOn
<1>4. Queue'
  BY <1>1, QueuedAtTheEnd DEF SubInv, Queue
<1>5. ~iterating => Where(boxes', "summary") = {}
  BY <1>1, QueuedAtTheEnd DEF SubInv, SubPhases, IsNext, Sources
<1>6. counted' <= BufferSize + (IF iterating' THEN 1 ELSE 0) + (IF Closed' THEN 1 ELSE 0)
  <2>1. Closed' = Closed
    BY DEF Closed
  <2>2. counted <= BufferSize + (IF iterating THEN 1 ELSE 0) + 0
    BY DEF SubInv, SubPhases
  <2>3. BufferSize \in Nat /\ iterating' = iterating
    BY SubscriptionAssumption
  <2>4. CASE IsControl(e)
    BY <1>1, <2>1, <2>2, <2>3, <2>4
  <2>5. CASE ~IsControl(e)
    BY <1>1, <2>1, <2>2, <2>3, <2>5
  <2> QED BY <2>4, <2>5
<1>7. SubPhases'
  BY <1>1, <1>5, <1>6 DEF SubInv, SubPhases, Closed
<1> QED BY <1>3, <1>4, <1>7 DEF SubInv

\* The queued row i becomes one of itself and e.
MergesInto(i, e) ==
    /\ i \in Where(boxes, "row") /\ boxes[i].key = e.key
    /\ AreItems(boxes') /\ DOMAIN boxes' = DOMAIN boxes /\ Len(boxes') = Len(boxes)
    /\ \A j \in DOMAIN boxes : j # i => boxes'[j] = boxes[j]
    /\ boxes'[i].kind = "row" /\ boxes'[i].key = e.key
    /\ boxes'[i].parts = boxes[i].parts \cup e.parts
    /\ boxes'[i].snapshot <=> boxes[i].snapshot \/ e.snapshot

\* The queued row of a key, and what the merge makes of it.
LEMMA MergedRow ==
    ASSUME SubInv, NEW e, IsNext(emitted, e), e.kind = "row", e.key \in keyed,
           boxes' = [boxes EXCEPT ![SelectInSeq(boxes,
                       LAMBDA b : ~IsControl(b) /\ b.key = e.key)] = Merge(@, e)]
    PROVE  \E i : MergesInto(i, e)
<1> DEFINE I == {j \in 1..Len(boxes) : ~IsControl(boxes[j]) /\ boxes[j].key = e.key}
           i == IF I # {} THEN Min(I) ELSE 0
<1>1. /\ AreItems(boxes) /\ boxes \in Seq(Items) /\ Len(boxes) \in Nat
      /\ DOMAIN boxes = 1..Len(boxes) /\ e \in Items /\ IsItem(e)
      /\ \A j \in DOMAIN boxes : boxes[j] \in Items /\ IsItem(boxes[j])
  BY SeenIsItems, ItemOf DEF IsNext, IsItem
<1>2. boxes' = [boxes EXCEPT ![i] = Merge(@, e)]
  BY DEF SelectInSeq
<1>3. \A j \in DOMAIN boxes : ~IsControl(boxes[j]) <=> boxes[j].kind = "row"
  BY <1>1 DEF IsControl, Control, Items, Sources
<1>4. I # {} /\ I \in SUBSET Nat
  <2>1. PICK j \in Where(boxes, "row") : boxes[j].key = e.key
    BY DEF SubInv, Queue, KeysOf
  <2> QED BY <1>1, <1>3, <2>1 DEF Where
<1>5. i \in I
  BY <1>4, LeastOf DEF Min
<1>6. i \in Where(boxes, "row") /\ boxes[i].key = e.key /\ i \in 1..Len(boxes)
  BY <1>1, <1>3, <1>5 DEF Where
<1> HIDE DEF I, i
<1> DEFINE m == Merge(boxes[i], e)
<1>7. /\ m \in Items /\ IsItem(m) /\ m.kind = "row" /\ m.key = e.key
      /\ m.parts = boxes[i].parts \cup e.parts
      /\ m.snapshot <=> boxes[i].snapshot \/ e.snapshot
  <2>1. boxes[i] \in Items /\ boxes[i].snapshot \in BOOLEAN /\ e.snapshot \in BOOLEAN
        /\ boxes[i].parts \in SUBSET Nat /\ e.parts \in SUBSET Nat /\ e.parts # {}
    BY <1>1, <1>6 DEF Items, IsItem
  <2>2. /\ m \in Items /\ m.kind = "row" /\ m.key = e.key
        /\ m.parts = boxes[i].parts \cup e.parts
        /\ m.snapshot = (boxes[i].snapshot \/ e.snapshot)
    BY <1>1, <2>1 DEF Merge, Items
  <2>3. m.parts # {} /\ m.key # "none"
    BY <1>1, <2>1, <2>2 DEF IsItem
  <2>4. m.snapshot <=> boxes[i].snapshot \/ e.snapshot
    BY <2>1, <2>2, Zenon
  <2> HIDE DEF m
  <2> QED BY <2>2, <2>3, <2>4 DEF IsItem
<1>8. boxes' = [boxes EXCEPT ![i] = m]
  BY <1>2
<1> HIDE DEF m
<1>9. /\ boxes' \in Seq(Items) /\ Len(boxes') = Len(boxes)
      /\ \A j \in 1..Len(boxes) : boxes'[j] = IF j = i THEN m ELSE boxes[j]
  <2>1. /\ [boxes EXCEPT ![i] = m] \in Seq(Items) /\ Len([boxes EXCEPT ![i] = m]) = Len(boxes)
        /\ \A j \in 1..Len(boxes) : [boxes EXCEPT ![i] = m][j] = IF j = i THEN m ELSE boxes[j]
    BY <1>1, <1>6, <1>7, ExceptSeq
  <2> QED BY <1>8, <2>1
<1>10. DOMAIN boxes' = DOMAIN boxes
  BY <1>8
<1>11. AreItems(boxes')
  BY <1>1, <1>7, <1>9, <1>10 DEF AreItems
<1>12. MergesInto(i, e)
  BY <1>1, <1>6, <1>7, <1>9, <1>10, <1>11 DEF MergesInto
<1> QED BY <1>12

\* The next row of a queued key is merged into its place.
LEMMA EmitsIntoRow ==
    ASSUME SubInv, ~Closed, buffering, waiters = 0, NEW e, IsNext(emitted, e),
           e.kind = "row", NEW i, MergesInto(i, e),
           emitted' = Append(emitted, e),
           UNCHANGED <<state, iterating, buffering, keyed, counted, discarded, got,
                       waiters, overflowed, over>>
    PROVE  SubInv'
<1>1. /\ AreItems(Seen) /\ AreItems(boxes) /\ AreItems(got) /\ AreNumbered(emitted)
      /\ overflowed = {}
  BY SeenIsItems
<1>2. /\ i \in Where(boxes, "row") /\ boxes[i].key = e.key
      /\ AreItems(boxes') /\ DOMAIN boxes' = DOMAIN boxes /\ Len(boxes') = Len(boxes)
      /\ \A j \in DOMAIN boxes : j # i => boxes'[j] = boxes[j]
      /\ boxes'[i].kind = "row" /\ boxes'[i].key = e.key
      /\ boxes'[i].parts = boxes[i].parts \cup e.parts
      /\ boxes'[i].snapshot <=> boxes[i].snapshot \/ e.snapshot
  BY DEF MergesInto
<1> DEFINE g == Len(got)
           s2 == got \o boxes'
<1>3. /\ g \in Nat /\ DOMAIN got = 1..g /\ DOMAIN boxes = 1..Len(boxes) /\ Len(boxes) \in Nat
      /\ i \in DOMAIN boxes /\ boxes[i].kind = "row" /\ i \in Nat
  BY <1>1, <1>2, ItemOf DEF Where
<1>4. /\ Len(Seen) = g + Len(boxes) /\ DOMAIN Seen = 1..(g + Len(boxes))
      /\ \A j \in DOMAIN Seen : Seen[j] = IF j <= g THEN got[j] ELSE boxes[j - g]
      /\ g + i \in DOMAIN Seen /\ Seen[g + i] = boxes[i]
  <2>1. /\ Len(got \o boxes) = g + Len(boxes)
        /\ \A j \in DOMAIN (got \o boxes) :
             (got \o boxes)[j] = IF j <= g THEN got[j] ELSE boxes[j - g]
        /\ g + i \in DOMAIN (got \o boxes) /\ (got \o boxes)[g + i] = boxes[i]
    BY <1>1, <1>3, OneAfterOther
  <2>2. DOMAIN Seen = 1..Len(Seen)
    BY <1>1, ItemOf
  <2> QED BY <2>1, <2>2 DEF Seen
<1>5. /\ AreItems(s2) /\ DOMAIN s2 = 1..(g + Len(boxes))
      /\ \A j \in DOMAIN s2 : s2[j] = IF j <= g THEN got[j] ELSE boxes'[j - g]
      /\ s2[g + i] = boxes'[i]
  <2>1. /\ AreItems(s2) /\ Len(s2) = g + Len(boxes')
        /\ \A j \in DOMAIN s2 : s2[j] = IF j <= g THEN got[j] ELSE boxes'[j - g]
        /\ \A j \in DOMAIN boxes' : s2[g + j] = boxes'[j]
    <3>1. PICK q : q = boxes'
      OBVIOUS
    <3>2. AreItems(q)
      BY <1>2, <3>1
    <3>3. /\ AreItems(got \o q) /\ Len(got \o q) = Len(got) + Len(q)
          /\ \A j \in DOMAIN (got \o q) :
               (got \o q)[j] = IF j <= Len(got) THEN got[j] ELSE q[j - Len(got)]
          /\ \A j \in DOMAIN q : (got \o q)[Len(got) + j] = q[j]
      BY <1>1, <3>2, OneAfterOther
    <3> QED BY <3>1, <3>3
  <2> HIDE DEF s2
  <2>2. DOMAIN s2 = 1..Len(s2)
    BY <2>1, ItemOf
  <2> QED BY <1>2, <1>3, <2>1, <2>2
<1>6. Seen' = s2
  BY DEF Seen
<1> HIDE DEF g, s2
<1>7. \A j \in DOMAIN Seen : j # g + i => s2[j] = Seen[j]
  <2> TAKE j \in DOMAIN Seen
  <2> HAVE j # g + i
  <2>1. CASE j <= g
    BY <1>4, <1>5, <2>1
  <2>2. CASE ~(j <= g)
    <3>1. j - g \in DOMAIN boxes /\ j - g # i
      BY <1>3, <1>4, <2>2
    <3> QED BY <1>2, <1>4, <1>5, <2>2, <3>1
  <2> QED BY <2>1, <2>2
<1>8. \A j \in Where(Seen, "row") : Seen[j].key = e.key => j <= g + i
  <2> SUFFICES ASSUME NEW j \in Where(Seen, "row"), Seen[j].key = e.key PROVE j <= g + i
    OBVIOUS
  <2>0. j \in DOMAIN Seen /\ Seen[j].kind = "row" /\ j \in Nat
    BY <1>4 DEF Where
  <2>1. CASE j <= g
    BY <1>3, <2>0, <2>1
  <2>2. CASE ~(j <= g)
    <3>1. j - g \in DOMAIN boxes /\ boxes[j - g] = Seen[j]
      BY <1>3, <1>4, <2>0, <2>2
    <3>2. j - g \in Where(boxes, "row")
      BY <2>0, <3>1 DEF Where
    <3>3. j - g = i
      BY <1>2, <3>1, <3>2 DEF SubInv, Queue, OneRowPerKey
    <3> QED BY <1>3, <2>0, <3>3
  <2> QED BY <2>1, <2>2
<1>9. Story'
  <2> DEFINE k == g + i
  <2>1. /\ k \in Where(Seen, "row") /\ Seen[k].key = e.key /\ DOMAIN s2 = DOMAIN Seen
        /\ s2[k].kind = "row" /\ s2[k].key = e.key
        /\ s2[k].parts = Seen[k].parts \cup e.parts
        /\ s2[k].snapshot <=> Seen[k].snapshot \/ e.snapshot
        /\ \A j \in DOMAIN Seen : j # k => s2[j] = Seen[j]
        /\ \A j \in Where(Seen, "row") : Seen[j].key = e.key => j <= k
    BY <1>2, <1>3, <1>4, <1>5, <1>7, <1>8 DEF Where
  <2> HIDE DEF k
  <2>2. Told(emitted, Seen, {}) /\ {} \in SUBSET (1..Len(emitted))
    BY <1>1 DEF SubInv, Story
  <2>3. /\ Told(Append(emitted, e), s2, {})
        /\ Evicted(Append(emitted, e), s2, {}) = Evicted(emitted, Seen, {})
    <3>1. e.kind = "row" /\ IsNext(emitted, e) /\ AreItems(Seen) /\ AreNumbered(emitted)
          /\ AreItems(s2)
      BY <1>1, <1>5
    <3> QED BY <2>1, <2>2, <3>1, SeenMerged, SMTT(30)
  <2>4. /\ Where(s2, "summary") = Where(Seen, "summary")
        /\ \A j \in Where(Seen, "summary") : s2[j] = Seen[j]
    BY <2>1 DEF Where
  <2>5. Account(Append(emitted, e), s2, {}, discarded)
    BY <1>1, <2>3, <2>4 DEF SubInv, Story, Account
  <2>6. AreNumbered(emitted')
    BY <1>1, NumberedMore
  <2> QED BY <1>1, <1>6, <2>3, <2>5, <2>6 DEF Story
<1>10. \A j \in DOMAIN boxes : /\ boxes'[j].kind = boxes[j].kind
                               /\ boxes[j].kind = "row" => boxes'[j].key = boxes[j].key
  BY <1>2, <1>3
<1>11. \A kind : Where(boxes', kind) = Where(boxes, kind)
  BY <1>2, <1>10 DEF Where
<1>12. Queue'
  <2>1. ControlsOf(boxes') = ControlsOf(boxes)
    BY <1>2, <1>10 DEF ControlsOf, IsControl
  <2>2. \A j \in Where(boxes, "row") : boxes'[j].key = boxes[j].key
    BY <1>10 DEF Where
  <2>3. KeysOf(boxes') = KeysOf(boxes)
    BY <1>11, <2>2 DEF KeysOf
  <2>4. OneRowPerKey(boxes')
    BY <1>11, <2>2 DEF SubInv, Queue, OneRowPerKey
  <2> QED BY <1>2, <2>1, <2>3, <2>4 DEF SubInv, Queue
<1>13. SubPhases'
  <2>1. counted' <= BufferSize + (IF iterating' THEN 1 ELSE 0) + (IF Closed' THEN 1 ELSE 0)
    BY DEF SubInv, SubPhases, Closed
  <2> QED BY <1>1, <1>11, <2>1 DEF SubInv, SubPhases
<1> QED BY <1>9, <1>12, <1>13 DEF SubInv

\* The queue without its oldest notice.
LEMMA RoomMade ==
    ASSUME SubInv, ~iterating, FirstEvictable > 0
    PROVE  /\ IsWithout(boxes, FirstEvictable, Without(FirstEvictable))
           /\ boxes[FirstEvictable].kind = "notice"
           /\ AreItems(Without(FirstEvictable)) /\ OneRowPerKey(Without(FirstEvictable))
           /\ Cardinality(ControlsOf(Without(FirstEvictable))) = counted - 1
           /\ KeysOf(Without(FirstEvictable)) = keyed
           /\ Where(Without(FirstEvictable), "summary") = {}
           /\ Told(emitted, Without(FirstEvictable), overflowed)
           /\ discarded + 1 =
                Cardinality(Evicted(emitted, Without(FirstEvictable), overflowed))
<1>1. AreItems(boxes) /\ AreNumbered(emitted) /\ counted \in Nat /\ Seen = boxes
  BY SeenIsItems
<1>2. FirstEvictable \in DOMAIN boxes /\ boxes[FirstEvictable].kind = "notice"
  BY <1>1, FirstIsEvictable DEF Where
<1> DEFINE i == FirstEvictable
           q == Without(FirstEvictable)
<1>3. IsWithout(boxes, i, q)
  BY <1>1, <1>2, RemovedIsOneLess DEF Without
<1> HIDE DEF i, q
<1>4. boxes[i].kind = "notice" /\ IsControl(boxes[i])
  BY <1>2 DEF i, IsControl, Control
<1>5. Cardinality(ControlsOf(q)) = counted - 1
  <2>1. counted = Cardinality(ControlsOf(q)) + 1
    BY <1>3, <1>4, ControlsOfLess DEF SubInv, Queue
  <2>2. Cardinality(ControlsOf(q)) \in Nat
    BY <1>3, ControlsAreFew DEF IsWithout
  <2> QED BY <2>1, <2>2
<1>6. OneRowPerKey(q) /\ KeysOf(q) = keyed
  <2>1. boxes[i].kind # "row" /\ OneRowPerKey(boxes) /\ keyed = KeysOf(boxes)
    BY <1>4 DEF SubInv, Queue
  <2>2. OneRowPerKey(q)
    BY <1>3, <2>1, KeysOfLess
  <2>3. KeysOf(boxes) = KeysOf(q) \cup {}
    BY <1>3, <2>1, KeysOfLess
  <2> QED BY <2>1, <2>2, <2>3
<1>7. Where(q, "summary") = {}
  <2>1. Where(boxes, "summary") = {}
    BY DEF SubInv, SubPhases
  <2> QED BY <1>3, <2>1, SkipAndBack DEF Where
<1>8. /\ Told(emitted, q, overflowed)
      /\ Cardinality(Evicted(emitted, q, overflowed)) =
           Cardinality(Evicted(emitted, Seen, overflowed)) + 1
  BY <1>1, <1>3, <1>4, SeenEvicted DEF SubInv, Story
<1>9. discarded = Cardinality(Evicted(emitted, Seen, overflowed))
  BY <1>1 DEF SubInv, Story, Account, SubPhases
<1>10. AreItems(q)
  BY <1>3 DEF IsWithout
<1> QED BY <1>3, <1>4, <1>5, <1>6, <1>7, <1>8, <1>9, <1>10 DEF i, q

\* A control makes the oldest notice go, which is counted.
LEMMA EmitsAndEvicts ==
    ASSUME SubInv, ~Closed, buffering, ~iterating, FirstEvictable > 0,
           NEW e, IsNext(emitted, e), IsControl(e),
           emitted' = Append(emitted, e),
           boxes' = Append(Without(FirstEvictable), e), counted' = counted,
           discarded' = discarded + 1,
           UNCHANGED <<state, iterating, buffering, keyed, got, waiters, overflowed, over>>
    PROVE  SubInv'
<1> DEFINE q == Without(FirstEvictable)
<1>1. /\ AreItems(q) /\ OneRowPerKey(q) /\ Cardinality(ControlsOf(q)) = counted - 1
      /\ KeysOf(q) = keyed /\ Where(q, "summary") = {}
      /\ Told(emitted, q, overflowed)
      /\ discarded + 1 = Cardinality(Evicted(emitted, q, overflowed))
  BY RoomMade
<1>2. /\ IsItem(e) /\ e.kind # "row" /\ e.kind # "summary" /\ got = <<>> /\ got' = <<>>
      /\ AreNumbered(emitted) /\ AreItems(got) /\ counted \in Nat /\ overflowed = {}
  BY SeenIsItems DEF IsNext, IsControl, Control, Sources, SubInv, SubPhases
<1>3. boxes' = Append(q, e)
  OBVIOUS
<1> HIDE DEF q
<1>4. /\ AreItems(boxes') /\ OneRowPerKey(boxes')
      /\ Cardinality(ControlsOf(boxes')) = Cardinality(ControlsOf(q)) + 1
      /\ KeysOf(boxes') = KeysOf(q) /\ Where(boxes', "summary") = {}
  <2>1. KeysOf(boxes') = KeysOf(q) \cup {}
    BY <1>1, <1>2, <1>3, QueuedAtTheEnd
  <2> QED BY <1>1, <1>2, <1>3, <2>1, QueuedAtTheEnd
<1>5. Seen' = boxes'
  <2>1. boxes' \in Seq(Items)
    BY <1>4, ItemOf
  <2> QED BY <1>2, <2>1, ConcatEmptySeq DEF Seen
<1>6. /\ Told(emitted', boxes', {})
      /\ Evicted(emitted', boxes', {}) = Evicted(emitted, q, {})
  <2>1. {} \in SUBSET (1..Len(emitted))
    OBVIOUS
  <2> QED BY <1>1, <1>2, <1>3, <2>1, SeenAsSent
<1>7. Story'
  <2>1. AreNumbered(emitted')
    BY <1>2, NumberedMore
  <2>2. Account(emitted', boxes', {}, discarded')
    BY <1>1, <1>2, <1>4, <1>6 DEF Account
  <2> QED BY <1>2, <1>5, <1>6, <2>1, <2>2 DEF Story
<1>8. Queue'
  BY <1>1, <1>2, <1>4 DEF SubInv, Queue
<1>9. SubPhases'
  <2>1. counted' <= BufferSize + (IF iterating' THEN 1 ELSE 0) + (IF Closed' THEN 1 ELSE 0)
    BY DEF SubInv, SubPhases, Closed
  <2> QED BY <1>2, <1>4, <2>1 DEF SubInv, SubPhases
<1> QED BY <1>7, <1>8, <1>9 DEF SubInv

\* deliver, of a row or of a control.
LEMMA Emits ==
    ASSUME SubInv, NEW e, IsNext(emitted, e), Emit(e) PROVE SubInv'
<1>1. ~Closed /\ UNCHANGED <<iterating, buffering>>
  BY DEF Emit
<1>2. CASE ~buffering
  <2>1. UNCHANGED subVars
    BY <1>1, <1>2 DEF Emit, subVars
  <2> QED BY <2>1 DEF subVars, SubInv, Story, Queue, SubPhases, Seen, Closed
<1>3. CASE buffering /\ waiters > 0
  BY <1>3, EmitsToWaiter
<1>4. CASE buffering /\ ~(waiters > 0)
  <2>1. /\ emitted' = Append(emitted, e) /\ waiters = 0
        /\ IF IsControl(e) THEN ControlArrives(e) ELSE RowArrives(e)
    BY <1>4 DEF Emit, SubInv, SubPhases
  <2>2. IsControl(e) <=> e.kind # "row"
    BY DEF IsNext, Sources, IsControl, Control
  <2>3. CASE ~IsControl(e) /\ e.key \in keyed
    <3>1. \E i : MergesInto(i, e)
      BY <2>1, <2>2, <2>3, MergedRow DEF RowArrives
    <3>2. UNCHANGED <<state, keyed, counted, discarded, got, waiters, overflowed, over>>
      BY <2>1, <2>3 DEF RowArrives
    <3> QED BY <1>1, <1>4, <2>1, <2>2, <2>3, <3>1, <3>2, EmitsIntoRow
  <2>4. CASE ~IsControl(e) /\ e.key \notin keyed
    <3>1. /\ boxes' = Append(boxes, e) /\ keyed' = keyed \cup {e.key}
          /\ UNCHANGED <<state, counted, discarded, got, waiters, overflowed, over>>
      BY <2>1, <2>4 DEF RowArrives
    <3>2. counted' = counted + 0
      BY <3>1, SeenIsItems
    <3> QED BY <1>1, <1>4, <2>1, <2>2, <2>4, <3>1, <3>2, EmitsToQueue
  <2>5. CASE IsControl(e)
    <3> DEFINE evict == ~iterating /\ counted >= BufferSize /\ FirstEvictable > 0
    <3>1. ControlArrives(e) /\ keyed' = keyed
      BY <2>1, <2>5 DEF ControlArrives
    <3>2. counted \in Nat /\ BufferSize \in Nat \ {0} /\ overflowed = {}
          /\ (~iterating => counted <= BufferSize)
      <4>1. ~iterating => counted <= BufferSize + 0 + 0
        BY <1>1 DEF SubInv, SubPhases
      <4> QED BY <1>1, <4>1, SeenIsItems, SubscriptionAssumption
    <3>3. CASE evict
      <4>1. counted - 1 < BufferSize /\ counted - 1 + 1 = counted
        BY <3>2, <3>3
      <4>2. /\ boxes' = Append(Without(FirstEvictable), e) /\ counted' = counted
            /\ discarded' = discarded + 1
            /\ UNCHANGED <<state, got, waiters, overflowed, over>>
        BY <3>1, <3>2, <3>3, <4>1 DEF ControlArrives
      <4> QED BY <1>1, <1>4, <2>1, <2>5, <3>1, <3>3, <4>2, EmitsAndEvicts
    <3>4. CASE ~evict /\ counted >= BufferSize
      <4>1. FailsWith(boxes, counted, Fatal) /\ overflowed' = e.parts /\ discarded' = discarded
        BY <3>1, <3>4 DEF ControlArrives
      <4> QED BY <1>1, <1>4, <2>1, <2>2, <2>5, <3>1, <4>1, FailsAtTheEnd
    <3>5. CASE ~evict /\ ~(counted >= BufferSize)
      <4>1. /\ boxes' = Append(boxes, e) /\ counted' = counted + 1 /\ discarded' = discarded
            /\ UNCHANGED <<state, got, waiters, overflowed, over>>
        BY <3>1, <3>5 DEF ControlArrives
      <4>2. counted < BufferSize /\ keyed' = keyed \cup {}
        BY <3>1, <3>2, <3>5
      <4> QED BY <1>1, <1>4, <2>1, <2>2, <2>5, <4>1, <4>2, EmitsToQueue
    <3> QED BY <3>3, <3>4, <3>5
  <2> QED BY <2>3, <2>4, <2>5
<1> QED BY <1>2, <1>3, <1>4

\* Everything dropped: nothing is missing of nothing.
LEMMA StartedAnew ==
    ASSUME NEW keep \in BOOLEAN, ClearBuffer(keep)
    PROVE  Story' /\ Queue' /\ Seen' = <<>> /\ boxes' = <<>>
<1>1. /\ boxes' = <<>> /\ keyed' = {} /\ counted' = 0 /\ discarded' = 0
      /\ emitted' = <<>> /\ got' = <<>> /\ overflowed' = {} /\ buffering' = keep
  BY DEF ClearBuffer
<1>2. AreItems(<<>>) /\ DOMAIN <<>> = {} /\ <<>> \in Seq(Items)
  BY EmptySeq DEF AreItems
<1>3. Seen' = <<>>
  BY <1>1, <1>2, ConcatEmptySeq DEF Seen
<1>4. \A k : Where(<<>>, k) = {} /\ PartsOf(<<>>, k) = {}
  BY DEF Where, PartsOf
<1>5. Told(<<>>, <<>>, {}) /\ Evicted(<<>>, <<>>, {}) = {}
  BY <1>4 DEF Told, Exact, InOrder, RowsFit, Evicted
<1>6. Account(<<>>, <<>>, {}, 0)
  BY <1>4, <1>5, FS_EmptySet DEF Account
<1>7. Story'
  BY <1>1, <1>2, <1>3, <1>5, <1>6 DEF Story, AreNumbered
<1>8. Queue'
  <2>1. ControlsOf(<<>>) = {} /\ KeysOf(<<>>) = {}
    BY <1>4 DEF ControlsOf, KeysOf
  <2> QED BY <1>1, <1>2, <1>4, <2>1, FS_EmptySet DEF Queue, OneRowPerKey
<1> QED BY <1>1, <1>3, <1>7, <1>8

\* The first iterator: what was evicted is told first.
LEMMA Attaches ==
    ASSUME SubInv, Attach PROVE SubInv'
<1>1. /\ ~iterating /\ iterating' = TRUE /\ buffering' = TRUE /\ discarded' = 0
      /\ UNCHANGED <<state, keyed, waiters, emitted, got, overflowed, over>>
  BY DEF Attach
<1>2. /\ AreItems(boxes) /\ AreItems(Seen) /\ AreNumbered(emitted) /\ counted \in Nat
      /\ Seen = boxes /\ got = <<>> /\ Where(boxes, "summary") = {} /\ waiters = 0
  BY <1>1, SeenIsItems DEF SubInv, SubPhases
<1>3. CASE discarded = 0
  <2>1. UNCHANGED <<boxes, counted, discarded>>
    BY <1>3 DEF Attach
  <2>2. Seen' = Seen
    BY <1>1, <2>1 DEF Seen
  <2>3. Story'
    BY <1>1, <1>2, <2>1, <2>2, StoryKept DEF SubInv, Story
  <2>4. Queue'
    BY <1>1, <2>1 DEF SubInv, Queue
  <2>5. counted' <= BufferSize + (IF iterating' THEN 1 ELSE 0) + (IF Closed' THEN 1 ELSE 0)
    <3>1. counted <= BufferSize + 0 + (IF Closed THEN 1 ELSE 0)
      BY <1>1 DEF SubInv, SubPhases
    <3>2. Closed' = Closed
      BY <1>1 DEF Closed
    <3> QED BY <1>1, <1>2, <2>1, <3>1, <3>2, SubscriptionAssumption
  <2>6. SubPhases'
    BY <1>1, <1>2, <1>3, <2>1, <2>5 DEF SubInv, SubPhases, Closed
  <2> QED BY <2>3, <2>4, <2>6 DEF SubInv
<1>4. CASE discarded # 0
  <2> DEFINE evict == counted >= BufferSize /\ FirstEvictable > 0
             q == IF evict THEN Without(FirstEvictable) ELSE boxes
             n == IF evict THEN discarded + 1 ELSE discarded
             x == Item("summary", "none", FALSE, n)
  <2>1. boxes' = <<x>> \o q /\ counted' = (IF evict THEN counted ELSE counted + 1)
    BY <1>4 DEF Attach
  <2>2. /\ AreItems(q) /\ OneRowPerKey(q) /\ KeysOf(q) = keyed /\ Where(q, "summary") = {}
        /\ Cardinality(ControlsOf(q)) = (IF evict THEN counted - 1 ELSE counted)
        /\ Told(emitted, q, overflowed) /\ n = Cardinality(Evicted(emitted, q, overflowed))
    <3>1. CASE evict
      BY <1>1, <3>1, RoomMade
    <3>2. CASE ~evict
      <4>1. q = Seen /\ q = boxes /\ n = discarded
        BY <1>2, <3>2
      <4> QED BY <1>2, <3>2, <4>1 DEF SubInv, Queue, Story, Account
    <3> QED BY <3>1, <3>2
  <2>3. n \in Nat
    BY DEF SubInv, SubPhases
  <2>4. q # <<>> /\ boxes # <<>> /\ overflowed # {} => Last1(q).kind = "fatal"
    <3> SUFFICES ASSUME q # <<>>, boxes # <<>>, overflowed # {}
                 PROVE  Last1(q).kind = "fatal"
      OBVIOUS
    <3>1. boxes[Len(boxes)].kind = "fatal"
      BY <1>2 DEF SubInv, Story, Last1
    <3>2. CASE evict
      <4>1. /\ IsWithout(boxes, FirstEvictable, q) /\ boxes[FirstEvictable].kind = "notice"
        BY <1>1, <3>2, RoomMade
      <4> HIDE DEF q
      <4>2. /\ Len(q) \in Nat /\ Len(boxes) = Len(q) + 1 /\ FirstEvictable \in 1..Len(boxes)
            /\ DOMAIN q = 1..Len(q) /\ q \in Seq(Items)
        BY <1>2, <2>2, <4>1, ItemOf DEF IsWithout
      <4>3. FirstEvictable # Len(boxes)
        BY <3>1, <4>1
      <4>4. Skip(FirstEvictable, Len(q)) = Len(boxes) /\ Len(q) \in DOMAIN q
        BY <4>2, <4>3 DEF Skip
      <4> QED BY <3>1, <4>1, <4>4 DEF IsWithout, Last1
    <3>3. CASE ~evict
      BY <3>1, <3>3 DEF Last1
    <3> QED BY <3>2, <3>3
  <2>5. overflowed # {} => q # <<>>
    <3> SUFFICES ASSUME overflowed # {}, q = <<>> PROVE FALSE
      OBVIOUS
    <3>1. boxes # <<>> /\ boxes[Len(boxes)].kind = "fatal"
      BY <1>2 DEF SubInv, Story, Last1
    <3>2. evict
      BY <3>1
    <3>3. /\ IsWithout(boxes, FirstEvictable, q) /\ boxes[FirstEvictable].kind = "notice"
      BY <1>1, <3>2, RoomMade
    <3>4. Len(boxes) = 1 /\ FirstEvictable \in 1..Len(boxes)
      BY <1>2, <3>3, ItemOf DEF IsWithout
    <3> QED BY <3>1, <3>3, <3>4
  <2>6. IsExtra(x) /\ IsItem(x) /\ IsControl(x) /\ x.kind = "summary" /\ x.parts = {n}
    BY <2>3 DEF IsExtra, IsItem, Items, Item, Sources, IsControl, Control
  <2> HIDE DEF q, x, n
  <2> DEFINE s2 == <<x>> \o q
  <2>7. /\ Told(emitted, s2, overflowed)
        /\ Evicted(emitted, s2, overflowed) = Evicted(emitted, q, overflowed)
        /\ AreItems(s2) /\ Len(s2) = Len(q) + 1 /\ s2[1] = x
        /\ \A i \in DOMAIN q : s2[i + 1] = q[i]
    <3>1. /\ Told(emitted, <<x>> \o q, overflowed)
          /\ Evicted(emitted, <<x>> \o q, overflowed) = Evicted(emitted, q, overflowed)
          /\ AreItems(<<x>> \o q)
          /\ Len(<<x>> \o q) = Len(q) + 1 /\ (<<x>> \o q)[1] = x
          /\ \A i \in DOMAIN q : (<<x>> \o q)[i + 1] = q[i]
      <4>1. PICK em, lost, sn, y, sn2 :
               /\ em = emitted /\ lost = overflowed /\ sn = q /\ y = x
               /\ sn2 = <<y>> \o sn
        OBVIOUS
      <4>2. AreItems(sn) /\ IsExtra(y) /\ Told(em, sn, lost)
        BY <2>2, <2>6, <4>1, Zenon
      <4>3. /\ Told(em, sn2, lost) /\ Evicted(em, sn2, lost) = Evicted(em, sn, lost)
            /\ AreItems(sn2) /\ Len(sn2) = Len(sn) + 1 /\ sn2[1] = y
            /\ \A i \in DOMAIN sn : sn2[i + 1] = sn[i]
        <5>1. sn2 = <<y>> \o sn
          BY <4>1
        <5> HIDE <4>1, <4>2
        <5>2. Told(em, sn2, lost)
          BY <4>2, <5>1, SeenAfterSummary
        <5>3. Evicted(em, sn2, lost) = Evicted(em, sn, lost)
          BY <4>2, <5>1, SeenAfterSummary
        <5>4. AreItems(sn2) 
          BY <4>2, <5>1, SeenAfterSummary
        <5>5. Len(sn2) = Len(sn) + 1 
          BY <4>2, <5>1, SeenAfterSummary
        <5>6. sn2[1] = y
          BY <4>2, <5>1, SeenAfterSummary
        <5>7. \A i \in DOMAIN sn : sn2[i + 1] = sn[i]
          BY <4>2, <5>1, SeenAfterSummary
        <5> QED BY <5>2, <5>3, <5>4, <5>5, <5>6, <5>7
      <4> QED BY <4>1, <4>3, Zenon
    <3> QED BY <3>1, Zenon
  <2> HIDE DEF s2
  <2>8. /\ Len(q) \in Nat /\ DOMAIN q = 1..Len(q) /\ DOMAIN s2 = 1..(Len(q) + 1)
        /\ s2 \in Seq(Items) /\ q \in Seq(Items)
    BY <2>2, <2>7, ItemOf
  <2>9. IsWithout(s2, 1, q)
    <3>1. \A j \in DOMAIN q : Skip(1, j) = j + 1
      BY <2>8 DEF Skip
    <3> QED BY <2>2, <2>7, <2>8, <3>1 DEF IsWithout
  <2>10. boxes' = s2 /\ Seen' = s2
    <3>1. boxes' = s2
      BY <2>1 DEF s2
    <3> QED BY <1>1, <1>2, <2>8, <3>1, ConcatEmptySeq DEF Seen
  <2>11. \A i \in Where(s2, "summary") : i = 1
    <3> SUFFICES ASSUME NEW i \in Where(s2, "summary"), i # 1 PROVE FALSE
      OBVIOUS
    <3>1. i \in DOMAIN s2 /\ i - 1 \in DOMAIN q /\ (i - 1) + 1 = i
      BY <2>8 DEF Where
    <3>2. q[i - 1] = s2[i]
      BY <2>7, <3>1
    <3> QED BY <2>2, <3>1, <3>2 DEF Where
  <2>12. 1 \in Where(s2, "summary")
    BY <2>6, <2>7, <2>8 DEF Where
  <2>13. Account(emitted, s2, overflowed, 0)
    BY <2>2, <2>6, <2>7, <2>11, <2>12 DEF Account
  <2>14. overflowed # {} => s2 # <<>> /\ Last1(s2).kind = "fatal"
    <3> SUFFICES ASSUME overflowed # {} PROVE s2 # <<>> /\ Last1(s2).kind = "fatal"
      OBVIOUS
    <3>1. q # <<>> /\ boxes # <<>>
      BY <1>2, <2>5 DEF SubInv, Story
    <3>2. Len(q) \in DOMAIN q
      BY <2>8, <3>1, EmptySeq
    <3>3. s2[Len(s2)] = q[Len(q)]
      BY <2>7, <3>2
    <3>4. s2 # <<>>
      BY <2>8
    <3> QED BY <2>4, <3>1, <3>3, <3>4 DEF Last1
  <2>15. Story'
    BY <1>1, <1>2, <2>7, <2>10, <2>13, <2>14 DEF SubInv, Story
  <2>16. Queue'
    <3>1. Cardinality(ControlsOf(s2)) = Cardinality(ControlsOf(q)) + 1
      BY <2>6, <2>7, <2>9, ControlsOfLess
    <3>2. s2[1].kind # "row"
      BY <2>6, <2>7
    <3>3. KeysOf(s2) = KeysOf(q) \cup {}
      BY <2>9, <3>2, KeysOfLess
    <3>4. OneRowPerKey(s2)
      BY <2>2, <2>9, <3>2, KeysOfLess
    <3>5. counted' = Cardinality(ControlsOf(s2))
      BY <1>2, <2>1, <2>2, <3>1
    <3> QED BY <1>1, <2>2, <2>7, <2>10, <3>3, <3>4, <3>5 DEF Queue
  <2>17. counted' <= BufferSize + (IF iterating' THEN 1 ELSE 0) + (IF Closed' THEN 1 ELSE 0)
    <3>1. counted <= BufferSize + 0 + (IF Closed THEN 1 ELSE 0)
      BY <1>1 DEF SubInv, SubPhases
    <3>2. Closed' = Closed
      BY <1>1 DEF Closed
    <3>3. counted' <= counted + 1 /\ counted' \in Nat
      BY <1>2, <2>1
    <3> QED BY <1>1, <1>2, <3>1, <3>2, <3>3, SubscriptionAssumption
  <2>18. SubPhases'
    BY <1>1, <1>2, <2>17 DEF SubInv, SubPhases, Closed
  <2> QED BY <2>15, <2>16, <2>18 DEF SubInv
<1> QED BY <1>3, <1>4

\* next() with an item in the queue.
LEMMA TakesNext ==
    ASSUME SubInv, NextItem PROVE SubInv'
<1> DEFINE b == Head(boxes)
           q == Tail(boxes)
<1>1. /\ iterating /\ boxes # <<>> /\ got' = Append(got, b) /\ boxes' = q
      /\ counted' = (IF IsControl(b) THEN counted - 1 ELSE counted) /\ keyed' = keyed \ {b.key}
      /\ UNCHANGED <<state, iterating, buffering, discarded, waiters, emitted, overflowed, over>>
  BY DEF NextItem, CountAfter
<1>2. AreItems(boxes) /\ AreItems(got) /\ counted \in Nat
  BY SeenIsItems
<1>3. IsWithout(boxes, 1, q) /\ b = boxes[1]
  BY <1>1, <1>2, TailIsOneLess
<1>4. IsItem(b) /\ AreItems(q)
  BY <1>2, <1>3, ItemOf DEF IsWithout
<1>5. Seen' = Seen
  BY <1>1, <1>2, HandedOut DEF Seen
<1> HIDE DEF b, q
<1>6. Story'
  BY <1>1, <1>2, <1>4, <1>5, OneItemMore, StoryKept
<1>7. Queue'
  <2>1. IsControl(b) <=> b.kind # "row"
    BY <1>4 DEF IsItem, Items, Sources, IsControl, Control
  <2>2. counted' = Cardinality(ControlsOf(q))
    <3>1. counted = Cardinality(ControlsOf(q)) + (IF IsControl(b) THEN 1 ELSE 0)
      BY <1>3, ControlsOfLess DEF SubInv, Queue
    <3>2. Cardinality(ControlsOf(q)) \in Nat
      BY <1>4, ControlsAreFew
    <3> QED BY <1>1, <3>1, <3>2
  <2>3. /\ OneRowPerKey(q) /\ (b.kind = "row" => b.key \notin KeysOf(q))
        /\ keyed = KeysOf(q) \cup (IF b.kind = "row" THEN {b.key} ELSE {})
    BY <1>3, KeysOfLess DEF SubInv, Queue
  <2>4. b.kind # "row" => b.key \notin KeysOf(q)
    <3>1. \A i \in Where(q, "row") : q[i].key # "none"
      BY <1>4, ItemOf DEF Where, IsItem
    <3> QED BY <1>4, <3>1 DEF KeysOf, IsItem
  <2>5. keyed' = KeysOf(q)
    BY <1>1, <2>3, <2>4
  <2> QED BY <1>1, <1>4, <2>2, <2>3, <2>5 DEF Queue
<1>8. SubPhases'
  <2>1. waiters = 0
    BY <1>1 DEF SubInv, SubPhases
  <2>2. counted' <= counted /\ counted' \in Int
    BY <1>1, <1>2
  <2>3. counted <= BufferSize + (IF iterating THEN 1 ELSE 0) + (IF Closed THEN 1 ELSE 0)
    BY DEF SubInv, SubPhases
  <2>4. Closed' = Closed
    BY <1>1 DEF Closed
  <2>5. counted' <= BufferSize + (IF iterating' THEN 1 ELSE 0) + (IF Closed' THEN 1 ELSE 0)
    BY <1>1, <1>2, <2>2, <2>3, <2>4, SubscriptionAssumption
  <2> QED BY <1>1, <2>1, <2>4, <2>5 DEF SubInv, SubPhases
<1> QED BY <1>6, <1>7, <1>8 DEF SubInv

\* The beginning.
LEMMA SubStarts == ASSUME SubInit PROVE SubInv
<1>1. AreItems(<<>>) /\ DOMAIN <<>> = {} /\ <<>> \in Seq(Items)
  BY EmptySeq DEF AreItems
<1>2. Seen = <<>>
  BY <1>1, ConcatEmptySeq DEF Seen, SubInit
<1>3. \A k : Where(<<>>, k) = {} /\ PartsOf(<<>>, k) = {}
  BY DEF Where, PartsOf
<1>4. Told(<<>>, <<>>, {}) /\ Evicted(<<>>, <<>>, {}) = {}
  BY <1>3 DEF Told, Exact, InOrder, RowsFit, Evicted
<1>5. Account(<<>>, <<>>, {}, 0)
  BY <1>3, <1>4, FS_EmptySet DEF Account
<1>6. Story
  BY <1>1, <1>2, <1>4, <1>5 DEF SubInit, Story, AreNumbered
<1>7. ControlsOf(<<>>) = {} /\ KeysOf(<<>>) = {}
  BY <1>3 DEF ControlsOf, KeysOf
<1>8. Queue
  BY <1>1, <1>3, <1>7, FS_EmptySet DEF SubInit, Queue, OneRowPerKey
<1>9. SubPhases
  <2>1. /\ 0 \in 0..MaxWaiters /\ ~Closed /\ state \in {"pending", "active", "rejected", "closed"}
        /\ counted = 0 /\ waiters = 0 /\ boxes = <<>> /\ over = FALSE /\ iterating = FALSE
    BY SubscriptionAssumption DEF SubInit, Closed
  <2>2. counted <= BufferSize + (IF iterating THEN 1 ELSE 0) + (IF Closed THEN 1 ELSE 0)
    BY <2>1, SubscriptionAssumption
  <2>3. Where(boxes, "summary") = {}
    BY <1>3, <2>1
  <2> QED BY <2>1, <2>2, <2>3 DEF SubInit, SubPhases
<1> QED BY <1>6, <1>8, <1>9 DEF SubInv

\* Every step.
LEMMA SubSteps ==
    ASSUME SubInv, [SubNext]_subVars PROVE SubInv'
<1>0. AreNumbered(emitted) /\ Len(emitted) \in Nat /\ (waiters > 0 => boxes = <<>> /\ ~Closed)
  BY SeenIsItems, ItemOf DEF AreNumbered, SubInv, SubPhases
<1>1. ASSUME NEW k \in Rows, NEW snapshot \in BOOLEAN, EmitRow(k, snapshot) PROVE SubInv'
  <2> DEFINE e == Item("row", k, snapshot, Len(emitted) + 1)
  <2>1. IsNext(emitted, e)
    BY <1>0, SubscriptionAssumption DEF IsNext, IsItem, Items, Item, Sources
  <2>2. Emit(e)
    BY <1>1 DEF EmitRow
  <2> QED BY <2>1, <2>2, Emits
<1>2. ASSUME NEW kind \in {"notice", "event"}, EmitControl(kind) PROVE SubInv'
  <2> DEFINE e == Item(kind, "none", FALSE, Len(emitted) + 1)
  <2>1. IsNext(emitted, e)
    BY <1>0 DEF IsNext, IsItem, Items, Item, Sources
  <2>2. Emit(e)
    BY <1>2 DEF EmitControl
  <2> QED BY <2>1, <2>2, Emits
<1>3. ASSUME MarkActive PROVE SubInv'
  <2>1. /\ state = "pending" /\ state' = "active"
        /\ UNCHANGED <<iterating, buffering, boxes, keyed, counted, discarded,
                       waiters, emitted, got, overflowed, over>>
    BY <1>3 DEF MarkActive
  <2>2. ~Closed /\ ~Closed' /\ Seen' = Seen
    BY <2>1 DEF Closed, Seen
  <2>3. Story' /\ Queue'
    BY <2>1, <2>2 DEF SubInv, Story, Queue
  <2>4. SubPhases'
    BY <2>1, <2>2 DEF SubInv, SubPhases
  <2> QED BY <2>3, <2>4 DEF SubInv
<1>4. ASSUME Fail PROVE SubInv'
  BY <1>4, FailsAtTheEnd DEF Fail
<1>5. ASSUME End PROVE SubInv'
  <2>1. /\ ~Closed /\ state' = "closed" /\ Closed' /\ waiters' = 0
        /\ over' = (over \/ waiters > 0)
        /\ UNCHANGED <<iterating, buffering, boxes, keyed, counted, discarded,
                       emitted, got, overflowed>>
    BY <1>5 DEF End, Finishes, Closed
  <2>2. Seen' = Seen
    BY <2>1 DEF Seen
  <2>3. Story' /\ Queue'
    BY <2>1, <2>2 DEF SubInv, Story, Queue
  <2>4. over' \in BOOLEAN
    BY <2>1, Zenon DEF SubInv, SubPhases
  <2>5. counted' <= BufferSize + (IF iterating' THEN 1 ELSE 0) + (IF Closed' THEN 1 ELSE 0)
    <3>1. counted <= BufferSize + (IF iterating THEN 1 ELSE 0) + 0 /\ counted \in Nat
      BY <2>1, SeenIsItems DEF SubInv, SubPhases
    <3> QED BY <2>1, <3>1, SubscriptionAssumption
  <2>6. 0 \in 0..MaxWaiters
    BY SubscriptionAssumption
  <2>7. SubPhases'
    BY <2>1, <2>4, <2>5, <2>6 DEF SubInv, SubPhases
  <2> QED BY <2>3, <2>7 DEF SubInv
<1>6. ASSUME OnCallback PROVE SubInv'
  <2>1. /\ ~iterating /\ ClearBuffer(FALSE) /\ UNCHANGED <<state, iterating, waiters, over>>
    BY <1>6 DEF OnCallback
  <2>2. Story' /\ Queue' /\ boxes' = <<>>
    BY <2>1, StartedAnew
  <2>3. /\ counted' = 0 /\ discarded' = 0 /\ got' = <<>> /\ emitted' = <<>>
        /\ overflowed' = {} /\ buffering' = FALSE /\ Closed' = Closed
    BY <2>1 DEF ClearBuffer, Closed
  <2>4. counted' <= BufferSize + (IF iterating' THEN 1 ELSE 0) + (IF Closed' THEN 1 ELSE 0)
    BY <2>3, SubscriptionAssumption
  <2>5. Where(boxes', "summary") = {}
    BY <2>2 DEF Where
  <2>6. waiters' = 0 /\ waiters' \in 0..MaxWaiters
    BY <2>1 DEF SubInv, SubPhases
  <2>7. SubPhases'
    BY <2>1, <2>2, <2>3, <2>4, <2>5, <2>6 DEF SubInv, SubPhases
  <2> QED BY <2>2, <2>7 DEF SubInv
<1>7. ASSUME Attach PROVE SubInv'
  BY <1>7, Attaches
<1>8. ASSUME NextItem PROVE SubInv'
  BY <1>8, TakesNext
<1>9. ASSUME NextDone \/ NextWaits \/ UNCHANGED subVars PROVE SubInv'
  <2>1. /\ UNCHANGED <<state, iterating, buffering, boxes, keyed, counted, discarded,
                       emitted, got, overflowed>>
        /\ \/ waiters' = waiters /\ over' \in {over, TRUE}
           \/ /\ waiters < MaxWaiters /\ waiters' = waiters + 1 /\ over' = over
              /\ iterating /\ boxes = <<>> /\ ~Closed
    BY <1>9 DEF NextDone, NextWaits, subVars
  <2>2. Closed' = Closed /\ Seen' = Seen
    BY <2>1 DEF Closed, Seen
  <2>3. Story' /\ Queue'
    BY <2>1, <2>2 DEF SubInv, Story, Queue
  <2>4. waiters' \in 0..MaxWaiters /\ over' \in BOOLEAN
    <3>1. over' = over \/ over' = TRUE
      BY <2>1
    <3>2. over' \in BOOLEAN
      BY <3>1, Zenon DEF SubInv, SubPhases
    <3>3. waiters' = waiters \/ (waiters < MaxWaiters /\ waiters' = waiters + 1)
      BY <2>1
    <3>4. waiters' \in 0..MaxWaiters
      BY <3>3, SubscriptionAssumption DEF SubInv, SubPhases
    <3> QED BY <3>2, <3>4
  <2>5. SubPhases'
    BY <1>0, <2>1, <2>2, <2>4 DEF SubInv, SubPhases
  <2> QED BY <2>3, <2>5 DEF SubInv
<1>10. ASSUME Return PROVE SubInv'
  <2>1. /\ iterating /\ iterating' = iterating /\ ClearBuffer(TRUE)
        /\ IF Closed THEN UNCHANGED <<state, waiters, over>>
           ELSE state' = "closed" /\ waiters' = 0 /\ over' = (over \/ waiters > 0)
    BY <1>10 DEF Return, Finishes
  <2>2. Story' /\ Queue' /\ boxes' = <<>>
    BY <2>1, StartedAnew
  <2>3. /\ state' \in {"pending", "active", "rejected", "closed"} /\ Closed'
        /\ waiters' \in 0..MaxWaiters /\ waiters' = 0
    BY <1>0, <2>1, SubscriptionAssumption DEF SubInv, SubPhases, Closed
  <2>4. over' \in BOOLEAN
    <3>1. over' = over \/ over' = (over \/ waiters > 0)
      BY <2>1
    <3> QED BY <3>1, Zenon DEF SubInv, SubPhases
  <2>5. SubPhases'
    BY <2>1, <2>2, <2>3, <2>4, SubscriptionAssumption DEF SubInv, SubPhases, ClearBuffer
  <2> QED BY <2>2, <2>5 DEF SubInv
<1> QED
  BY <1>1, <1>2, <1>3, <1>4, <1>5, <1>6, <1>7, <1>8, <1>9, <1>10 DEF SubNext

\* What is known implies the property.
LEMMA NothingIsLost == ASSUME SubInv PROVE NothingLostUnnoticed
<1>1. SubTypeOK
  <2>1. keyed \subseteq Rows \cup {"none"}
    <3>1. \A i \in Where(boxes, "row") : boxes[i].key \in Rows \cup {"none"}
      BY SeenIsItems, ItemOf DEF Where, Items
    <3> QED BY <3>1 DEF SubInv, Queue, KeysOf
  <2>2. counted \in 0..(BufferSize + 2)
    <3>1. counted \in Nat
      BY SeenIsItems
    <3>2. counted <= BufferSize + (IF iterating THEN 1 ELSE 0) + (IF Closed THEN 1 ELSE 0)
      BY DEF SubInv, SubPhases
    <3> QED BY <3>1, <3>2, SubscriptionAssumption
  <2> QED BY <2>1, <2>2 DEF SubInv, SubPhases, SubTypeOK
<1>2. EventsExact
  <2>1. overflowed # {} => Closed /\ Last1(Seen).kind = "fatal"
    BY DEF SubInv, Story, SubPhases
  <2> QED BY <2>1 DEF SubInv, Story, Told, Exact, EventsExact
<1>3. NoticesAccounted
  BY DEF SubInv, Story, Told, Exact, Account, Evicted, NoticesAccounted
<1>4. RowsKept
  BY DEF SubInv, Story, Told, Exact, RowsFit, RowsKept
<1>5. BufferConsistent
  <2>1. counted = Cardinality({i \in DOMAIN boxes : IsControl(boxes[i])})
    BY DEF SubInv, Queue, ControlsOf
  <2>2. keyed = {boxes[i].key : i \in Where(boxes, "row")}
    BY DEF SubInv, Queue, KeysOf
  <2>3. waiters > 0 => boxes = <<>> /\ ~Closed
    BY DEF SubInv, SubPhases
  <2> QED BY <2>1, <2>2, <2>3 DEF BufferConsistent
<1> QED BY <1>1, <1>2, <1>3, <1>4, <1>5 DEF NothingLostUnnoticed

\* Whatever is emitted and however it is consumed, merged or evicted: a consumer
\* gets every event once and in order, every row in an item of its key, merged
\* only upwards in time, and every notice or a count that includes it.
THEOREM SubscriptionLosesNothingUnnoticed == SubSpec => []NothingLostUnnoticed
<1>1. SubInit => SubInv
  BY SubStarts
<1>2. SubInv /\ [SubNext]_subVars => SubInv'
  BY SubSteps
<1>3. SubInv => NothingLostUnnoticed
  BY NothingIsLost
<1> QED BY <1>1, <1>2, <1>3, PTL DEF SubSpec

-----------------------------------------------------------------------------
(* The feed of a user, for any length of a replay and of the window that    *)
(* holds it twice, any orders and scopes, fills, frames and disconnects.    *)

\* Frames, by what they carry.
FeedFrames ==
    [wire : Scopes \cup {"fills"}, what : {"ack"}]
    \cup [wire : {"fills"}, what : {"fills"}, snapshot : BOOLEAN, fills : Seq(Nat)]
    \cup [wire : Scopes, what : {"orders"}, snapshot : BOOLEAN, rows : SUBSET Orders,
          remove : SUBSET Orders]
IsAck(f) == f.what = "ack"
IsReplay(f) == f.what = "fills" /\ f.snapshot
IsLive(f) == f.what = "fills" /\ ~f.snapshot

FeedTypes ==
    /\ wires \in {{"fills"}, Scopes}
    /\ replays \in BOOLEAN /\ snapshots \in BOOLEAN
    /\ executed \in 0..MaxFills /\ covered \in 0..executed /\ since \in Nat
    /\ resting \subseteq placed /\ placed \subseteq {o \in Orders : ScopeOf[o] \in wires}
    /\ connected \in BOOLEAN /\ owed \in BOOLEAN
    /\ served \subseteq wires /\ acked \subseteq wires /\ everAcked \subseteq wires
    /\ ~connected => served = {}
    /\ frames \in Seq(FeedFrames)
    /\ \A i \in DOMAIN frames : frames[i].wire \in served

\* What the subscriber handed of the fills up to n: each once, and none much older
\* than one before it; and the window holds the last of them.
Kept(seen, handed, n) ==
    /\ handed \in Seq(Nat) /\ \A i \in DOMAIN handed : handed[i] \in 1..n
    /\ \A i, j \in DOMAIN handed : i < j => handed[i] # handed[j] /\ handed[i] - Replay < handed[j]
    /\ seen \in Seq(Nat)
    /\ Len(seen) = IF Len(handed) <= Window THEN Len(handed) ELSE Window
    /\ \A k \in DOMAIN seen : seen[k] = handed[Len(handed) - Len(seen) + k]

\* The fills executed when the frame in place i was sent.
Due(i) == executed - (Len(frames) - i)

\* The last fills of n, in some order.
AreLast(fs, n) ==
    fs \in Seq(Nat) /\ \A m : Contains(fs, m) <=> m \in 1..n /\ n - Replay < m

\* What is on its way on the wire of the fills.
FillsOnTheirWay ==
    \A i \in DOMAIN frames :
        /\ IsAck(frames[i]) => i = 1
        /\ IsLive(frames[i]) =>
             /\ frames[i].fills = <<Due(i)>> /\ Due(i) \in 1..executed
             /\ \A j \in DOMAIN delivered : delivered[j] < Due(i)
        /\ IsReplay(frames[i]) =>
             /\ replays /\ (i = 1 \/ (i = 2 /\ IsAck(frames[1])))
             /\ Due(i) \in 0..executed /\ AreLast(frames[i].fills, Due(i))
             /\ \A j \in DOMAIN delivered : delivered[j] <= Due(i)
        /\ IsAck(frames[i]) /\ replays => 2 \in DOMAIN frames /\ IsReplay(frames[2])

\* A fill that was neither delivered nor refetched.
Missed(n) == ~Contains(delivered, n) /\ covered < n

ReplayPending == \E i \in DOMAIN frames : IsReplay(frames[i])

\* With replays, nothing is missed between two fills that were delivered, nor
\* after one but what is on its way.
ReplaysClose ==
    replays =>
      /\ \A a, b \in DOMAIN delivered : \A n \in Nat :
            delivered[a] < n /\ n < delivered[b] => ~Missed(n)
      /\ "fills" \in served /\ ~ReplayPending =>
            \A a \in DOMAIN delivered : \A n \in Nat :
               delivered[a] < n /\ n <= executed - Len(frames) => ~Missed(n)

\* Without, nothing is missed since the first acknowledgement but what is on its
\* way or owed; and what is owed is refetched at the acknowledgement.
GapsClose ==
    ~replays =>
      /\ ("fills" \in served /\ (owed \/ "fills" \notin everAcked)) =>
            frames # <<>> /\ IsAck(frames[1])
      /\ (connected /\ ~owed /\ "fills" \in everAcked) =>
            /\ "fills" \in served /\ \A i \in DOMAIN frames : ~IsAck(frames[i])
            /\ \A n \in Nat : since < n /\ n <= executed - Len(frames) => ~Missed(n)

FillsFlow ==
    /\ Kept(seenFills, delivered, executed)
    /\ "fills" \in wires => FillsOnTheirWay /\ ReplaysClose /\ GapsClose

\* A frame that says whether an order is open.
Mentions(f, o) ==
    /\ f.what = "orders" /\ f.wire = ScopeOf[o]
    /\ f.snapshot \/ o \in f.rows \/ o \in f.remove
Known(o) == ScopeOf[o] \in DOMAIN orders /\ o \in orders[ScopeOf[o]]
Snapshots(s) ==
    {i \in DOMAIN frames : frames[i].what = "orders" /\ frames[i].wire = s /\ frames[i].snapshot}

OrdersTypes ==
    /\ DOMAIN orders \subseteq Scopes \cap everAcked
    /\ \A s \in DOMAIN orders : orders[s] \subseteq {o \in Orders : ScopeOf[o] = s}
    /\ ~snapshots => ordersComplete = {}
    /\ told = OrdersEvent(orders, ordersComplete)
    /\ \A i \in DOMAIN frames : frames[i].what = "orders" =>
          /\ frames[i].rows \subseteq {o \in Orders : ScopeOf[o] = frames[i].wire}
          /\ frames[i].snapshot => snapshots

\* The last frame that mentions an order says how it is; when there is none, the
\* store knows it, or with a snapshot venue at least does not know a closed one.
LastMention ==
    \A o \in Orders : \A i \in DOMAIN frames :
        Mentions(frames[i], o) /\ (\A j \in DOMAIN frames : i < j => ~Mentions(frames[j], o))
          => (o \in frames[i].rows <=> o \in resting)
NoMention ==
    \A o \in Orders :
        ScopeOf[o] \in served /\ (\A i \in DOMAIN frames : ~Mentions(frames[i], o)) =>
          /\ Known(o) => o \in resting
          /\ snapshots /\ o \in resting => Known(o)
ScopesBegin ==
    \A s \in Scopes :
        /\ ~snapshots /\ connected /\ s \notin served => s \notin DOMAIN orders
        /\ snapshots /\ s \in served /\ Snapshots(s) = {} =>
             s \in DOMAIN orders /\ s \in ordersComplete

OrdersFlow == OrdersTypes /\ LastMention /\ NoMention /\ ScopesBegin

FeedInv == FeedTypes /\ FillsFlow /\ OrdersFlow

-----------------------------------------------------------------------------
(* The window *)

\* The window is wide enough: a fill that may be replayed and was delivered is
\* still in it.
LEMMA WindowIsWide ==
    ASSUME NEW n \in Nat, NEW seen, NEW handed, Kept(seen, handed, n),
           NEW f \in 1..n, n - Replay < f
    PROVE  Contains(seen, f) <=> Contains(handed, f)
<1>1. /\ Replay \in Nat /\ Replay >= 1 /\ Window \in Nat /\ Window >= 2 * Replay
      /\ handed \in Seq(Nat) /\ Len(handed) \in Nat /\ DOMAIN handed = 1..Len(handed)
      /\ seen \in Seq(Nat) /\ Len(seen) \in Nat /\ DOMAIN seen = 1..Len(seen)
  BY FeedAssumption DEF Kept
<1>2. /\ Len(seen) = IF Len(handed) <= Window THEN Len(handed) ELSE Window
      /\ \A k \in DOMAIN seen : seen[k] = handed[Len(handed) - Len(seen) + k]
  BY DEF Kept
<1>0. /\ Len(handed) <= Window => Len(seen) = Len(handed)
      /\ ~(Len(handed) <= Window) => Len(seen) = Window
  BY <1>2
<1>n. Len(handed) \in Nat /\ Len(seen) \in Nat /\ Window \in Nat /\ Window >= 1
  BY <1>1
<1>3. ASSUME Contains(seen, f) PROVE Contains(handed, f)
  <2>1. PICK k \in DOMAIN seen : seen[k] = f
    BY <1>1, <1>3 DEF Contains
  <2>2. Len(handed) - Len(seen) + k \in 1..Len(handed)
    BY <1>1, <1>2
  <2> QED BY <1>1, <1>2, <2>1, <2>2 DEF Contains
<1>4. ASSUME Contains(handed, f), ~Contains(seen, f) PROVE FALSE
  <2>1. PICK i \in 1..Len(handed) : handed[i] = f
    BY <1>4 DEF Contains
  <2>2. \A k \in 1..Len(seen) : seen[k] # f
    BY <1>4 DEF Contains
  <2>3. Len(handed) > Window /\ Len(seen) = Window
    <3>1. ASSUME Len(handed) <= Window PROVE FALSE
      <4>1. Len(seen) = Len(handed)
        BY <1>0, <3>1
      <4>2. i \in DOMAIN seen /\ Len(handed) - Len(seen) + i = i /\ i \in 1..Len(seen)
        BY <1>1, <2>1, <4>1
      <4>3. seen[i] = handed[i]
        BY <1>2, <4>2
      <4> QED BY <2>1, <2>2, <4>2, <4>3
    <3> QED BY <1>0, <1>n, <3>1
  <2>4. i <= Len(handed) - Window
    <3> SUFFICES ASSUME ~(i <= Len(handed) - Window) PROVE FALSE
      OBVIOUS
    <3> DEFINE k == i - (Len(handed) - Window)
    <3>1. k \in 1..Len(seen) /\ Len(handed) - Len(seen) + k = i
      BY <1>1, <2>1, <2>3
    <3> HIDE DEF k
    <3>2. seen[k] = handed[i]
      BY <1>1, <1>2, <3>1
    <3> QED BY <2>1, <2>2, <3>1, <3>2
  <2> DEFINE S == (i + 1)..(i + 2 * Replay)
             T == (f - Replay + 1)..(f + Replay - 1)
             g == [j \in S |-> handed[j]]
  <2>5. S \subseteq 1..Len(handed) /\ \A j \in S : i < j
    BY <1>1, <2>1, <2>4
  <2>6. g \in [S -> T]
    <3> SUFFICES ASSUME NEW j \in S PROVE handed[j] \in T
      OBVIOUS
    <3>1. handed[i] - Replay < handed[j] /\ handed[j] \in 1..n
      BY <1>1, <2>1, <2>5 DEF Kept
    <3> QED BY <1>1, <2>1, <3>1
  <2>7. /\ IsFiniteSet(S) /\ Cardinality(S) = 2 * Replay
        /\ IsFiniteSet(T) /\ Cardinality(T) = 2 * Replay - 1
    <3>1. i + 1 \in Int /\ i + 2 * Replay \in Int
          /\ f - Replay + 1 \in Int /\ f + Replay - 1 \in Int
      BY <1>1, <2>1
    <3>2. /\ IsFiniteSet(S)
          /\ Cardinality(S) = IF i + 1 > i + 2 * Replay THEN 0
                              ELSE (i + 2 * Replay) - (i + 1) + 1
      BY <3>1, FS_Interval
    <3>3. /\ IsFiniteSet(T)
          /\ Cardinality(T) = IF f - Replay + 1 > f + Replay - 1 THEN 0
                              ELSE (f + Replay - 1) - (f - Replay + 1) + 1
      BY <3>1, FS_Interval
    <3> HIDE DEF S, T
    <3>4. f \in Int /\ i \in Int
      BY <2>1
    <3> QED BY <1>1, <3>2, <3>3, <3>4
  <2>8. PICK x, y \in S : x # y /\ g[x] = g[y]
    <3>1. Cardinality(T) < Cardinality(S)
      BY <1>1, <2>7
    <3> HIDE DEF S, T, g
    <3> QED BY <2>6, <2>7, <3>1, FS_PigeonHole
  <2>9. handed[x] = handed[y] /\ x \in 1..Len(handed) /\ y \in 1..Len(handed) /\ (x < y \/ y < x)
    BY <1>1, <2>1, <2>5, <2>8
  <2> QED BY <1>1, <2>9 DEF Kept
<1> QED BY <1>3, <1>4

\* A fill that was not delivered is added to both.
LEMMA WindowMoves ==
    ASSUME NEW n \in Nat, NEW seen, NEW handed, Kept(seen, handed, n),
           NEW f \in 1..n, n - Replay < f, ~Contains(handed, f)
    PROVE  /\ Kept(Remember(seen, f), Append(handed, f), n)
           /\ \A m : Contains(Append(handed, f), m) <=> Contains(handed, m) \/ m = f
<1> DEFINE handed2 == Append(handed, f)
           longer == Append(seen, f)
           seen2 == Remember(seen, f)
<1>1. /\ Replay \in Nat /\ Window \in Nat /\ Window >= 1 /\ f \in Nat
      /\ handed \in Seq(Nat) /\ Len(handed) \in Nat /\ DOMAIN handed = 1..Len(handed)
      /\ seen \in Seq(Nat) /\ Len(seen) \in Nat /\ DOMAIN seen = 1..Len(seen)
  BY FeedAssumption DEF Kept
<1>2. /\ Len(seen) = IF Len(handed) <= Window THEN Len(handed) ELSE Window
      /\ \A k \in DOMAIN seen : seen[k] = handed[Len(handed) - Len(seen) + k]
  BY DEF Kept
<1>0. /\ Len(handed) <= Window => Len(seen) = Len(handed)
      /\ ~(Len(handed) <= Window) => Len(seen) = Window
  BY <1>2
<1>n. Len(handed) \in Nat /\ Len(seen) \in Nat /\ Window \in Nat /\ Window >= 1
  BY <1>1
<1>3. /\ handed2 \in Seq(Nat) /\ Len(handed2) = Len(handed) + 1 /\ DOMAIN handed2 = 1..(Len(handed) + 1)
      /\ handed2[Len(handed) + 1] = f /\ \A i \in 1..Len(handed) : handed2[i] = handed[i]
  BY <1>1
<1>4. /\ longer \in Seq(Nat) /\ Len(longer) = Len(seen) + 1
      /\ longer[Len(seen) + 1] = f /\ \A i \in 1..Len(seen) : longer[i] = seen[i]
  BY <1>1
<1>5. seen2 = IF Len(longer) > Window THEN Tail(longer) ELSE longer
  BY DEF Remember
<1> HIDE DEF handed2, longer, seen2
<1>6. \A i \in 1..Len(handed) : handed[i] \in 1..n /\ handed[i] # f /\ handed[i] - Replay < f
  <2> TAKE i \in 1..Len(handed)
  <2>1. handed[i] \in 1..n
    BY <1>1 DEF Kept
  <2>2. handed[i] # f
    BY DEF Contains
  <2> QED BY <1>1, <2>1, <2>2
<1>7. \A i \in DOMAIN handed2 : handed2[i] \in 1..n
  <2> TAKE i \in DOMAIN handed2
  <2>1. i = Len(handed) + 1 \/ i \in 1..Len(handed)
    BY <1>1, <1>3
  <2> QED BY <1>3, <1>6, <2>1
<1>8. \A i, j \in DOMAIN handed2 : i < j => handed2[i] # handed2[j] /\ handed2[i] - Replay < handed2[j]
  <2> TAKE i, j \in DOMAIN handed2
  <2> SUFFICES ASSUME i < j PROVE handed2[i] # handed2[j] /\ handed2[i] - Replay < handed2[j]
    OBVIOUS
  <2>0. i \in 1..(Len(handed) + 1) /\ j \in 1..(Len(handed) + 1) /\ Len(handed) \in Nat
    BY <1>3, <1>n
  <2>4. i \in 1..Len(handed)
    BY <2>0
  <2>1. i \in 1..Len(handed) /\ handed2[i] = handed[i]
    BY <1>3, <2>4
  <2>2. CASE j = Len(handed) + 1
    <3>1. handed2[j] = f
      BY <1>3, <2>2
    <3>2. handed[i] # f /\ handed[i] - Replay < f
      BY <1>6, <2>1
    <3> QED BY <2>1, <3>1, <3>2
  <2>3. CASE j # Len(handed) + 1
    <3>0. j \in 1..(Len(handed) + 1) /\ Len(handed) \in Nat
      BY <1>3, <1>n
    <3>1. j \in 1..Len(handed) /\ handed2[j] = handed[j]
      BY <1>3, <2>3, <3>0
    <3>2. \A k, m \in DOMAIN handed :
            k < m => handed[k] # handed[m] /\ handed[k] - Replay < handed[m]
      BY DEF Kept
    <3>3. i \in DOMAIN handed /\ j \in DOMAIN handed
      BY <1>1, <2>1, <3>1
    <3>4. handed[i] # handed[j] /\ handed[i] - Replay < handed[j]
      BY <3>2, <3>3
    <3> QED BY <2>1, <3>1, <3>4
  <2> QED BY <2>2, <2>3
<1>9. /\ seen2 \in Seq(Nat) /\ DOMAIN seen2 = 1..Len(seen2)
      /\ Len(seen2) = IF Len(handed2) <= Window THEN Len(handed2) ELSE Window
      /\ \A k \in DOMAIN seen2 : seen2[k] = handed2[Len(handed2) - Len(seen2) + k]
  <2>1. CASE Len(handed) < Window
    <3>1. Len(seen) = Len(handed) /\ Len(longer) = Len(handed) + 1
      BY <1>0, <1>n, <1>4, <2>1
    <3>2. seen2 = longer
      BY <1>1, <1>5, <2>1, <3>1
    <3>3. \A k \in 1..Len(handed) : seen[k] = handed[k]
      <4> TAKE k \in 1..Len(handed)
      <4>1. k \in DOMAIN seen /\ Len(handed) - Len(seen) + k = k
        BY <1>1, <3>1
      <4> QED BY <1>2, <4>1
    <3>4. \A k \in 1..(Len(handed) + 1) : longer[k] = handed2[k]
      <4> TAKE k \in 1..(Len(handed) + 1)
      <4>1. k = Len(handed) + 1 \/ k \in 1..Len(handed)
        BY <1>1
      <4> QED BY <1>3, <1>4, <3>1, <3>3, <4>1
    <3>5. DOMAIN longer = 1..(Len(handed) + 1)
      BY <1>4, <3>1
    <3>6. Len(handed2) - Len(seen2) = 0
      BY <1>1, <1>3, <3>1, <3>2
    <3>7. \A k \in DOMAIN seen2 : seen2[k] = handed2[Len(handed2) - Len(seen2) + k]
      <4> TAKE k \in DOMAIN seen2
      <4>1. k \in 1..(Len(handed) + 1) /\ Len(handed2) - Len(seen2) + k = k
        BY <1>1, <3>2, <3>5, <3>6
      <4> QED BY <3>2, <3>4, <4>1
    <3> QED BY <1>1, <1>3, <1>4, <2>1, <3>1, <3>2, <3>5, <3>7
  <2>2. CASE Len(handed) >= Window
    <3>1. Len(seen) = Window /\ Len(longer) = Window + 1 /\ seen2 = Tail(longer)
      <4>1. Len(seen) = Window
        BY <1>0, <1>n, <2>2
      <4> QED BY <1>1, <1>4, <1>5, <4>1
    <3>2. /\ seen2 \in Seq(Nat) /\ Len(seen2) = Window
          /\ \A k \in 1..Window : seen2[k] = longer[k + 1]
      BY <1>1, <1>4, <3>1
    <3>3. \A k \in 1..Window : longer[k + 1] = handed2[Len(handed) + 1 - Window + k]
      <4> TAKE k \in 1..Window
      <4>1. CASE k = Window
        BY <1>1, <1>3, <1>4, <3>1, <4>1
      <4>2. CASE k # Window
        <5>1. k + 1 \in 1..Len(seen) /\ longer[k + 1] = seen[k + 1]
          BY <1>1, <1>4, <3>1, <4>2
        <5>2. seen[k + 1] = handed[Len(handed) - Window + (k + 1)]
          BY <1>1, <1>2, <3>1, <5>1
        <5>3. Len(handed) - Window + (k + 1) \in 1..Len(handed)
          BY <1>1, <2>2, <4>2
        <5>4. Len(handed) - Window + (k + 1) = Len(handed) + 1 - Window + k
          BY <1>1
        <5> QED BY <1>3, <5>1, <5>2, <5>3, <5>4
      <4> QED BY <4>1, <4>2
    <3>4. DOMAIN seen2 = 1..Window
      BY <3>2
    <3>5. \A k \in DOMAIN seen2 : seen2[k] = handed2[Len(handed2) - Len(seen2) + k]
      <4> TAKE k \in DOMAIN seen2
      <4>1. k \in 1..Window /\ Len(handed2) - Len(seen2) + k = Len(handed) + 1 - Window + k
        BY <1>1, <1>3, <3>2, <3>4
      <4> QED BY <3>2, <3>3, <4>1
    <3> QED BY <1>1, <1>3, <2>2, <3>2, <3>4, <3>5
  <2> QED BY <1>1, <2>1, <2>2
<1>10. \A m : Contains(handed2, m) <=> Contains(handed, m) \/ m = f
  <2> TAKE m
  <2>1. Contains(handed2, m) <=> \E i \in 1..(Len(handed) + 1) : handed2[i] = m
    BY <1>3 DEF Contains
  <2>2. Contains(handed, m) <=> \E i \in 1..Len(handed) : handed[i] = m
    BY DEF Contains
  <2>3. \A i \in 1..(Len(handed) + 1) : i = Len(handed) + 1 \/ i \in 1..Len(handed)
    BY <1>1
  <2>4. Len(handed) + 1 \in 1..(Len(handed) + 1) /\ 1..Len(handed) \subseteq 1..(Len(handed) + 1)
    BY <1>1
  <2> QED BY <1>3, <2>1, <2>2, <2>3, <2>4
<1> QED BY <1>3, <1>7, <1>8, <1>9, <1>10 DEF Kept, handed2, seen2

-----------------------------------------------------------------------------
(* The loop over the fills of a frame *)

Accs == [seen : Seq(Nat), fresh : Seq(Nat)]
Start == [seen |-> seenFills, fresh |-> <<>>]

\* The states of the loop.
IsLoop(u, fs) ==
    u = [k \in 0..Len(fs) |-> IF k = 0 THEN Start ELSE Applied(u[k - 1], fs[k])]

\* A step of the loop keeps the types.
LEMMA AppliedTypes ==
    ASSUME NEW acc \in Accs, NEW f \in Nat PROVE Applied(acc, f) \in Accs
<1>1. acc.seen \in Seq(Nat) /\ acc.fresh \in Seq(Nat)
  BY DEF Accs
<1> DEFINE longer == Append(acc.seen, f)
<1>2. longer \in Seq(Nat) /\ Len(longer) = Len(acc.seen) + 1 /\ Append(acc.fresh, f) \in Seq(Nat)
  BY <1>1
<1>3. Len(acc.seen) \in Nat
  BY <1>1
<1>4. longer # <<>>
  <2> HIDE DEF longer
  <2> QED BY <1>2, <1>3, EmptySeq
<1>5. Tail(longer) \in Seq(Nat)
  BY <1>2, <1>4
<1> HIDE DEF longer
<1>6. Remember(acc.seen, f) = longer \/ Remember(acc.seen, f) = Tail(longer)
  BY DEF Remember, longer
<1> QED BY <1>2, <1>5, <1>6 DEF Applied, Accs

\* The loop exists: its states follow from each other.
LEMMA LoopExists ==
    ASSUME NEW fs \in Seq(Nat), seenFills \in Seq(Nat)
    PROVE  \E u : IsLoop(u, fs)
<1> DEFINE N == Len(fs)
           G(u, n) == /\ u = [k \in 0..n |-> u[k]] /\ u[0] = Start
                      /\ \A k \in 1..n : u[k] = Applied(u[k - 1], fs[k])
           T == {n \in 0..N : ~\E u : G(u, n)}
<1>1. N \in Nat
  OBVIOUS
<1>2. T = {}
  <2> SUFFICES ASSUME T # {} PROVE FALSE
    OBVIOUS
  <2>1. T \in SUBSET Nat
    BY <1>1
  <2>2. PICK n \in T : \A m \in T : n <= m
    <3> HIDE DEF T
    <3> QED BY <2>1, LeastOf
  <2>3. n \in 0..N /\ n \in Nat
    BY <1>1
  <2>4. CASE n = 0
    <3> DEFINE v == [k \in 0..0 |-> Start]
    <3>1. v = [k \in 0..0 |-> v[k]] /\ v[0] = Start /\ 1..0 = {}
      OBVIOUS
    <3>2. G(v, 0)
      BY <3>1
    <3> QED BY <2>4, <3>2
  <2>5. CASE n # 0
    <3>1. n - 1 \in 0..N /\ n - 1 \notin T
      <4> HIDE DEF T
      <4>1. n - 1 \in 0..N /\ ~(n <= n - 1)
        BY <1>1, <2>3, <2>5
      <4> QED BY <2>2, <4>1
    <3>2. PICK u : G(u, n - 1)
      BY <3>1
    <3> DEFINE v == [k \in 0..n |-> IF k = n THEN Applied(u[n - 1], fs[n]) ELSE u[k]]
    <3>3. v = [k \in 0..n |-> v[k]]
      OBVIOUS
    <3>4. v[0] = u[0] /\ \A k \in 0..(n - 1) : v[k] = u[k]
      BY <2>3, <2>5
    <3>5. \A k \in 1..n : v[k] = Applied(v[k - 1], fs[k])
      <4> TAKE k \in 1..n
      <4>1. k - 1 \in 0..(n - 1) /\ v[k - 1] = u[k - 1]
        BY <2>3, <3>4
      <4>2. CASE k = n
        <5>1. v[n] = Applied(u[n - 1], fs[n])
          BY <2>3
        <5> QED BY <4>1, <4>2, <5>1
      <4>3. CASE k # n
        <5>1. k \in 1..(n - 1) /\ k \in 0..(n - 1)
          BY <2>3, <4>3
        <5>2. u[k] = Applied(u[k - 1], fs[k])
          BY <3>2, <5>1
        <5> QED BY <3>4, <4>1, <5>1, <5>2
      <4> QED BY <4>2, <4>3
    <3> HIDE DEF v
    <3>6. G(v, n)
      BY <3>2, <3>3, <3>4, <3>5
    <3> QED BY <3>6
  <2> QED BY <2>4, <2>5
<1>3. PICK u : G(u, N)
  <2>1. N \in 0..N
    BY <1>1
  <2> HIDE DEF G, N
  <2> QED BY <1>2, <2>1
<1>4. \A k \in 0..N : u[k] = IF k = 0 THEN Start ELSE Applied(u[k - 1], fs[k])
  <2>1. \A k \in 0..N : k = 0 \/ k \in 1..N
    BY <1>1
  <2> QED BY <1>3, <2>1
<1>5. IsLoop(u, fs)
  BY <1>3, <1>4 DEF IsLoop
<1> QED BY <1>5

\* What the loop makes of fills of which the window tells whether they were
\* delivered.
LEMMA LoopKeeps ==
    ASSUME NEW fs \in Seq(Nat), NEW n \in Nat, Kept(seenFills, delivered, n),
           \A m : Contains(fs, m) => m \in 1..n /\ n - Replay < m
    PROVE  /\ Kept(Unseen(fs).seen, delivered \o Unseen(fs).fresh, n)
           /\ \A m : Contains(delivered \o Unseen(fs).fresh, m)
                       <=> Contains(delivered, m) \/ Contains(fs, m)
<1> DEFINE N == Len(fs)
           u == CHOOSE v : IsLoop(v, fs)
<1>1. N \in Nat /\ DOMAIN fs = 1..N /\ delivered \in Seq(Nat) /\ seenFills \in Seq(Nat)
  BY DEF Kept
<1>2. IsLoop(u, fs)
  BY <1>1, LoopExists
<1>3. Unseen(fs) = u[N]
  BY DEF Unseen, IsLoop, Start
<1> HIDE DEF u, N
<1>4. u[0] = Start /\ \A k \in 1..N : u[k] = Applied(u[k - 1], fs[k])
  <2>1. \A k \in 0..N : u[k] = IF k = 0 THEN Start ELSE Applied(u[k - 1], fs[k])
    BY <1>2 DEF IsLoop, N
  <2>2. 0 \in 0..N /\ \A k \in 1..N : k \in 0..N /\ k # 0
    BY <1>1
  <2> QED BY <2>1, <2>2
<1> DEFINE P(k) == /\ u[k] \in Accs
                   /\ Kept(u[k].seen, delivered \o u[k].fresh, n)
                   /\ \A m : Contains(delivered \o u[k].fresh, m)
                               <=> Contains(delivered, m) \/ \E j \in 1..k : fs[j] = m
<1>5. P(0)
  <2>1. u[0].seen = seenFills /\ u[0].fresh = <<>> /\ u[0] \in Accs
    BY <1>1, <1>4 DEF Start, Accs
  <2>2. delivered \o <<>> = delivered
    BY <1>1, ConcatEmptySeq
  <2>3. 1..0 = {}
    OBVIOUS
  <2> QED BY <2>1, <2>2, <2>3
<1>6. ASSUME NEW k \in 1..N, P(k - 1) PROVE P(k)
  <2> DEFINE acc == u[k - 1]
             f == fs[k]
             handed == delivered \o acc.fresh
  <2>1. f \in Nat /\ f \in 1..n /\ n - Replay < f
    <3>1. Contains(fs, f)
      BY <1>1 DEF Contains, N
    <3> QED BY <3>1
  <2>2. u[k] = Applied(acc, f) /\ acc \in Accs /\ acc.fresh \in Seq(Nat)
    BY <1>4, <1>6 DEF Accs
  <2>3. u[k] \in Accs
    BY <2>1, <2>2, AppliedTypes
  <2>4. Kept(acc.seen, handed, n)
    BY <1>6
  <2>5. \A m : Contains(handed, m) <=> Contains(delivered, m) \/ \E j \in 1..(k - 1) : fs[j] = m
    BY <1>6
  <2>6. \A m : (\E j \in 1..k : fs[j] = m) <=> (\E j \in 1..(k - 1) : fs[j] = m) \/ f = m
    <3>1. \A j : j \in 1..k <=> j \in 1..(k - 1) \/ j = k
      BY <1>1
    <3> QED BY <3>1
  <2>7. delivered \o Append(acc.fresh, f) = Append(handed, f)
    <3>1. <<f>> \in Seq(Nat) /\ handed \in Seq(Nat)
      BY <1>1, <2>1, <2>2, ConcatProperties
    <3>2. Append(acc.fresh, f) = acc.fresh \o <<f>> /\ Append(handed, f) = handed \o <<f>>
      BY <2>1, <2>2, <3>1, AppendIsConcat
    <3>3. delivered \o (acc.fresh \o <<f>>) = (delivered \o acc.fresh) \o <<f>>
      <4>1. delivered \in Seq(Nat) /\ acc.fresh \in Seq(Nat) /\ <<f>> \in Seq(Nat)
        BY <1>1, <2>2, <3>1
      <4>2. PICK x \in Seq(Nat), y \in Seq(Nat), z \in Seq(Nat) :
              x = delivered /\ y = acc.fresh /\ z = <<f>>
        BY <4>1, Zenon
      <4>3. (x \o y) \o z = x \o (y \o z)
        BY ConcatAssociative, SMTT(30)
      <4> QED BY <4>2, <4>3, Zenon
    <3> QED BY <3>2, <3>3
  <2> HIDE DEF acc, f, handed
  <2>8. Contains(acc.seen, f) <=> Contains(handed, f)
    BY <2>1, <2>4, WindowIsWide
  <2>9. CASE Contains(acc.seen, f)
    <3>1. u[k] = acc
      BY <2>2, <2>9 DEF Applied
    <3>2. delivered \o u[k].fresh = handed
      BY <3>1 DEF handed
    <3> QED BY <2>3, <2>4, <2>5, <2>6, <2>8, <2>9, <3>1, <3>2
  <2>10. CASE ~Contains(acc.seen, f)
    <3>1. u[k].seen = Remember(acc.seen, f) /\ u[k].fresh = Append(acc.fresh, f)
      BY <2>2, <2>10 DEF Applied
    <3>2. /\ Kept(Remember(acc.seen, f), Append(handed, f), n)
          /\ \A m : Contains(Append(handed, f), m) <=> Contains(handed, m) \/ m = f
      BY <2>1, <2>4, <2>8, <2>10, WindowMoves
    <3>3. delivered \o u[k].fresh = Append(handed, f)
      BY <2>7, <3>1
    <3> QED BY <2>3, <2>5, <2>6, <3>1, <3>2, <3>3
  <2> QED BY <2>9, <2>10
<1>7. P(N)
  <2> DEFINE T == {k \in 0..N : ~P(k)}
  <2>1. T = {}
    <3> SUFFICES ASSUME T # {} PROVE FALSE
      OBVIOUS
    <3>1. T \in SUBSET Nat
      BY <1>1
    <3>2. PICK k \in T : \A m \in T : k <= m
      <4> HIDE DEF T
      <4> QED BY <3>1, LeastOf
    <3>3. k \in 0..N /\ ~P(k)
      OBVIOUS
    <3> HIDE DEF P
    <3>4. k # 0
      BY <1>5, <3>3
    <3>5. k \in 1..N /\ k - 1 \in 0..N /\ k - 1 \notin T
      BY <1>1, <3>1, <3>2, <3>3, <3>4
    <3>6. P(k - 1)
      BY <3>5
    <3> QED BY <1>6, <3>3, <3>5, <3>6
  <2>2. N \in 0..N
    BY <1>1
  <2> HIDE DEF P
  <2> QED BY <2>1, <2>2
<1>8. \A m : Contains(fs, m) <=> \E j \in 1..N : fs[j] = m
  BY DEF Contains, N
<1> QED BY <1>3, <1>7, <1>8

-----------------------------------------------------------------------------
(* Frames *)

\* What a frame is.
LEMMA FrameKinds ==
    ASSUME NEW f \in FeedFrames
    PROVE  /\ f.what \in {"ack", "fills", "orders"} /\ f.wire \in Scopes \cup {"fills"}
           /\ f.what = "fills" => /\ f.wire = "fills" /\ f.snapshot \in BOOLEAN
                                  /\ f.fills \in Seq(Nat)
           /\ f.what = "orders" => /\ f.wire \in Scopes /\ f.snapshot \in BOOLEAN
                                   /\ f.rows \subseteq Orders /\ f.remove \subseteq Orders
BY DEF FeedFrames

\* Frames the venue sends.
LEMMA FramesSent ==
    /\ \A w \in Scopes \cup {"fills"} : AckFrame(w) \in FeedFrames
    /\ \A b \in BOOLEAN, fs \in Seq(Nat) : FillsFrame(b, fs) \in FeedFrames
    /\ \A s \in Scopes, b \in BOOLEAN, rows \in SUBSET Orders, remove \in SUBSET Orders :
          OrdersFrame(s, b, rows, remove) \in FeedFrames
BY DEF FeedFrames, AckFrame, FillsFrame, OrdersFrame

\* The queue without its head.
LEMMA FramesTaken ==
    ASSUME NEW q \in Seq(FeedFrames), q # <<>>
    PROVE  /\ Tail(q) \in Seq(FeedFrames) /\ Len(q) \in Nat /\ Len(q) >= 1
           /\ Len(Tail(q)) = Len(q) - 1 /\ DOMAIN q = 1..Len(q)
           /\ DOMAIN Tail(q) = 1..(Len(q) - 1) /\ q[1] \in FeedFrames
           /\ \A i \in DOMAIN Tail(q) : i + 1 \in DOMAIN q /\ Tail(q)[i] = q[i + 1]
<1>1. Len(q) \in Nat /\ DOMAIN q = 1..Len(q) /\ Len(q) # 0
  BY EmptySeq
<1>2. /\ Tail(q) \in Seq(FeedFrames) /\ Len(Tail(q)) = Len(q) - 1
      /\ \A i \in 1..Len(Tail(q)) : Tail(q)[i] = q[i + 1]
  BY HeadTailProperties
<1>3. DOMAIN Tail(q) = 1..(Len(q) - 1)
  BY <1>2
<1>4. \A i \in 1..(Len(q) - 1) : i + 1 \in 1..Len(q)
  BY <1>1
<1>5. 1 \in 1..Len(q) /\ Len(q) >= 1
  BY <1>1
<1> QED BY <1>1, <1>2, <1>3, <1>4, <1>5

\* The queue with another frame.
LEMMA FramesAdded ==
    ASSUME NEW q \in Seq(FeedFrames), NEW f \in FeedFrames
    PROVE  /\ Append(q, f) \in Seq(FeedFrames) /\ q \o <<f>> = Append(q, f)
           /\ Len(q) \in Nat /\ Len(Append(q, f)) = Len(q) + 1 /\ DOMAIN q = 1..Len(q)
           /\ DOMAIN Append(q, f) = 1..(Len(q) + 1)
           /\ \A i \in 1..Len(q) : Append(q, f)[i] = q[i]
           /\ Append(q, f)[Len(q) + 1] = f
           /\ q = <<>> => Append(q, f) = <<f>>
<1>1. /\ Append(q, f) \in Seq(FeedFrames) /\ Len(Append(q, f)) = Len(q) + 1
      /\ Len(q) \in Nat /\ DOMAIN q = 1..Len(q)
      /\ \A i \in 1..Len(q) : Append(q, f)[i] = q[i]
      /\ Append(q, f)[Len(q) + 1] = f
  BY AppendProperties
<1>2. q \o <<f>> = Append(q, f)
  BY AppendIsConcat
<1>3. DOMAIN Append(q, f) = 1..(Len(q) + 1)
  BY <1>1
<1>4. q = <<>> => Append(q, f) = <<f>>
  OBVIOUS
<1> QED BY <1>1, <1>2, <1>3, <1>4

\* The queue with an acknowledgement and what follows it.
LEMMA FramesServed ==
    ASSUME NEW q \in Seq(FeedFrames), NEW f \in FeedFrames, NEW g \in FeedFrames
    PROVE  /\ q \o <<f, g>> = Append(Append(q, f), g)
           /\ q \o <<f, g>> \in Seq(FeedFrames) /\ Len(q) \in Nat /\ DOMAIN q = 1..Len(q)
           /\ Len(q \o <<f, g>>) = Len(q) + 2 /\ DOMAIN (q \o <<f, g>>) = 1..(Len(q) + 2)
           /\ \A i \in 1..Len(q) : (q \o <<f, g>>)[i] = q[i]
           /\ (q \o <<f, g>>)[Len(q) + 1] = f /\ (q \o <<f, g>>)[Len(q) + 2] = g
<1> DEFINE a == Append(q, f)
           b == Append(a, g)
<1>1. /\ a \in Seq(FeedFrames) /\ Len(q) \in Nat /\ Len(a) = Len(q) + 1 /\ DOMAIN q = 1..Len(q)
      /\ a[Len(q) + 1] = f /\ \A i \in 1..Len(q) : a[i] = q[i]
      /\ a = q \o <<f>>
  BY FramesAdded
<1> HIDE DEF a
<1>2. /\ b \in Seq(FeedFrames) /\ Len(b) = Len(a) + 1 /\ DOMAIN b = 1..(Len(a) + 1)
      /\ b[Len(a) + 1] = g /\ \A i \in 1..Len(a) : b[i] = a[i]
      /\ b = a \o <<g>>
  BY <1>1, FramesAdded
<1> HIDE DEF b
<1>3. q \o <<f, g>> = b
  <2>1. <<f>> \in Seq(FeedFrames) /\ <<g>> \in Seq(FeedFrames) /\ <<f, g>> = <<f>> \o <<g>>
    <3>1. <<f>> \in Seq(FeedFrames) /\ <<g>> \in Seq(FeedFrames)
      OBVIOUS
    <3>2. Append(<<f>>, g) = <<f, g>>
      <4> DEFINE c == Append(<<f>>, g)
                 d == <<f, g>>
      <4>1. c \in Seq(FeedFrames) /\ Len(c) = 2 /\ c[1] = f /\ c[2] = g
        BY <3>1, AppendProperties
      <4>2. d \in Seq(FeedFrames) /\ Len(d) = 2 /\ d[1] = f /\ d[2] = g
        OBVIOUS
      <4> HIDE DEF c, d
      <4>3. \A i \in 1..Len(c) : c[i] = d[i]
        BY <4>1, <4>2
      <4>4. c = d
        BY <4>1, <4>2, <4>3, SeqEqual
      <4> QED BY <4>4 DEF c, d
    <3>3. Append(<<f>>, g) = <<f>> \o <<g>>
      BY <3>1, AppendIsConcat
    <3> QED BY <3>1, <3>2, <3>3
  <2>2. (q \o <<f>>) \o <<g>> = q \o (<<f>> \o <<g>>)
    BY <2>1, ConcatAssociative
  <2> QED BY <1>1, <1>2, <2>1, <2>2
<1>4. \A i \in 1..Len(q) : b[i] = q[i]
  BY <1>1, <1>2
<1>5. b[Len(q) + 1] = f /\ b[Len(q) + 2] = g /\ Len(b) = Len(q) + 2
  BY <1>1, <1>2
<1>6. DOMAIN b = 1..(Len(q) + 2) /\ b = Append(Append(q, f), g)
  BY <1>1, <1>2, <1>5 DEF b, a
<1> QED BY <1>1, <1>2, <1>3, <1>4, <1>5, <1>6

\* The last fills, oldest or newest first, are the last fills.
LEMMA LastFillsAreLast ==
    ASSUME executed \in Nat
    PROVE  AreLast(LastFills, executed) /\ AreLast(Reverse(LastFills), executed)
<1> DEFINE n == IF executed < Replay THEN executed ELSE Replay
           fs == LastFills
           gs == Reverse(LastFills)
<1>1. n \in Nat /\ n <= executed /\ Replay \in Nat /\ (n = executed \/ n = Replay)
      /\ (n # executed => Replay <= executed)
      /\ \A m \in 1..executed : executed - Replay < m <=> executed - n < m
  BY FeedAssumption
<1>2. fs = [i \in 1..n |-> executed - n + i]
  BY DEF LastFills
<1> HIDE DEF n
<1>3. \A i \in 1..n : executed - n + i \in Nat
  BY <1>1
<1>4. fs \in Seq(Nat) /\ Len(fs) = n
  <2>1. fs \in [1..n -> Nat]
    BY <1>2, <1>3
  <2> HIDE DEF fs
  <2> QED BY <1>1, <2>1, SeqDef, LenProperties
<1>5. gs = [i \in 1..n |-> fs[n - i + 1]]
  BY <1>4 DEF Reverse
<1>6. \A i \in 1..n : n - i + 1 \in 1..n
  BY <1>1
<1> HIDE DEF fs
<1>7. \A i \in 1..n : fs[i] = executed - n + i
  BY <1>2
<1>8. gs \in Seq(Nat) /\ Len(gs) = n
  <2>1. \A i \in 1..n : fs[n - i + 1] \in Nat
    BY <1>3, <1>6, <1>7
  <2>2. gs \in [1..n -> Nat]
    BY <1>5, <2>1
  <2> HIDE DEF gs
  <2> QED BY <1>1, <2>2, SeqDef, LenProperties
<1> HIDE DEF gs
<1>9. \A m : Contains(fs, m) <=> m \in 1..executed /\ executed - Replay < m
  <2> TAKE m
  <2>1. Contains(fs, m) <=> \E i \in 1..n : executed - n + i = m
    BY <1>4, <1>7 DEF Contains
  <2>2. ASSUME NEW i \in 1..n, executed - n + i = m
        PROVE  m \in 1..executed /\ executed - Replay < m
    <3>1. m \in 1..executed /\ executed - n < m
      BY <1>1, <2>2
    <3> QED BY <1>1, <3>1
  <2>3. ASSUME m \in 1..executed, executed - Replay < m
        PROVE  m - (executed - n) \in 1..n /\ executed - n + (m - (executed - n)) = m
    <3>1. executed - n < m
      BY <1>1, <2>3
    <3> QED BY <1>1, <2>3, <3>1
  <2> QED BY <2>1, <2>2, <2>3
<1>10. \A m : Contains(gs, m) <=> Contains(fs, m)
  <2> TAKE m
  <2>1. Contains(fs, m) <=> \E i \in 1..n : fs[i] = m
    BY <1>4 DEF Contains
  <2>2. Contains(gs, m) <=> \E i \in 1..n : fs[n - i + 1] = m
    BY <1>5, <1>8 DEF Contains
  <2>3. \A i \in 1..n : n - (n - i + 1) + 1 = i
    BY <1>1
  <2> QED BY <1>6, <2>1, <2>2, <2>3
<1> QED BY <1>4, <1>8, <1>9, <1>10 DEF AreLast, fs, gs

-----------------------------------------------------------------------------
(* Types *)

\* Where the wires are.
LEMMA OneWire ==
    ASSUME FeedTypes
    PROVE  /\ "fills" \in wires => wires = {"fills"} /\ served \subseteq {"fills"}
           /\ "fills" \notin wires => wires = Scopes
           /\ "fills" \notin served /\ "fills" \in wires => frames = <<>>
           /\ ~connected => frames = <<>>
           /\ \A i \in DOMAIN frames : frames[i] \in FeedFrames /\ frames[i].wire \in wires
           /\ frames # <<>> => 1 \in DOMAIN frames
           /\ \A o \in Orders : ScopeOf[o] \in Scopes /\ ScopeOf[o] # "fills"
<1>1. wires \in {{"fills"}, Scopes} /\ "fills" \notin Scopes /\ served \subseteq wires
  BY FeedAssumption DEF FeedTypes
<1>2. /\ frames \in Seq(FeedFrames) /\ Len(frames) \in Nat /\ DOMAIN frames = 1..Len(frames)
      /\ \A i \in DOMAIN frames : frames[i] \in FeedFrames /\ frames[i].wire \in served
  BY DEF FeedTypes
<1>3. served = {} => frames = <<>>
  <2> SUFFICES ASSUME served = {}, frames # <<>> PROVE FALSE
    OBVIOUS
  <2>1. 1 \in DOMAIN frames
    BY <1>2, EmptySeq
  <2> QED BY <1>2, <2>1
<1>4. frames # <<>> => 1 \in DOMAIN frames
  BY <1>2, EmptySeq
<1>5. \A o \in Orders : ScopeOf[o] \in Scopes /\ ScopeOf[o] # "fills"
  BY FeedAssumption
<1>6. ~connected => served = {}
  BY DEF FeedTypes
<1>7. "fills" \notin served /\ "fills" \in wires => served = {}
  BY <1>1
<1> QED BY <1>1, <1>2, <1>3, <1>4, <1>5, <1>6, <1>7

\* Frames of a served wire come to the end of the queue.
LEMMA TypesSent ==
    ASSUME FeedTypes, NEW w \in wires, NEW f \in FeedFrames, f.wire = w, Sends(w, <<f>>),
           served' = served
    PROVE  /\ frames' \in Seq(FeedFrames)
           /\ \A i \in DOMAIN frames' : frames'[i].wire \in served'
           /\ w \notin served => frames' = frames
           /\ w \in served => frames' = Append(frames, f)
<1>1. frames \in Seq(FeedFrames) /\ \A i \in DOMAIN frames : frames[i].wire \in served
  BY DEF FeedTypes
<1>2. CASE w \notin served
  BY <1>1, <1>2 DEF Sends
<1>3. CASE w \in served
  <2>1. frames' = Append(frames, f)
    BY <1>1, <1>3, FramesAdded DEF Sends
  <2>2. /\ frames' \in Seq(FeedFrames)
        /\ \A i \in DOMAIN frames' : frames'[i] = f \/ (i \in DOMAIN frames /\ frames'[i] = frames[i])
    <3>1. \A i \in 1..(Len(frames) + 1) : i = Len(frames) + 1 \/ i \in 1..Len(frames)
      BY <1>1
    <3> QED BY <1>1, <2>1, <3>1, FramesAdded
  <2> QED BY <1>1, <1>3, <2>1, <2>2
<1> QED BY <1>2, <1>3

\* Frames leave at the head of the queue.
LEMMA TypesReceived ==
    ASSUME FeedTypes, frames # <<>>, frames' = Tail(frames), served' = served
    PROVE  /\ frames' \in Seq(FeedFrames)
           /\ \A i \in DOMAIN frames' : frames'[i].wire \in served'
           /\ frames[1].wire \in wires /\ frames[1] \in FeedFrames
BY FramesTaken, OneWire DEF FeedTypes

\* Every step keeps the types.
LEMMA TypesStep == ASSUME FeedTypes, [FeedNext]_feedVars PROVE FeedTypes'
<1>0. /\ executed \in Nat /\ MaxFills \in Nat /\ covered \in Nat /\ covered <= executed
      /\ frames \in Seq(FeedFrames) /\ \A i \in DOMAIN frames : frames[i].wire \in served
      /\ wires \subseteq Scopes \cup {"fills"} /\ executed <= MaxFills
  BY FeedAssumption DEF FeedTypes
<1>1. ASSUME NEW w \in wires, VenueServes(w) PROVE FeedTypes'
  <2>1. /\ frames' \in Seq(FeedFrames)
        /\ \A i \in DOMAIN frames' : frames'[i].wire \in served'
    <3>1. \/ \E g \in FeedFrames : g.wire = w /\ frames' = frames \o <<AckFrame(w), g>>
          \/ frames' = Append(frames, AckFrame(w))
      <4>1. CASE w = "fills" /\ replays
        <5>1. PICK fs \in {LastFills, Reverse(LastFills)} :
                frames' = frames \o <<AckFrame(w), FillsFrame(TRUE, fs)>>
          BY <1>1, <4>1 DEF VenueServes
        <5>2. fs \in Seq(Nat)
          BY <1>0, LastFillsAreLast DEF AreLast
        <5>3. FillsFrame(TRUE, fs) \in FeedFrames /\ FillsFrame(TRUE, fs).wire = w
          BY <4>1, <5>2, FramesSent DEF FillsFrame
        <5> QED BY <5>1, <5>3
      <4>2. CASE w # "fills" /\ snapshots
        <5> DEFINE g == OrdersFrame(w, TRUE, {o \in resting : ScopeOf[o] = w}, {})
        <5>1. frames' = frames \o <<AckFrame(w), g>>
          BY <1>1, <4>2 DEF VenueServes
        <5>2. w \in Scopes /\ {o \in resting : ScopeOf[o] = w} \subseteq Orders
          BY <1>0, <4>2 DEF FeedTypes
        <5>3. g \in FeedFrames /\ g.wire = w
          BY <5>2, FramesSent DEF OrdersFrame
        <5> HIDE DEF g
        <5> QED BY <5>1, <5>3
      <4>3. CASE ~(w = "fills" /\ replays) /\ ~(w # "fills" /\ snapshots)
        BY <1>1, <4>3 DEF VenueServes
      <4> QED BY <4>1, <4>2, <4>3
    <3>2. /\ served' = served \cup {w} /\ AckFrame(w) \in FeedFrames /\ AckFrame(w).wire = w
          /\ Len(frames) \in Nat
      BY <1>0, <1>1, FramesSent DEF VenueServes, AckFrame
    <3>3. CASE frames' = Append(frames, AckFrame(w))
      <4>1. \A i \in 1..(Len(frames) + 1) : i = Len(frames) + 1 \/ i \in 1..Len(frames)
        BY <3>2
      <4> QED BY <1>0, <3>2, <3>3, <4>1, FramesAdded
    <3>4. ASSUME NEW g \in FeedFrames, g.wire = w, frames' = frames \o <<AckFrame(w), g>>
          PROVE  /\ frames' \in Seq(FeedFrames)
                 /\ \A i \in DOMAIN frames' : frames'[i].wire \in served'
      <4>1. \A i \in 1..(Len(frames) + 2) :
              i = Len(frames) + 1 \/ i = Len(frames) + 2 \/ i \in 1..Len(frames)
        BY <3>2
      <4> QED BY <1>0, <3>2, <3>4, <4>1, FramesServed
    <3> QED BY <3>1, <3>3, <3>4
  <2> QED BY <1>1, <2>1 DEF FeedTypes, VenueServes, venueVars, storeVars, subscriberVars
<1>2. ASSUME VenueFills PROVE FeedTypes'
  <2>1. /\ "fills" \in wires /\ executed < MaxFills /\ executed' = executed + 1
        /\ served' = served /\ Sends("fills", <<FillsFrame(FALSE, <<executed + 1>>)>>)
    BY <1>2 DEF VenueFills
  <2>2. <<executed + 1>> \in Seq(Nat)
    BY <1>0
  <2>3. /\ FillsFrame(FALSE, <<executed + 1>>) \in FeedFrames
        /\ FillsFrame(FALSE, <<executed + 1>>).wire = "fills"
    BY <2>2, FramesSent DEF FillsFrame
  <2>4. /\ frames' \in Seq(FeedFrames)
        /\ \A i \in DOMAIN frames' : frames'[i].wire \in served'
    BY <2>1, <2>3, TypesSent
  <2>5. executed' \in 0..MaxFills /\ covered \in 0..executed'
    BY <1>0, <2>1
  <2> QED BY <1>2, <2>4, <2>5 DEF FeedTypes, VenueFills, storeVars, subscriberVars
<1>3. ASSUME NEW o \in Orders, VenueOpens(o) \/ VenueCloses(o) PROVE FeedTypes'
  <2>1. /\ ScopeOf[o] \in wires /\ ScopeOf[o] \in Scopes /\ served' = served
        /\ \E rows, remove \in SUBSET Orders :
             Sends(ScopeOf[o], <<OrdersFrame(ScopeOf[o], FALSE, rows, remove)>>)
        /\ resting' \subseteq placed'
        /\ placed' \subseteq {p \in Orders : ScopeOf[p] \in wires}
    <3>1. CASE VenueOpens(o)
      BY <3>1, OneWire DEF VenueOpens, FeedTypes
    <3>2. CASE VenueCloses(o)
      BY <3>2, OneWire DEF VenueCloses, FeedTypes
    <3> QED BY <1>3, <3>1, <3>2
  <2>2. PICK rows, remove \in SUBSET Orders :
          Sends(ScopeOf[o], <<OrdersFrame(ScopeOf[o], FALSE, rows, remove)>>)
    BY <2>1
  <2> DEFINE f == OrdersFrame(ScopeOf[o], FALSE, rows, remove)
  <2>3. f \in FeedFrames /\ f.wire = ScopeOf[o]
    BY <2>1, FramesSent DEF OrdersFrame
  <2>4. /\ frames' \in Seq(FeedFrames)
        /\ \A i \in DOMAIN frames' : frames'[i].wire \in served'
    <3> HIDE DEF f
    <3> QED BY <2>1, <2>2, <2>3, TypesSent DEF f
  <2>5. UNCHANGED <<wires, replays, snapshots, executed, connected, served, losses,
                    acked, everAcked, storeVars, subscriberVars>>
    BY <1>3 DEF VenueOpens, VenueCloses
  <2> QED BY <2>1, <2>4, <2>5 DEF FeedTypes, subscriberVars
<1>4. ASSUME OnOpen PROVE FeedTypes'
  <2>1. /\ connected' = TRUE /\ acked' = {}
        /\ UNCHANGED <<venueVars, served, frames, losses, everAcked, covered, since>>
        /\ owed' = (owed \/ (~replays /\ "fills" \in everAcked))
    BY <1>4 DEF OnOpen
  <2>2. owed' \in BOOLEAN
    BY <2>1, Zenon
  <2> QED BY <2>1, <2>2 DEF FeedTypes, venueVars
<1>5. ASSUME Disconnects PROVE FeedTypes'
  <2>1. /\ connected' = FALSE /\ served' = {} /\ frames' = <<>>
        /\ UNCHANGED <<venueVars, acked, everAcked, owed, covered, since>>
    BY <1>5 DEF Disconnects, subscriberVars
  <2>2. <<>> \in Seq(FeedFrames) /\ DOMAIN <<>> = {}
    BY EmptySeq
  <2> QED BY <2>1, <2>2 DEF FeedTypes, venueVars
<1>6. ASSUME OnAck \/ OnFills \/ OnOrders PROVE FeedTypes'
  <2>1. /\ frames # <<>> /\ frames' = Tail(frames)
        /\ UNCHANGED <<venueVars, connected, served, losses>>
        /\ \E w \in wires : acked' = acked \cup {w} /\ everAcked' = everAcked \cup {w}
        /\ since' \in {since, executed}
        /\ covered' \in {covered, executed}
    <3>0. frames # <<>>
      BY <1>6 DEF OnAck, OnFills, OnOrders
    <3>1. frames[1].wire \in wires /\ frames[1] \in FeedFrames
      BY <3>0, OneWire
    <3>2. \E w \in wires : Received(w)
      <4>1. CASE OnAck
        BY <3>1, <4>1 DEF OnAck
      <4>2. CASE OnFills
        <5>1. frames[1].wire = "fills" /\ Received("fills")
          BY <3>1, <4>2, FrameKinds DEF OnFills
        <5> QED BY <3>1, <5>1
      <4>3. CASE OnOrders
        BY <3>1, <4>3 DEF OnOrders
      <4> QED BY <1>6, <4>1, <4>2, <4>3
    <3>3. PICK w \in wires : Received(w)
      BY <3>2
    <3>4. covered' \in {covered, executed}
      BY <1>6 DEF OnAck, OnFills, OnOrders
    <3> QED BY <3>0, <3>3, <3>4 DEF Received, MarkAcked
  <2>2. owed' \in BOOLEAN
    <3>1. owed' = owed \/ owed' = (owed /\ ~(owed /\ frames[1].wire = "fills"))
      BY <1>6 DEF OnAck, OnFills, OnOrders
    <3> QED BY <3>1, Zenon DEF FeedTypes
  <2>3. /\ frames' \in Seq(FeedFrames)
        /\ \A i \in DOMAIN frames' : frames'[i].wire \in served'
    BY <2>1, TypesReceived
  <2>4. since' \in Nat /\ covered' \in 0..executed'
    BY <1>0, <2>1 DEF FeedTypes, venueVars
  <2> QED BY <2>1, <2>2, <2>3, <2>4 DEF FeedTypes, venueVars
<1>7. ASSUME UNCHANGED feedVars PROVE FeedTypes'
  BY <1>7 DEF feedVars, venueVars, wireVars, storeVars, subscriberVars, FeedTypes
<1> QED BY <1>1, <1>2, <1>3, <1>4, <1>5, <1>6, <1>7 DEF FeedNext

-----------------------------------------------------------------------------
(* Fills *)

\* What was delivered of the fills up to n are fills up to any other number that
\* bounds them.
LEMMA KeptBounded ==
    ASSUME NEW n \in Nat, NEW m \in Nat, NEW seen, NEW handed, Kept(seen, handed, n),
           \A j \in DOMAIN handed : handed[j] <= m
    PROVE  Kept(seen, handed, m)
<1>1. handed \in Seq(Nat) /\ \A j \in DOMAIN handed : handed[j] \in 1..n
  BY DEF Kept
<1>2. \A j \in DOMAIN handed : handed[j] \in 1..m
  BY <1>1
<1> QED BY <1>2 DEF Kept

\* What the window holds was delivered, and it holds something once something was.
LEMMA WindowHolds ==
    ASSUME NEW n \in Nat, NEW seen, NEW handed, Kept(seen, handed, n)
    PROVE  /\ \A m : Contains(seen, m) => Contains(handed, m)
           /\ \A m : Contains(handed, m) => seen # <<>> /\ m \in 1..n
<1>1. /\ handed \in Seq(Nat) /\ Len(handed) \in Nat /\ DOMAIN handed = 1..Len(handed)
      /\ seen \in Seq(Nat) /\ Len(seen) \in Nat /\ DOMAIN seen = 1..Len(seen)
      /\ Window \in Nat /\ Window >= 1 /\ \A i \in DOMAIN handed : handed[i] \in 1..n
  BY FeedAssumption DEF Kept
<1>2. \A k \in DOMAIN seen : seen[k] = handed[Len(handed) - Len(seen) + k]
  BY DEF Kept
<1>3. Len(seen) <= Len(handed) /\ (Len(handed) >= 1 => Len(seen) >= 1)
  <2>1. Len(seen) = IF Len(handed) <= Window THEN Len(handed) ELSE Window
    BY DEF Kept
  <2>2. Len(handed) \in Nat /\ Window \in Nat /\ Window >= 1
    BY <1>1
  <2> QED BY <2>1, <2>2
<1>4. ASSUME NEW m, Contains(seen, m) PROVE Contains(handed, m)
  <2>1. PICK k \in 1..Len(seen) : seen[k] = m
    BY <1>4 DEF Contains
  <2>2. Len(handed) - Len(seen) + k \in 1..Len(handed)
    <3>1. Len(handed) \in Nat /\ Len(seen) \in Nat
      BY <1>1
    <3> QED BY <1>3, <2>1, <3>1
  <2> QED BY <1>1, <1>2, <2>1, <2>2 DEF Contains
<1>5. ASSUME NEW m, Contains(handed, m) PROVE seen # <<>> /\ m \in 1..n
  <2>1. PICK i \in 1..Len(handed) : handed[i] = m
    BY <1>5 DEF Contains
  <2>2. Len(seen) >= 1
    BY <1>1, <1>3
  <2>3. seen # <<>>
    BY <2>2, EmptySeq
  <2>4. m \in 1..n
    BY <1>1, <2>1
  <2> QED BY <2>3, <2>4
<1> QED BY <1>4, <1>5

\* A frame is taken from the head: the others move up.
LEMMA WayTaken ==
    ASSUME FeedTypes, "fills" \in wires, FillsOnTheirWay, frames # <<>>,
           frames' = Tail(frames), executed' = executed, replays' = replays,
           \A j \in DOMAIN delivered' : delivered'[j] \in Nat,
           \/ IsAck(frames[1]) /\ delivered' = delivered
           \/ frames[1].what = "fills" /\ \A j \in DOMAIN delivered' : delivered'[j] <= Due(1)
    PROVE  /\ FillsOnTheirWay' /\ Len(frames') = Len(frames) - 1 /\ Len(frames) \in Nat
           /\ Len(frames) >= 1
           /\ \A i \in DOMAIN frames' : /\ frames'[i] = frames[i + 1] /\ ~IsAck(frames'[i])
                                        /\ frames[1].what = "fills" => IsLive(frames'[i])
<1>1. /\ Len(frames) \in Nat /\ Len(frames) >= 1 /\ Len(frames') = Len(frames) - 1
      /\ DOMAIN frames = 1..Len(frames) /\ DOMAIN frames' = 1..(Len(frames) - 1)
      /\ \A i \in DOMAIN frames' : i + 1 \in DOMAIN frames /\ frames'[i] = frames[i + 1]
  BY FramesTaken DEF FeedTypes
<1>2. \A i \in DOMAIN frames : \/ frames[i].what = "fills" /\ frames[i].snapshot \in BOOLEAN
                               \/ IsAck(frames[i])
  <2> TAKE i \in DOMAIN frames
  <2>1. frames[i] \in FeedFrames /\ frames[i].wire \in {"fills"} /\ "fills" \notin Scopes
    BY OneWire, FeedAssumption
  <2> QED BY <2>1, FrameKinds DEF IsAck
<1>3. executed \in Nat
  BY FeedAssumption DEF FeedTypes
<1>4. ASSUME NEW i \in DOMAIN frames'
      PROVE  /\ ~IsAck(frames'[i]) /\ (frames[1].what = "fills" => ~IsReplay(frames'[i]))
             /\ IsLive(frames'[i]) \/ IsReplay(frames'[i])
             /\ Due(i)' = Due(i + 1) /\ Due(i + 1) = Due(1) + i /\ Due(1) \in Int /\ i >= 1
  <2>1. i + 1 \in DOMAIN frames /\ frames'[i] = frames[i + 1] /\ i \in Nat /\ i >= 1
    BY <1>1
  <2>2. ~IsAck(frames[i + 1])
    BY <2>1 DEF FillsOnTheirWay
  <2>3. IsReplay(frames[i + 1]) => IsAck(frames[1])
    BY <2>1 DEF FillsOnTheirWay
  <2>4. IsLive(frames[i + 1]) \/ IsReplay(frames[i + 1])
    BY <1>2, <2>1, <2>2 DEF IsAck, IsLive, IsReplay
  <2>5. Due(i)' = Due(i + 1) /\ Due(i + 1) = Due(1) + i /\ Due(1) \in Int
    <3>1. Len(frames) \in Nat /\ Len(frames') = Len(frames) - 1
      BY <1>1
    <3> QED BY <1>3, <2>1, <3>1 DEF Due
  <2> QED BY <2>1, <2>2, <2>3, <2>4, <2>5 DEF IsAck
<1>5. FillsOnTheirWay'
  <2> SUFFICES ASSUME NEW i \in DOMAIN frames'
        PROVE  /\ IsLive(frames'[i]) =>
                    /\ frames'[i].fills = <<Due(i)'>> /\ Due(i)' \in 1..executed'
                    /\ \A j \in DOMAIN delivered' : delivered'[j] < Due(i)'
               /\ IsReplay(frames'[i]) =>
                    /\ replays' /\ i = 1
                    /\ Due(i)' \in 0..executed' /\ AreLast(frames'[i].fills, Due(i)')
                    /\ \A j \in DOMAIN delivered' : delivered'[j] <= Due(i)'
    BY <1>4 DEF FillsOnTheirWay
  <2>0. i + 1 \in DOMAIN frames /\ frames'[i] = frames[i + 1] /\ i \in Nat /\ i >= 1
    BY <1>1
  <2>1. ASSUME IsLive(frames'[i])
        PROVE  /\ frames'[i].fills = <<Due(i)'>> /\ Due(i)' \in 1..executed'
               /\ \A j \in DOMAIN delivered' : delivered'[j] < Due(i)'
    <3>1. /\ frames[i + 1].fills = <<Due(i + 1)>> /\ Due(i + 1) \in 1..executed
          /\ \A j \in DOMAIN delivered : delivered[j] < Due(i + 1)
      BY <2>0, <2>1 DEF FillsOnTheirWay
    <3>2. \A j \in DOMAIN delivered' : delivered'[j] < Due(i + 1)
      <4>1. CASE delivered' = delivered
        BY <3>1, <4>1
      <4>2. CASE \A j \in DOMAIN delivered' : delivered'[j] <= Due(1)
        BY <1>4, <4>2
      <4> QED BY <4>1, <4>2
    <3> QED BY <1>4, <2>0, <3>1, <3>2
  <2>2. ASSUME IsReplay(frames'[i])
        PROVE  /\ replays' /\ i = 1
               /\ Due(i)' \in 0..executed' /\ AreLast(frames'[i].fills, Due(i)')
               /\ \A j \in DOMAIN delivered' : delivered'[j] <= Due(i)'
    <3>1. /\ replays /\ (i + 1 = 1 \/ i + 1 = 2) /\ Due(i + 1) \in 0..executed
          /\ AreLast(frames[i + 1].fills, Due(i + 1))
          /\ \A j \in DOMAIN delivered : delivered[j] <= Due(i + 1)
      BY <2>0, <2>2 DEF FillsOnTheirWay
    <3>2. delivered' = delivered
      BY <1>4, <2>2
    <3>3. i = 1
      BY <2>0, <3>1
    <3> QED BY <1>4, <2>0, <3>1, <3>2, <3>3
  <2> QED BY <2>1, <2>2
<1> QED BY <1>1, <1>4, <1>5

\* The venue serves the fills.
LEMMA FillsServed ==
    ASSUME FeedTypes, FillsFlow, "fills" \in wires, NEW w \in wires, VenueServes(w)
    PROVE  FillsOnTheirWay' /\ ReplaysClose' /\ GapsClose'
<1>1. /\ w = "fills" /\ w \notin served /\ served' = {"fills"} /\ frames = <<>> /\ connected
      /\ UNCHANGED <<replays, executed, connected, everAcked, delivered, covered, owed, since>>
      /\ executed \in Nat
  <2>1. w = "fills" /\ served \subseteq {"fills"}
    BY OneWire
  <2>2. w \notin served /\ served' = served \cup {w} /\ connected
    BY DEF VenueServes
  <2>3. UNCHANGED <<replays, executed, connected, everAcked, delivered, covered, owed, since>>
    BY DEF VenueServes, venueVars, subscriberVars
  <2>4. executed \in Nat
    BY FeedAssumption DEF FeedTypes
  <2>5. frames = <<>>
    BY <2>1, <2>2, OneWire
  <2> QED BY <2>1, <2>2, <2>3, <2>4, <2>5
<1>2. /\ \A j \in DOMAIN delivered : delivered[j] <= executed
      /\ \A n : Missed(n)' <=> Missed(n)
  BY <1>1 DEF FillsFlow, Kept, Missed
<1>3. CASE replays
  <2> DEFINE a == AckFrame("fills")
  <2>1. PICK fs \in {LastFills, Reverse(LastFills)} :
          frames' = <<>> \o <<a, FillsFrame(TRUE, fs)>>
    BY <1>1, <1>3 DEF VenueServes
  <2> DEFINE g == FillsFrame(TRUE, fs)
  <2>2. AreLast(fs, executed) /\ fs \in Seq(Nat)
    BY <1>1, LastFillsAreLast DEF AreLast
  <2>3. a \in FeedFrames /\ g \in FeedFrames /\ IsAck(a) /\ IsReplay(g) /\ g.fills = fs
    BY <2>2, FramesSent DEF AckFrame, FillsFrame, IsAck, IsReplay
  <2>4. ~IsLive(a) /\ ~IsReplay(a) /\ ~IsAck(g) /\ ~IsLive(g)
    BY DEF AckFrame, FillsFrame, IsAck, IsReplay, IsLive
  <2> HIDE DEF a, g
  <2>5. Len(frames') = 2 /\ DOMAIN frames' = 1..2 /\ frames'[1] = a /\ frames'[2] = g
    <3>1. <<>> \in Seq(FeedFrames) /\ Len(<<>>) = 0
      BY EmptySeq
    <3> QED BY <2>1, <2>3, <3>1, FramesServed DEF g
  <2>6. Due(2)' = executed
    BY <1>1, <2>5 DEF Due
  <2>7. FillsOnTheirWay'
    <3> SUFFICES ASSUME NEW i \in 1..2 PROVE
        /\ IsAck(frames'[i]) => i = 1
        /\ ~IsLive(frames'[i])
        /\ IsReplay(frames'[i]) =>
             /\ replays' /\ (i = 1 \/ (i = 2 /\ IsAck(frames'[1])))
             /\ Due(i)' \in 0..executed' /\ AreLast(frames'[i].fills, Due(i)')
             /\ \A j \in DOMAIN delivered' : delivered'[j] <= Due(i)'
        /\ IsAck(frames'[i]) /\ replays' => 2 \in DOMAIN frames' /\ IsReplay(frames'[2])
      BY <2>5 DEF FillsOnTheirWay
    <3>1. CASE i = 1
      BY <2>3, <2>4, <2>5, <3>1
    <3>2. CASE i = 2
      BY <1>1, <1>2, <1>3, <2>2, <2>3, <2>4, <2>5, <2>6, <3>2
    <3> QED BY <3>1, <3>2
  <2>8. ReplayPending'
    BY <2>3, <2>5 DEF ReplayPending
  <2>9. ReplaysClose'
    BY <1>1, <1>2, <1>3, <2>8 DEF ReplaysClose, FillsFlow
  <2>10. GapsClose'
    BY <1>1, <1>3 DEF GapsClose
  <2> QED BY <2>7, <2>9, <2>10
<1>4. CASE ~replays
  <2> DEFINE a == AckFrame("fills")
  <2>1. frames' = Append(<<>>, a)
    BY <1>1, <1>4 DEF VenueServes
  <2>2. a \in FeedFrames /\ IsAck(a) /\ ~IsLive(a) /\ ~IsReplay(a)
    BY FramesSent DEF AckFrame, IsAck, IsLive, IsReplay
  <2> HIDE DEF a
  <2>3. Len(frames') = 1 /\ DOMAIN frames' = {1} /\ frames'[1] = a /\ frames' # <<>>
    <3>1. <<>> \in Seq(FeedFrames) /\ Len(<<>>) = 0
      BY EmptySeq
    <3>2. /\ Len(frames') = Len(<<>>) + 1 /\ DOMAIN frames' = 1..(Len(<<>>) + 1)
          /\ frames'[Len(<<>>) + 1] = a /\ frames' # <<>>
      BY <2>1, <2>2, <3>1, FramesAdded, AppendProperties
    <3>3. Len(frames') = 1 /\ DOMAIN frames' = 1..1 /\ frames'[1] = a
      BY <3>1, <3>2
    <3> QED BY <3>2, <3>3
  <2>4. FillsOnTheirWay'
    BY <1>1, <1>4, <2>2, <2>3 DEF FillsOnTheirWay
  <2>5. ReplaysClose'
    BY <1>1, <1>4 DEF ReplaysClose
  <2>6. ~("fills" \in everAcked /\ ~owed)
    BY <1>1, <1>4 DEF GapsClose, FillsFlow
  <2>7. GapsClose'
    BY <1>1, <2>2, <2>3, <2>6 DEF GapsClose
  <2> QED BY <2>4, <2>5, <2>7
<1> QED BY <1>3, <1>4


\* The account trades.
LEMMA FillsExecuted ==
    ASSUME FeedTypes, FillsFlow, VenueFills PROVE FillsFlow'
<1>1. /\ "fills" \in wires /\ executed' = executed + 1 /\ executed \in Nat
      /\ UNCHANGED <<wires, replays, connected, served, everAcked, seenFills, delivered,
                     owed, covered, since>>
      /\ Sends("fills", <<FillsFrame(FALSE, <<executed + 1>>)>>)
  <2>1. UNCHANGED <<wires, replays, connected, served, everAcked, seenFills, delivered,
                    owed, covered, since>>
    BY DEF VenueFills, storeVars, subscriberVars
  <2>2. executed \in Nat
    BY FeedAssumption DEF FeedTypes
  <2> QED BY <2>1, <2>2 DEF VenueFills
<1>2. FillsOnTheirWay /\ ReplaysClose /\ GapsClose /\ Kept(seenFills, delivered, executed)
  BY <1>1 DEF FillsFlow
<1>3. \A j \in DOMAIN delivered : delivered[j] \in Nat /\ delivered[j] <= executed
  BY <1>1, <1>2 DEF Kept
<1>4. Kept(seenFills, delivered, executed)'
  <2>1. \A j \in DOMAIN delivered : delivered[j] <= executed + 1
    BY <1>1, <1>3
  <2>2. executed + 1 \in Nat
    BY <1>1
  <2>3. Kept(seenFills, delivered, executed + 1)
    BY <1>1, <1>2, <2>1, <2>2, KeptBounded
  <2> QED BY <1>1, <2>3
<1>5. \A n : Missed(n)' <=> Missed(n)
  BY <1>1 DEF Missed
<1>6. CASE "fills" \notin served
  <2>1. frames = <<>> /\ frames' = <<>>
    BY <1>1, <1>6, OneWire DEF Sends
  <2>2. FillsOnTheirWay'
    BY <2>1, EmptySeq DEF FillsOnTheirWay
  <2>3. ReplaysClose'
    BY <1>1, <1>2, <1>5, <1>6 DEF ReplaysClose
  <2>4. GapsClose'
    BY <1>1, <1>2, <1>6 DEF GapsClose
  <2> QED BY <1>4, <2>2, <2>3, <2>4 DEF FillsFlow
<1>7. CASE "fills" \in served
  <2> DEFINE f == FillsFrame(FALSE, <<executed + 1>>)
             L == Len(frames)
  <2>1. f \in FeedFrames /\ IsLive(f) /\ ~IsAck(f) /\ ~IsReplay(f) /\ f.fills = <<executed + 1>>
    <3>1. <<executed + 1>> \in Seq(Nat)
      BY <1>1
    <3> QED BY <3>1, FramesSent DEF FillsFrame, IsLive, IsAck, IsReplay
  <2>2. frames' = frames \o <<f>> /\ frames \in Seq(FeedFrames)
    BY <1>1, <1>7 DEF Sends, FeedTypes
  <2> HIDE DEF f
  <2>3. /\ L \in Nat /\ DOMAIN frames = 1..L /\ Len(frames') = L + 1 /\ DOMAIN frames' = 1..(L + 1)
        /\ frames'[L + 1] = f /\ \A i \in 1..L : frames'[i] = frames[i]
    BY <2>1, <2>2, FramesAdded
  <2>4. executed' - Len(frames') = executed - L
    BY <1>1, <2>3
  <2>5. \A i \in 1..(L + 1) : Due(i)' = executed - (L - i)
    <3> TAKE i \in 1..(L + 1)
    <3>1. i \in Nat
      BY <2>3
    <3>2. Due(i)' = (executed + 1) - ((L + 1) - i)
      BY <1>1, <2>3 DEF Due
    <3> QED BY <1>1, <2>3, <3>1, <3>2
  <2>6. \A i \in 1..L : Due(i)' = Due(i)
    <3>1. \A i \in 1..L : i \in 1..(L + 1)
      BY <2>3
    <3> QED BY <2>5, <3>1 DEF Due
  <2>7. \A i \in 1..(L + 1) : i = L + 1 => Due(i)' = executed + 1
    BY <1>1, <2>3, <2>5
  <2> HIDE DEF L
  <2>8. FillsOnTheirWay'
    <3> SUFFICES ASSUME NEW i \in 1..(L + 1)
          PROVE  /\ IsAck(frames'[i]) => i = 1
                 /\ IsLive(frames'[i]) =>
                      /\ frames'[i].fills = <<Due(i)'>> /\ Due(i)' \in 1..executed'
                      /\ \A j \in DOMAIN delivered : delivered[j] < Due(i)'
                 /\ IsReplay(frames'[i]) =>
                      /\ replays /\ (i = 1 \/ (i = 2 /\ IsAck(frames'[1])))
                      /\ Due(i)' \in 0..executed' /\ AreLast(frames'[i].fills, Due(i)')
                      /\ \A j \in DOMAIN delivered : delivered[j] <= Due(i)'
                 /\ IsAck(frames'[i]) /\ replays => 2 \in DOMAIN frames' /\ IsReplay(frames'[2])
      BY <1>1, <2>3 DEF FillsOnTheirWay
    <3>1. CASE i = L + 1
      <4>1. executed + 1 \in 1..(executed + 1)
        BY <1>1
      <4>2. \A j \in DOMAIN delivered : delivered[j] < executed + 1
        BY <1>1, <1>3
      <4> QED BY <1>1, <2>1, <2>3, <2>7, <3>1, <4>1, <4>2
    <3>2. CASE i \in 1..L
      <4>1. frames'[i] = frames[i] /\ i \in DOMAIN frames /\ Due(i)' = Due(i)
        BY <2>3, <2>6, <3>2
      <4>2. IsLive(frames[i]) =>
              /\ frames[i].fills = <<Due(i)>> /\ Due(i) \in 1..executed
              /\ \A j \in DOMAIN delivered : delivered[j] < Due(i)
        BY <1>2, <4>1 DEF FillsOnTheirWay
      <4>3. IsReplay(frames[i]) =>
              /\ replays /\ (i = 1 \/ (i = 2 /\ IsAck(frames[1])))
              /\ Due(i) \in 0..executed /\ AreLast(frames[i].fills, Due(i))
              /\ \A j \in DOMAIN delivered : delivered[j] <= Due(i)
        BY <1>2, <4>1 DEF FillsOnTheirWay
      <4>4. IsAck(frames[i]) => i = 1 /\ (replays => 2 \in DOMAIN frames /\ IsReplay(frames[2]))
        BY <1>2, <4>1 DEF FillsOnTheirWay
      <4>5. \A m : (m \in 1..executed => m \in 1..executed') /\ (m \in 0..executed => m \in 0..executed')
        BY <1>1
      <4>6. 2 \in DOMAIN frames => 2 \in DOMAIN frames' /\ frames'[2] = frames[2]
        BY <2>3
      <4>7. frames'[1] = frames[1]
        <5>1. 1 \in 1..L
          BY <2>3, <3>2
        <5> QED BY <2>3, <5>1
      <4> QED BY <4>1, <4>2, <4>3, <4>4, <4>5, <4>6, <4>7
    <3> QED BY <2>3, <3>1, <3>2
  <2>9. ReplayPending => ReplayPending'
    <3> SUFFICES ASSUME NEW i \in 1..L, IsReplay(frames[i]) PROVE ReplayPending'
      BY <2>3 DEF ReplayPending
    <3>1. i \in 1..(L + 1)
      BY <2>3
    <3> QED BY <2>3, <3>1 DEF ReplayPending
  <2>10. ReplaysClose'
    <3>1. replays => \A a, b \in DOMAIN delivered : \A n \in Nat :
                        delivered[a] < n /\ n < delivered[b] => ~Missed(n)'
      BY <1>2, <1>5 DEF ReplaysClose
    <3>2. replays /\ ~ReplayPending' => \A a \in DOMAIN delivered : \A n \in Nat :
                        delivered[a] < n /\ n <= executed - L => ~Missed(n)'
      BY <1>2, <1>5, <1>7, <2>9 DEF ReplaysClose, L
    <3> QED BY <1>1, <2>4, <3>1, <3>2 DEF ReplaysClose
  <2>11. GapsClose'
    <3>1. frames # <<>> => frames' # <<>> /\ frames'[1] = frames[1]
      <4> SUFFICES ASSUME frames # <<>> PROVE frames' # <<>> /\ frames'[1] = frames[1]
        OBVIOUS
      <4>1. 1 \in 1..L /\ 1 \in 1..(L + 1)
        BY <2>3, OneWire
      <4> QED BY <2>3, <4>1, EmptySeq
    <3>2. (\A i \in DOMAIN frames : ~IsAck(frames[i])) => \A i \in DOMAIN frames' : ~IsAck(frames'[i])
      <4>1. \A i \in 1..(L + 1) : i = L + 1 \/ i \in 1..L
        BY <2>3
      <4> QED BY <2>1, <2>3, <4>1
    <3>3. ~replays /\ (owed \/ "fills" \notin everAcked) => frames' # <<>> /\ IsAck(frames'[1])
      BY <1>2, <1>7, <3>1 DEF GapsClose
    <3>4. ~replays /\ connected /\ ~owed /\ "fills" \in everAcked =>
            /\ \A i \in DOMAIN frames' : ~IsAck(frames'[i])
            /\ \A n \in Nat : since < n /\ n <= executed - L => ~Missed(n)'
      BY <1>2, <1>5, <3>2 DEF GapsClose, L
    <3> QED BY <1>1, <1>7, <2>4, <3>3, <3>4 DEF GapsClose
  <2> QED BY <1>4, <2>8, <2>10, <2>11 DEF FillsFlow
<1> QED BY <1>6, <1>7

\* A subscription to the fills is acknowledged.
LEMMA FillsAcked ==
    ASSUME FeedTypes, FillsFlow, "fills" \in wires, OnAck PROVE FillsFlow'
<1>1. /\ frames # <<>> /\ IsAck(frames[1]) /\ frames[1].wire = "fills" /\ frames' = Tail(frames)
      /\ executed \in Nat /\ covered <= executed /\ covered \in Nat /\ connected
  <2>1. frames # <<>> /\ IsAck(frames[1]) /\ frames' = Tail(frames)
    BY DEF OnAck, Received, IsAck
  <2>2. connected /\ frames[1].wire = "fills"
    BY <2>1, OneWire
  <2>3. executed \in Nat /\ covered <= executed /\ covered \in Nat
    BY FeedAssumption DEF FeedTypes
  <2> QED BY <2>1, <2>2, <2>3
<1>2. /\ UNCHANGED <<wires, replays, executed, connected, served, seenFills, delivered>>
      /\ "fills" \in everAcked'
      /\ since' = IF "fills" \notin everAcked THEN executed ELSE since
      /\ covered' = (IF owed THEN executed ELSE covered) /\ ~owed'
  <2>1. UNCHANGED <<wires, replays, executed, connected, served, seenFills, delivered>>
    BY DEF OnAck, Received, venueVars, storeVars
  <2>2. Received("fills")
    BY <1>1 DEF OnAck
  <2>3. covered' = IF owed /\ frames[1].wire = "fills" THEN executed ELSE covered
    BY DEF OnAck
  <2>4. owed' = (owed /\ ~(owed /\ frames[1].wire = "fills"))
    BY DEF OnAck
  <2> QED BY <1>1, <2>1, <2>2, <2>3, <2>4 DEF Received, MarkAcked
<1>3. FillsOnTheirWay /\ ReplaysClose /\ GapsClose /\ Kept(seenFills, delivered, executed)
  BY DEF FillsFlow
<1>4. Kept(seenFills, delivered, executed)'
  BY <1>2, <1>3
<1>5. /\ FillsOnTheirWay' /\ Len(frames') = Len(frames) - 1
      /\ \A i \in DOMAIN frames' : frames'[i] = frames[i + 1] /\ ~IsAck(frames'[i])
  <2>1. \A j \in DOMAIN delivered' : delivered'[j] \in Nat
    BY <1>2, <1>3 DEF Kept
  <2> QED BY <1>1, <1>2, <1>3, <2>1, WayTaken
<1>6. \A n \in Nat : Missed(n)' => Missed(n)
  BY <1>1, <1>2 DEF Missed
<1>7. ReplaysClose'
  <2>1. replays => ReplayPending'
    <3> SUFFICES ASSUME replays PROVE ReplayPending'
      OBVIOUS
    <3>1. 1 \in DOMAIN frames
      BY <1>1, OneWire
    <3>2. 2 \in DOMAIN frames /\ IsReplay(frames[2])
      BY <1>1, <1>3, <3>1 DEF FillsOnTheirWay
    <3>3. 1 \in DOMAIN frames'
      <4>1. frames \in Seq(FeedFrames)
        BY DEF FeedTypes
      <4> QED BY <1>1, <3>2, <4>1, FramesTaken
    <3>4. frames'[1] = frames[1 + 1] /\ 1 + 1 = 2
      BY <1>5, <3>3
    <3> QED BY <3>2, <3>3, <3>4 DEF ReplayPending
  <2>2. replays => \A a, b \in DOMAIN delivered : \A n \in Nat :
                      delivered[a] < n /\ n < delivered[b] => ~Missed(n)'
    BY <1>3, <1>6 DEF ReplaysClose
  <2> QED BY <1>2, <2>1, <2>2 DEF ReplaysClose
<1>8. GapsClose'
  <2> SUFFICES ASSUME ~replays,
                      NEW n \in Nat, since' < n, n <= executed - Len(frames')
               PROVE  ~Missed(n)'
    <3>1. ~replays => "fills" \in served
      <4>1. 1 \in DOMAIN frames
        BY <1>1, OneWire
      <4> QED BY <1>1, <4>1 DEF FeedTypes
    <3> QED BY <1>2, <1>5, <3>1 DEF GapsClose
  <2>1. Len(frames') \in Nat
    BY <1>1, FramesTaken DEF FeedTypes
  <2>2. n <= executed
    BY <1>1, <2>1
  <2>3. CASE owed
    BY <1>1, <1>2, <2>2, <2>3 DEF Missed
  <2>4. CASE "fills" \notin everAcked
    BY <1>1, <1>2, <2>2, <2>4
  <2>5. CASE ~owed /\ "fills" \in everAcked
    <3>1. 1 \in DOMAIN frames
      BY <1>1, OneWire
    <3> QED BY <1>1, <1>3, <2>5, <3>1 DEF GapsClose
  <2> QED BY <2>3, <2>4, <2>5
<1> QED BY <1>4, <1>5, <1>7, <1>8 DEF FillsFlow

\* A set of numbers that is not empty has its minimum.
LEMMA MinIn ==
    ASSUME NEW fs \in Seq(Nat), fs # <<>> PROVE Contains(fs, Min(ToSet(fs)))
<1>1. Len(fs) \in Nat /\ DOMAIN fs = 1..Len(fs) /\ 1 \in 1..Len(fs)
  BY EmptySeq
<1>2. \A i \in 1..Len(fs) : fs[i] \in Nat
  BY <1>1
<1>3. ToSet(fs) = {fs[i] : i \in DOMAIN fs}
  BY DEF ToSet
<1>4. ToSet(fs) \subseteq Nat /\ ToSet(fs) # {}
  BY <1>1, <1>2, <1>3
<1>5. \E x \in ToSet(fs) : \A y \in ToSet(fs) : x <= y
  BY <1>4, LeastOf
<1>6. Min(ToSet(fs)) \in ToSet(fs)
  BY <1>5 DEF Min
<1> QED BY <1>1, <1>3, <1>6 DEF Contains

\* Fills arrive.
LEMMA FillsReceived ==
    ASSUME FeedTypes, FillsFlow, "fills" \in wires, OnFills PROVE FillsFlow'
<1> DEFINE f == frames[1]
           E == Due(1)
<1>1. /\ frames # <<>> /\ f.what = "fills" /\ frames' = Tail(frames) /\ 1 \in DOMAIN frames
      /\ f.fills \in Seq(Nat) /\ f.snapshot \in BOOLEAN /\ "fills" \in served /\ connected
      /\ executed \in Nat /\ covered <= executed /\ covered \in Nat
      /\ Len(frames) \in Nat /\ Len(frames) >= 1 /\ DOMAIN frames = 1..Len(frames)
      /\ Replay \in Nat /\ Replay >= 1
  <2>1. frames # <<>> /\ f.what = "fills" /\ frames' = Tail(frames)
    BY DEF OnFills, Received
  <2>2. connected /\ 1 \in DOMAIN frames /\ f \in FeedFrames
    BY <2>1, OneWire
  <2>3. f.wire = "fills" /\ f.fills \in Seq(Nat) /\ f.snapshot \in BOOLEAN
    BY <2>1, <2>2, FrameKinds
  <2>4. "fills" \in served
    BY <2>2, <2>3 DEF FeedTypes
  <2>5. executed \in Nat /\ covered <= executed /\ covered \in Nat /\ Replay \in Nat /\ Replay >= 1
    BY FeedAssumption DEF FeedTypes
  <2>6. Len(frames) \in Nat /\ Len(frames) >= 1 /\ DOMAIN frames = 1..Len(frames)
    BY <2>1, FramesTaken DEF FeedTypes
  <2> QED BY <2>1, <2>2, <2>3, <2>4, <2>5, <2>6
<1>2. /\ UNCHANGED <<wires, replays, executed, connected, served, owed>>
      /\ "fills" \in everAcked'
      /\ since' = IF "fills" \notin everAcked THEN executed ELSE since
      /\ covered' = IF f.snapshot /\ SnapshotGap(f.fills, seenFills) THEN executed ELSE covered
      /\ seenFills' = Unseen(f.fills).seen
      /\ delivered' = delivered \o Unseen(f.fills).fresh
  BY DEF OnFills, Received, MarkAcked, venueVars
<1>3. FillsOnTheirWay /\ ReplaysClose /\ GapsClose /\ Kept(seenFills, delivered, executed)
  BY DEF FillsFlow
<1>4. IsLive(f) \/ IsReplay(f)
  BY <1>1 DEF IsLive, IsReplay
<1>5. E = executed - Len(frames) + 1
  BY <1>1 DEF Due
<1>6. /\ IsLive(f) => /\ f.fills = <<E>> /\ E \in 1..executed
                      /\ \A j \in DOMAIN delivered : delivered[j] < E
      /\ IsReplay(f) => /\ replays /\ E \in 0..executed /\ AreLast(f.fills, E)
                        /\ \A j \in DOMAIN delivered : delivered[j] <= E
  BY <1>1, <1>3 DEF FillsOnTheirWay
<1> HIDE DEF E
<1>7. /\ \A m : Contains(f.fills, m) => m \in 1..E /\ E - Replay < m
      /\ IsReplay(f) => \A m \in 1..E : E - Replay < m => Contains(f.fills, m)
      /\ IsLive(f) => Contains(f.fills, E)
  <2>1. CASE IsLive(f)
    <3>1. \A m : Contains(f.fills, m) <=> m = E
      <4>1. Contains(<<E>>, E) /\ \A m : Contains(<<E>>, m) => m = E
        BY DEF Contains
      <4>2. f.fills = <<E>>
        BY <1>6, <2>1
      <4> QED BY <4>1, <4>2, Zenon
    <3>2. E \in 1..E /\ E - Replay < E
      BY <1>1, <1>6, <2>1
    <3> QED BY <2>1, <3>1, <3>2 DEF IsLive, IsReplay
  <2>2. CASE IsReplay(f)
    BY <1>6, <2>2 DEF AreLast, IsLive, IsReplay
  <2> QED BY <1>4, <2>1, <2>2
<1>8. E \in Nat /\ E <= executed /\ \A j \in DOMAIN delivered : delivered[j] <= E
  <2>1. \A j \in DOMAIN delivered : delivered[j] \in Nat
    BY <1>3 DEF Kept
  <2> QED BY <1>1, <1>4, <1>6, <2>1
<1>9. Kept(seenFills, delivered, E)
  BY <1>1, <1>3, <1>8, KeptBounded
<1>10. /\ Kept(seenFills', delivered', E)
       /\ \A m : Contains(delivered', m) <=> Contains(delivered, m) \/ Contains(f.fills, m)
  <2>1. f.fills \in Seq(Nat)
    BY <1>1
  <2>2. PICK fs : fs = f.fills
    OBVIOUS
  <2> HIDE DEF f
  <2>3. /\ Kept(Unseen(fs).seen, delivered \o Unseen(fs).fresh, E)
        /\ \A m : Contains(delivered \o Unseen(fs).fresh, m)
                    <=> Contains(delivered, m) \/ Contains(fs, m)
    BY <1>7, <1>8, <1>9, <2>1, <2>2, LoopKeeps
  <2> QED BY <1>2, <2>2, <2>3
<1>11. \A j \in DOMAIN delivered' : delivered'[j] \in 1..E /\ delivered'[j] \in Nat /\ delivered'[j] <= E
  BY <1>8, <1>10 DEF Kept
<1>12. Kept(seenFills, delivered, executed)'
  <2>1. \A j \in DOMAIN delivered' : delivered'[j] <= executed
    BY <1>1, <1>8, <1>11
  <2>2. Kept(seenFills', delivered', executed)
    BY <1>1, <1>8, <1>10, <2>1, KeptBounded
  <2> QED BY <1>2, <2>2
<1>13. /\ FillsOnTheirWay' /\ Len(frames') = Len(frames) - 1
       /\ \A i \in DOMAIN frames' : frames'[i] = frames[i + 1] /\ ~IsAck(frames'[i])
                                    /\ IsLive(frames'[i])
  <2>1. \A j \in DOMAIN delivered' : delivered'[j] <= Due(1)
    BY <1>11 DEF E
  <2> QED BY <1>1, <1>2, <1>3, <1>11, <2>1, WayTaken
<1>14. executed' - Len(frames') = E
  BY <1>1, <1>2, <1>5, <1>13
<1>15. \A n \in Nat : Missed(n)' => Missed(n) /\ ~Contains(f.fills, n)
  BY <1>1, <1>2, <1>10 DEF Missed
<1>16. \A i \in DOMAIN frames : i # 1 => IsLive(frames[i])
  <2> SUFFICES ASSUME NEW i \in DOMAIN frames, i # 1 PROVE IsLive(frames[i])
    OBVIOUS
  <2>1. DOMAIN frames' = 1..(Len(frames) - 1)
    BY <1>1, FramesTaken DEF FeedTypes
  <2>2. i - 1 \in DOMAIN frames' /\ (i - 1) + 1 = i
    BY <1>1, <2>1
  <2> QED BY <1>13, <2>2
<1>17. ASSUME replays, NEW a \in DOMAIN delivered', NEW n \in Nat, delivered'[a] < n, n <= E,
              Missed(n)'
       PROVE  FALSE
  <2> DEFINE x == delivered'[a]
  <2>1. x \in 1..E /\ x < n /\ n \in 1..E
    BY <1>8, <1>11, <1>17
  <2>2. Contains(delivered', x)
    <3>1. delivered' \in Seq(Nat)
      BY <1>10 DEF Kept
    <3> QED BY <3>1 DEF Contains
  <2>3. Contains(delivered, x) \/ Contains(f.fills, x)
    BY <1>10, <2>2
  <2>4. Missed(n) /\ ~Contains(f.fills, n)
    BY <1>15, <1>17
  <2> HIDE DEF x
  <2>5. CASE IsLive(f)
    <3>1. n # E /\ n <= executed - Len(frames)
      <4>1. n # E
        BY <1>7, <2>4, <2>5
      <4>2. Len(frames) \in Nat /\ executed \in Nat /\ E \in Nat
        BY <1>1, <1>8
      <4> QED BY <1>5, <1>17, <4>1, <4>2
    <3>2. x # E
      BY <1>8, <2>1
    <3>3. ~Contains(f.fills, x)
      BY <1>6, <2>5, <3>2 DEF Contains
    <3>4. Contains(delivered, x)
      BY <2>3, <3>3
    <3>5. PICK j \in DOMAIN delivered : delivered[j] = x
      BY <1>3, <3>4 DEF Contains, Kept
    <3>6. ~ReplayPending
      <4> SUFFICES ASSUME NEW i \in DOMAIN frames, IsReplay(frames[i]) PROVE FALSE
        BY DEF ReplayPending
      <4> QED BY <1>16, <2>5 DEF IsLive, IsReplay
    <3> QED BY <1>1, <1>3, <1>17, <2>1, <2>4, <3>1, <3>5, <3>6 DEF ReplaysClose
  <2>6. CASE IsReplay(f)
    <3>1. ~SnapshotGap(f.fills, seenFills)
      <4> SUFFICES ASSUME SnapshotGap(f.fills, seenFills) PROVE FALSE
        OBVIOUS
      <4>1. covered' = executed
        BY <1>2, <2>6 DEF IsReplay
      <4>2. covered' < n
        BY <1>17 DEF Missed
      <4> QED BY <1>1, <1>8, <2>1, <4>1, <4>2
    <3>2. n <= E - Replay
      BY <1>1, <1>7, <1>8, <2>1, <2>4, <2>6
    <3>3. ~Contains(f.fills, x)
      <4>1. ~(E - Replay < x)
        BY <1>1, <1>8, <2>1, <3>2
      <4> QED BY <1>7, <4>1
    <3>4. Contains(delivered, x)
      BY <2>3, <3>3
    <3>5. PICK j \in DOMAIN delivered : delivered[j] = x
      BY <1>3, <3>4 DEF Contains, Kept
    <3>6. seenFills # <<>>
      BY <1>1, <1>3, <3>4, WindowHolds
    <3>7. f.fills # <<>>
      <4>1. E \in 1..E /\ E - Replay < E
        BY <1>1, <1>8, <2>1
      <4>2. Contains(f.fills, E)
        BY <1>7, <2>6, <4>1
      <4> QED BY <4>2 DEF Contains
    <3> DEFINE y == Min(ToSet(f.fills))
    <3>8. Contains(seenFills, y)
      BY <3>1, <3>6, <3>7 DEF SnapshotGap
    <3>9. Contains(f.fills, y)
      <4>1. f.fills \in Seq(Nat)
        BY <1>1
      <4> HIDE DEF f
      <4> QED BY <3>7, <4>1, MinIn
    <3> HIDE DEF y
    <3>10. Contains(delivered, y)
      BY <1>1, <1>3, <3>8, WindowHolds
    <3>11. PICK k \in DOMAIN delivered : delivered[k] = y
      BY <1>3, <3>10 DEF Contains, Kept
    <3>12. n < y
      <4>1. y \in 1..E /\ E - Replay < y
        BY <1>7, <3>9
      <4> QED BY <1>1, <1>8, <3>2, <4>1
    <3> QED BY <1>3, <1>17, <2>1, <2>4, <3>5, <3>11, <3>12 DEF ReplaysClose
  <2> QED BY <1>4, <2>5, <2>6
<1>18. ReplaysClose'
  <2>1. replays => \A a, b \in DOMAIN delivered' : \A n \in Nat :
                      delivered'[a] < n /\ n < delivered'[b] => ~Missed(n)'
    <3> SUFFICES ASSUME replays, NEW a \in DOMAIN delivered', NEW b \in DOMAIN delivered',
                        NEW n \in Nat, delivered'[a] < n, n < delivered'[b]
                 PROVE  ~Missed(n)'
      OBVIOUS
    <3>1. n <= E
      BY <1>8, <1>11
    <3> QED BY <1>17, <3>1
  <2>2. replays => \A a \in DOMAIN delivered' : \A n \in Nat :
                      delivered'[a] < n /\ n <= E => ~Missed(n)'
    BY <1>17
  <2> QED BY <1>2, <1>14, <2>1, <2>2 DEF ReplaysClose
<1>19. GapsClose'
  <2> SUFFICES ASSUME ~replays PROVE GapsClose'
    BY <1>2 DEF GapsClose
  <2>1. ~IsAck(f)
    BY <1>1 DEF IsAck
  <2>2. ~owed /\ "fills" \in everAcked
    BY <1>1, <1>3, <2>1 DEF GapsClose
  <2>3. since' = since
    BY <1>2, <2>2
  <2>4. IsLive(f)
    BY <1>4, <1>6
  <2>5. ASSUME NEW n \in Nat, since < n, n <= E PROVE ~Missed(n)'
    <3>1. CASE n = E
      BY <1>7, <1>15, <2>4, <3>1
    <3>2. CASE n # E
      <4>1. n <= executed - Len(frames)
        BY <1>1, <1>5, <1>8, <2>5, <3>2
      <4>2. ~Missed(n)
        BY <1>1, <1>3, <2>2, <2>5, <4>1 DEF GapsClose
      <4> QED BY <1>15, <4>2
    <3> QED BY <3>1, <3>2
  <2> QED BY <1>1, <1>2, <1>13, <1>14, <2>2, <2>3, <2>5 DEF GapsClose
<1> QED BY <1>12, <1>13, <1>18, <1>19 DEF FillsFlow

\* Every step keeps the flow of fills.
LEMMA FillsStep ==
    ASSUME FeedTypes, FillsFlow, [FeedNext]_feedVars PROVE FillsFlow'
<1>1. wires' = wires /\ replays' = replays
  BY DEF FeedNext, VenueServes, VenueFills, VenueOpens, VenueCloses, OnOpen, Disconnects, OnAck,
     OnFills, OnOrders, Received, feedVars, venueVars
<1>2. ASSUME UNCHANGED <<seenFills, delivered, executed>> PROVE Kept(seenFills, delivered, executed)'
  BY <1>2 DEF FillsFlow
<1>3. ASSUME NEW w \in wires, VenueServes(w) PROVE FillsFlow'
  <2>1. Kept(seenFills, delivered, executed)'
    BY <1>2, <1>3 DEF VenueServes, venueVars, storeVars, subscriberVars
  <2>2. "fills" \in wires => FillsOnTheirWay' /\ ReplaysClose' /\ GapsClose'
    BY <1>3, FillsServed
  <2> QED BY <1>1, <2>1, <2>2 DEF FillsFlow
<1>4. CASE VenueFills
  BY <1>4, FillsExecuted
<1>5. ASSUME NEW o \in Orders, VenueOpens(o) \/ VenueCloses(o) PROVE FillsFlow'
  <2>1. ScopeOf[o] \in wires
    BY <1>5 DEF VenueOpens, VenueCloses, FeedTypes
  <2>2. "fills" \notin wires
    BY <2>1, OneWire
  <2>3. Kept(seenFills, delivered, executed)'
    BY <1>2, <1>5 DEF VenueOpens, VenueCloses, storeVars, subscriberVars
  <2> QED BY <1>1, <2>2, <2>3 DEF FillsFlow
<1>6. CASE OnOpen
  <2>1. /\ frames = <<>> /\ frames' = <<>> /\ served' = {} /\ connected'
        /\ UNCHANGED <<executed, seenFills, delivered, covered, everAcked, since>>
        /\ owed' = (owed \/ (~replays /\ "fills" \in everAcked))
    <3>1. frames = <<>> /\ served = {}
      BY <1>6, OneWire DEF OnOpen, FeedTypes
    <3> QED BY <1>6, <3>1 DEF OnOpen, venueVars
  <2>2. Kept(seenFills, delivered, executed)'
    BY <1>2, <2>1
  <2>3. FillsOnTheirWay'
    BY <2>1, EmptySeq DEF FillsOnTheirWay
  <2>4. \A n : Missed(n)' <=> Missed(n)
    BY <2>1 DEF Missed
  <2>5. "fills" \in wires => ReplaysClose'
    BY <1>1, <2>1, <2>4 DEF FillsFlow, ReplaysClose
  <2>6. GapsClose'
    BY <1>1, <2>1 DEF GapsClose
  <2> QED BY <1>1, <2>2, <2>3, <2>5, <2>6 DEF FillsFlow
<1>7. CASE Disconnects
  <2>1. /\ frames' = <<>> /\ served' = {} /\ ~connected'
        /\ UNCHANGED <<executed, seenFills, delivered, covered>>
    BY <1>7 DEF Disconnects, venueVars, storeVars, subscriberVars
  <2>2. Kept(seenFills, delivered, executed)'
    BY <1>2, <2>1
  <2>3. FillsOnTheirWay'
    BY <2>1, EmptySeq DEF FillsOnTheirWay
  <2>4. \A n : Missed(n)' <=> Missed(n)
    BY <2>1 DEF Missed
  <2>5. "fills" \in wires => ReplaysClose'
    BY <1>1, <2>1, <2>4 DEF FillsFlow, ReplaysClose
  <2>6. GapsClose'
    BY <1>1, <2>1 DEF GapsClose
  <2> QED BY <1>1, <2>2, <2>3, <2>5, <2>6 DEF FillsFlow
<1>8. CASE OnAck
  <2>1. CASE "fills" \in wires
    BY <1>8, <2>1, FillsAcked
  <2>2. CASE "fills" \notin wires
    <3>1. Kept(seenFills, delivered, executed)'
      BY <1>2, <1>8 DEF OnAck, Received, venueVars, storeVars
    <3> QED BY <1>1, <2>2, <3>1 DEF FillsFlow
  <2> QED BY <2>1, <2>2
<1>9. CASE OnFills
  <2>1. frames # <<>> /\ frames[1].what = "fills"
    BY <1>9 DEF OnFills
  <2>2. frames[1].wire \in wires /\ frames[1] \in FeedFrames
    BY <2>1, OneWire
  <2>3. "fills" \in wires
    BY <2>1, <2>2, FrameKinds
  <2> QED BY <1>9, <2>3, FillsReceived
<1>10. CASE OnOrders
  <2>1. frames # <<>> /\ frames[1].what = "orders"
    BY <1>10 DEF OnOrders
  <2>2. frames[1].wire \in wires /\ frames[1] \in FeedFrames
    BY <2>1, OneWire
  <2>3. frames[1].wire \in Scopes /\ "fills" \notin Scopes
    BY <2>1, <2>2, FrameKinds, FeedAssumption
  <2>4. "fills" \notin wires
    BY <2>2, <2>3, OneWire
  <2>5. Kept(seenFills, delivered, executed)'
    BY <1>2, <1>10 DEF OnOrders, Received, venueVars
  <2> QED BY <1>1, <2>4, <2>5 DEF FillsFlow
<1>11. CASE UNCHANGED feedVars
  BY <1>11 DEF FillsFlow, feedVars, venueVars, wireVars, storeVars, subscriberVars, Kept,
     FillsOnTheirWay, ReplaysClose, GapsClose, Due, Missed, ReplayPending
<1> QED BY <1>3, <1>4, <1>5, <1>6, <1>7, <1>8, <1>9, <1>10, <1>11 DEF FeedNext

-----------------------------------------------------------------------------
(* Orders *)

\* On the wire of the fills there are no orders.
LEMMA NoOrders ==
    ASSUME FeedTypes', "fills" \in wires', OrdersTypes' PROVE OrdersFlow'
<1>1. /\ wires' = {"fills"} /\ "fills" \notin Scopes /\ served' \subseteq {"fills"}
      /\ everAcked' \subseteq {"fills"}
  BY FeedAssumption DEF FeedTypes
<1>2. DOMAIN orders' = {}
  BY <1>1 DEF OrdersTypes
<1>3. \A o \in Orders : ScopeOf[o] \in Scopes
  BY FeedAssumption
<1>4. \A o \in Orders : \A i \in DOMAIN frames' : ~Mentions(frames'[i], o)
  BY <1>1, <1>3 DEF FeedTypes, Mentions
<1>5. LastMention' /\ NoMention'
  BY <1>1, <1>3, <1>4 DEF LastMention, NoMention
<1>6. ScopesBegin'
  BY <1>1, <1>2 DEF ScopesBegin
<1> QED BY <1>5, <1>6 DEF OrdersFlow

\* The venue serves the orders of a scope.
LEMMA OrdersServed ==
    ASSUME FeedTypes, OrdersFlow, NEW w \in wires, VenueServes(w), "fills" \notin wires
    PROVE  OrdersFlow'
<1> DEFINE L == Len(frames)
           a == AckFrame(w)
           rows == {o \in resting : ScopeOf[o] = w}
           g == OrdersFrame(w, TRUE, rows, {})
<1>1. /\ w \in Scopes /\ w \notin served /\ served' = served \cup {w} /\ connected /\ w # "fills"
      /\ UNCHANGED <<wires, snapshots, resting, connected, everAcked, orders, ordersComplete, told>>
      /\ frames' = IF snapshots THEN frames \o <<a, g>> ELSE Append(frames, a)
      /\ frames \in Seq(FeedFrames) /\ \A i \in DOMAIN frames : frames[i].wire \in served
  <2>1. w \in Scopes /\ w # "fills"
    BY OneWire, FeedAssumption
  <2>2. UNCHANGED <<wires, snapshots, resting, connected, everAcked, orders, ordersComplete, told>>
    BY DEF VenueServes, venueVars, storeVars
  <2> QED BY <2>1, <2>2 DEF VenueServes, FeedTypes
<1>2. a \in FeedFrames /\ g \in FeedFrames
  <2>1. rows \in SUBSET Orders
    BY DEF FeedTypes
  <2> HIDE DEF rows
  <2> QED BY <1>1, <2>1, FramesSent
<1>3. /\ a.what = "ack" /\ g.what = "orders" /\ g.wire = w /\ g.snapshot = TRUE /\ g.rows = rows
      /\ g.remove = {}
  BY DEF AckFrame, OrdersFrame
<1> HIDE DEF a, g
<1>4. /\ L \in Nat /\ DOMAIN frames = 1..L /\ \A i \in 1..L : frames'[i] = frames[i]
      /\ frames'[L + 1] = a
      /\ snapshots => DOMAIN frames' = 1..(L + 2) /\ frames'[L + 2] = g
      /\ ~snapshots => DOMAIN frames' = 1..(L + 1)
  BY <1>1, <1>2, FramesServed, FramesAdded
<1>5. \A i \in DOMAIN frames' : \/ i \in DOMAIN frames /\ frames'[i] = frames[i]
                                \/ frames'[i] = a
                                \/ snapshots /\ i = L + 2 /\ frames'[i] = g
  <2>1. \A i \in 1..(L + 2) : i = L + 1 \/ i = L + 2 \/ i \in 1..L
    BY <1>4
  <2>2. \A i \in 1..(L + 1) : i = L + 1 \/ i \in 1..L
    BY <1>4
  <2>3. CASE snapshots
    BY <1>4, <2>1, <2>3
  <2>4. CASE ~snapshots
    BY <1>4, <2>2, <2>4
  <2> QED BY <2>3, <2>4
<1>6. /\ \A i \in DOMAIN frames : i \in DOMAIN frames'
      /\ snapshots => L + 2 \in DOMAIN frames' /\ \A i \in DOMAIN frames : i < L + 2
  <2>1. \A i \in 1..L : i \in 1..(L + 1) /\ i \in 1..(L + 2) /\ i < L + 2
    BY <1>4
  <2>2. L + 2 \in 1..(L + 2)
    BY <1>4
  <2> QED BY <1>4, <2>1, <2>2
<1> HIDE DEF L
<1>7. OrdersTypes'
  <2>1. \A i \in DOMAIN frames' : frames'[i].what = "orders" =>
          /\ frames'[i].rows \subseteq {o \in Orders : ScopeOf[o] = frames'[i].wire}
          /\ frames'[i].snapshot => snapshots
    BY <1>3, <1>5 DEF OrdersFlow, OrdersTypes, FeedTypes
  <2> QED BY <1>1, <2>1 DEF OrdersFlow, OrdersTypes
<1>8. \A o \in Orders : ~Mentions(a, o) /\ (Mentions(g, o) <=> ScopeOf[o] = w)
  BY <1>3 DEF Mentions
<1>9. LastMention'
  <2> SUFFICES ASSUME NEW o \in Orders, NEW i \in DOMAIN frames', Mentions(frames'[i], o),
                      \A j \in DOMAIN frames' : i < j => ~Mentions(frames'[j], o)
               PROVE  o \in frames'[i].rows <=> o \in resting
    BY <1>1 DEF LastMention
  <2>1. CASE i \in DOMAIN frames /\ frames'[i] = frames[i]
    <3>1. \A j \in DOMAIN frames : i < j => ~Mentions(frames[j], o)
      BY <1>4, <1>6
    <3> QED BY <2>1, <3>1 DEF OrdersFlow, LastMention
  <2>2. CASE snapshots /\ i = L + 2 /\ frames'[i] = g
    BY <1>3, <1>8, <2>2
  <2> QED BY <1>5, <1>8, <2>1, <2>2
<1>10. NoMention'
  <2> SUFFICES ASSUME NEW o \in Orders, ScopeOf[o] \in served',
                      \A i \in DOMAIN frames' : ~Mentions(frames'[i], o)
               PROVE  /\ Known(o) => o \in resting
                      /\ snapshots /\ o \in resting => Known(o)
    BY <1>1 DEF NoMention, Known
  <2>1. CASE ScopeOf[o] = w
    <3>1. ~snapshots
      BY <1>4, <1>6, <1>8, <2>1
    <3>2. w \notin DOMAIN orders
      BY <1>1, <3>1 DEF OrdersFlow, ScopesBegin
    <3> QED BY <2>1, <3>1, <3>2 DEF Known
  <2>2. CASE ScopeOf[o] # w
    <3>1. \A i \in DOMAIN frames : ~Mentions(frames[i], o)
      BY <1>4, <1>6
    <3> QED BY <1>1, <2>2, <3>1 DEF OrdersFlow, NoMention
  <2> QED BY <2>1, <2>2
<1>11. ScopesBegin'
  <2>1. ASSUME NEW s \in Scopes, ~snapshots, s \notin served' PROVE s \notin DOMAIN orders
    BY <1>1, <2>1 DEF OrdersFlow, ScopesBegin
  <2>2. ASSUME NEW s \in Scopes, snapshots, s \in served', Snapshots(s)' = {}
        PROVE  s \in DOMAIN orders /\ s \in ordersComplete
    <3>1. s # w
      <4> SUFFICES ASSUME s = w PROVE FALSE
        OBVIOUS
      <4>1. \E i \in DOMAIN frames' : frames'[i] = g
        BY <1>4, <1>6, <2>2
      <4>2. PICK i \in DOMAIN frames' : frames'[i] = g
        BY <4>1
      <4>3. i \in Snapshots(s)'
        BY <1>3, <4>2 DEF Snapshots
      <4> QED BY <2>2, <4>3
    <3>2. Snapshots(s) = {}
      BY <1>4, <1>6, <2>2 DEF Snapshots
    <3> QED BY <1>1, <2>2, <3>1, <3>2 DEF OrdersFlow, ScopesBegin
  <2> QED BY <1>1, <2>1, <2>2 DEF ScopesBegin
<1> QED BY <1>7, <1>9, <1>10, <1>11 DEF OrdersFlow

\* An order opens or closes.
LEMMA OrdersMove ==
    ASSUME FeedTypes, OrdersFlow, NEW o \in Orders, VenueOpens(o) \/ VenueCloses(o)
    PROVE  OrdersFlow'
<1>1. PICK rows \in SUBSET Orders, remove \in SUBSET Orders :
        /\ Sends(ScopeOf[o], <<OrdersFrame(ScopeOf[o], FALSE, rows, remove)>>)
        /\ rows \cup remove = {o} /\ (o \in rows <=> o \in resting')
  <2>1. CASE VenueOpens(o)
    <3>1. /\ Sends(ScopeOf[o], <<OrdersFrame(ScopeOf[o], FALSE, {o}, {})>>)
          /\ {o} \cup {} = {o} /\ (o \in {o} <=> o \in resting') /\ {o} \in SUBSET Orders
          /\ {} \in SUBSET Orders
      BY <2>1 DEF VenueOpens
    <3> QED BY <3>1
  <2>2. CASE VenueCloses(o)
    <3>1. /\ Sends(ScopeOf[o], <<OrdersFrame(ScopeOf[o], FALSE, {}, {o})>>)
          /\ {} \cup {o} = {o} /\ (o \in {} <=> o \in resting') /\ {o} \in SUBSET Orders
          /\ {} \in SUBSET Orders
      BY <2>2 DEF VenueCloses
    <3> QED BY <3>1
  <2> QED BY <2>1, <2>2
<1>2. /\ UNCHANGED <<wires, snapshots, connected, served, everAcked, orders, ordersComplete, told>>
      /\ \A p : p # o => (p \in resting' <=> p \in resting)
  BY DEF VenueOpens, VenueCloses, storeVars
<1>3. /\ ScopeOf[o] \in wires /\ ScopeOf[o] \in Scopes
      /\ frames \in Seq(FeedFrames) /\ \A i \in DOMAIN frames : frames[i].wire \in served
  BY OneWire DEF VenueOpens, VenueCloses, FeedTypes
<1>4. CASE ScopeOf[o] \notin served
  <2>1. frames' = frames
    BY <1>1, <1>4 DEF Sends
  <2>2. \A i \in DOMAIN frames : ~Mentions(frames[i], o)
    BY <1>3, <1>4 DEF Mentions
  <2>3. OrdersTypes'
    BY <1>2, <2>1 DEF OrdersFlow, OrdersTypes
  <2>4. LastMention'
    BY <1>2, <2>1, <2>2 DEF OrdersFlow, LastMention
  <2>5. NoMention'
    BY <1>2, <1>4, <2>1 DEF OrdersFlow, NoMention, Known
  <2>6. ScopesBegin'
    BY <1>2, <2>1 DEF OrdersFlow, ScopesBegin, Snapshots
  <2> QED BY <2>3, <2>4, <2>5, <2>6 DEF OrdersFlow
<1>5. CASE ScopeOf[o] \in served
  <2> DEFINE f == OrdersFrame(ScopeOf[o], FALSE, rows, remove)
             L == Len(frames)
  <2>1. f \in FeedFrames
    BY <1>3, FramesSent
  <2>2. frames' = frames \o <<f>>
    BY <1>1, <1>5 DEF Sends
  <2>3. /\ f.what = "orders" /\ f.wire = ScopeOf[o] /\ f.snapshot = FALSE /\ f.rows = rows
        /\ f.remove = remove
    BY DEF OrdersFrame
  <2> HIDE DEF f
  <2>4. /\ L \in Nat /\ DOMAIN frames = 1..L /\ DOMAIN frames' = 1..(L + 1)
        /\ frames'[L + 1] = f /\ \A i \in 1..L : frames'[i] = frames[i]
    BY <1>3, <2>1, <2>2, FramesAdded
  <2>5. /\ \A i \in DOMAIN frames : i \in DOMAIN frames' /\ frames'[i] = frames[i] /\ i < L + 1
        /\ \A i \in DOMAIN frames' : i = L + 1 \/ i \in DOMAIN frames
        /\ L + 1 \in DOMAIN frames'
    <3>1. \A i \in 1..(L + 1) : i = L + 1 \/ i \in 1..L
      BY <2>4
    <3>2. \A i \in 1..L : i \in 1..(L + 1) /\ i < L + 1
      BY <2>4
    <3>3. L + 1 \in 1..(L + 1)
      BY <2>4
    <3> QED BY <2>4, <3>1, <3>2, <3>3
  <2>6. frames'[L + 1] = f
    BY <2>4
  <2> HIDE DEF L
  <2>7. \A p \in Orders : Mentions(f, p) <=> p = o
    BY <1>1, <2>3 DEF Mentions
  <2>8. OrdersTypes'
    <3>1. f.rows \subseteq {p \in Orders : ScopeOf[p] = f.wire} /\ ~f.snapshot
      BY <1>1, <2>3
    <3>2. \A i \in DOMAIN frames' : frames'[i].what = "orders" =>
            /\ frames'[i].rows \subseteq {p \in Orders : ScopeOf[p] = frames'[i].wire}
            /\ frames'[i].snapshot => snapshots
      BY <2>5, <2>6, <3>1 DEF OrdersFlow, OrdersTypes
    <3> QED BY <1>2, <3>2 DEF OrdersFlow, OrdersTypes
  <2>9. LastMention'
    <3> SUFFICES ASSUME NEW p \in Orders, NEW i \in DOMAIN frames', Mentions(frames'[i], p),
                        \A j \in DOMAIN frames' : i < j => ~Mentions(frames'[j], p)
                 PROVE  p \in frames'[i].rows <=> p \in resting'
      BY DEF LastMention
    <3>1. CASE i = L + 1
      BY <1>1, <2>3, <2>6, <2>7, <3>1
    <3>2. CASE i \in DOMAIN frames
      <4>1. p # o
        BY <2>5, <2>6, <2>7, <3>2
      <4>2. /\ Mentions(frames[i], p) /\ frames'[i] = frames[i]
            /\ \A j \in DOMAIN frames : i < j => ~Mentions(frames[j], p)
        BY <2>5, <3>2
      <4> QED BY <1>2, <3>2, <4>1, <4>2 DEF OrdersFlow, LastMention
    <3> QED BY <2>5, <3>1, <3>2
  <2>10. NoMention'
    <3> SUFFICES ASSUME NEW p \in Orders, ScopeOf[p] \in served,
                        \A i \in DOMAIN frames' : ~Mentions(frames'[i], p)
                 PROVE  /\ Known(p) => p \in resting'
                        /\ snapshots /\ p \in resting' => Known(p)
      BY <1>2 DEF NoMention, Known
    <3>1. p # o
      BY <2>5, <2>6, <2>7
    <3>2. \A i \in DOMAIN frames : ~Mentions(frames[i], p)
      BY <2>5
    <3> QED BY <1>2, <3>1, <3>2 DEF OrdersFlow, NoMention
  <2>11. ScopesBegin'
    <3>1. \A s \in Scopes : Snapshots(s)' = {} => Snapshots(s) = {}
      BY <2>5 DEF Snapshots
    <3> QED BY <1>2, <3>1 DEF OrdersFlow, ScopesBegin
  <2> QED BY <2>8, <2>9, <2>10, <2>11 DEF OrdersFlow
<1> QED BY <1>4, <1>5

\* The head of the queue is taken: what the others mention is as before.
LEMMA MentionsTaken ==
    ASSUME FeedTypes, OrdersFlow, frames # <<>>, frames' = Tail(frames), resting' = resting,
           snapshots' = snapshots
    PROVE  /\ LastMention'
           /\ \A o \in Orders : (\A i \in DOMAIN frames' : ~Mentions(frames'[i], o)) =>
                \A i \in DOMAIN frames : i # 1 => ~Mentions(frames[i], o)
           /\ \A s \in Scopes : Snapshots(s)' = {} => Snapshots(s) \subseteq {1}
           /\ \A i \in DOMAIN frames' : frames'[i].what = "orders" =>
                /\ frames'[i].rows \subseteq {o \in Orders : ScopeOf[o] = frames'[i].wire}
                /\ frames'[i].snapshot => snapshots'
<1>1. /\ Len(frames) \in Nat /\ DOMAIN frames = 1..Len(frames)
      /\ DOMAIN frames' = 1..(Len(frames) - 1)
      /\ \A i \in DOMAIN frames' : i + 1 \in DOMAIN frames /\ frames'[i] = frames[i + 1]
  BY FramesTaken DEF FeedTypes
<1>2. \A i \in DOMAIN frames : i # 1 => i - 1 \in DOMAIN frames' /\ frames'[i - 1] = frames[i]
  <2> SUFFICES ASSUME NEW i \in DOMAIN frames, i # 1
               PROVE  i - 1 \in DOMAIN frames' /\ frames'[i - 1] = frames[i]
    OBVIOUS
  <2>1. i - 1 \in 1..(Len(frames) - 1) /\ (i - 1) + 1 = i
    BY <1>1
  <2> QED BY <1>1, <2>1
<1>3. LastMention'
  <2> SUFFICES ASSUME NEW o \in Orders, NEW i \in DOMAIN frames', Mentions(frames'[i], o),
                      \A j \in DOMAIN frames' : i < j => ~Mentions(frames'[j], o)
               PROVE  o \in frames'[i].rows <=> o \in resting
    BY DEF LastMention
  <2>1. i + 1 \in DOMAIN frames /\ frames'[i] = frames[i + 1]
    BY <1>1
  <2>2. ASSUME NEW j \in DOMAIN frames, i + 1 < j PROVE ~Mentions(frames[j], o)
    <3>1. j # 1 /\ i < j - 1
      BY <1>1, <2>2
    <3> QED BY <1>2, <3>1
  <2> QED BY <2>1, <2>2 DEF OrdersFlow, LastMention
<1>4. ASSUME NEW s \in Scopes, Snapshots(s)' = {}, NEW i \in Snapshots(s), i # 1 PROVE FALSE
  <2>1. i \in DOMAIN frames
    BY DEF Snapshots
  <2>2. i - 1 \in Snapshots(s)'
    BY <1>2, <1>4, <2>1 DEF Snapshots
  <2> QED BY <1>4, <2>2
<1>5. \A s \in Scopes : Snapshots(s)' = {} => Snapshots(s) \subseteq {1}
  BY <1>4
<1>6. \A i \in DOMAIN frames' : frames'[i].what = "orders" =>
        /\ frames'[i].rows \subseteq {o \in Orders : ScopeOf[o] = frames'[i].wire}
        /\ frames'[i].snapshot => snapshots'
  BY <1>1 DEF OrdersFlow, OrdersTypes
<1> QED BY <1>2, <1>3, <1>5, <1>6

\* A frame without orders arrives.
LEMMA OthersReceived ==
    ASSUME FeedTypes, OrdersFlow, OnAck \/ OnFills PROVE OrdersFlow'
<1>1. /\ frames # <<>> /\ frames[1].what # "orders" /\ frames' = Tail(frames)
      /\ UNCHANGED <<resting, snapshots, connected, served, orders, ordersComplete, told>>
      /\ everAcked \subseteq everAcked'
  BY DEF OnAck, OnFills, Received, MarkAcked, venueVars, storeVars
<1>2. /\ LastMention'
      /\ \A o \in Orders : (\A i \in DOMAIN frames' : ~Mentions(frames'[i], o)) =>
           \A i \in DOMAIN frames : i # 1 => ~Mentions(frames[i], o)
      /\ \A s \in Scopes : Snapshots(s)' = {} => Snapshots(s) \subseteq {1}
      /\ \A i \in DOMAIN frames' : frames'[i].what = "orders" =>
           /\ frames'[i].rows \subseteq {o \in Orders : ScopeOf[o] = frames'[i].wire}
           /\ frames'[i].snapshot => snapshots'
  BY <1>1, MentionsTaken
<1>3. OrdersTypes'
  BY <1>1, <1>2 DEF OrdersFlow, OrdersTypes
<1>4. NoMention'
  <2>1. \A o \in Orders : (\A i \in DOMAIN frames' : ~Mentions(frames'[i], o)) =>
          \A i \in DOMAIN frames : ~Mentions(frames[i], o)
    BY <1>1, <1>2 DEF Mentions
  <2> QED BY <1>1, <2>1 DEF OrdersFlow, NoMention, Known
<1>5. ScopesBegin'
  <2>1. \A s \in Scopes : Snapshots(s)' = {} => Snapshots(s) = {}
    BY <1>1, <1>2 DEF Snapshots
  <2> QED BY <1>1, <2>1 DEF OrdersFlow, ScopesBegin
<1> QED BY <1>2, <1>3, <1>4, <1>5 DEF OrdersFlow

\* Orders arrive.
LEMMA OrdersReceived ==
    ASSUME FeedTypes, OrdersFlow, OnOrders PROVE OrdersFlow'
<1> DEFINE f == frames[1]
           s == f.wire
           old == IF s \in DOMAIN orders /\ ~f.snapshot THEN orders[s] ELSE {}
<1>1. /\ frames # <<>> /\ f.what = "orders" /\ frames' = Tail(frames)
      /\ UNCHANGED <<resting, snapshots, connected, served>>
      /\ everAcked' = everAcked \cup {s}
      /\ orders' = [t \in DOMAIN orders \cup {s} |->
                      IF t = s THEN (old \ f.remove) \cup f.rows ELSE orders[t]]
      /\ ordersComplete' = IF f.snapshot THEN ordersComplete \cup {s} ELSE ordersComplete
      /\ told' = OrdersEvent(orders', ordersComplete')
  BY DEF OnOrders, Received, MarkAcked, venueVars, MergeScope
<1>2. /\ 1 \in DOMAIN frames /\ s \in Scopes /\ s \in served /\ f.snapshot \in BOOLEAN
      /\ f.rows \subseteq {o \in Orders : ScopeOf[o] = s} /\ (f.snapshot => snapshots)
  <2>1. 1 \in DOMAIN frames /\ f \in FeedFrames
    BY <1>1, OneWire
  <2>2. s \in Scopes /\ f.snapshot \in BOOLEAN
    BY <1>1, <2>1, FrameKinds
  <2> QED BY <1>1, <2>1, <2>2 DEF FeedTypes, OrdersFlow, OrdersTypes
<1>3. old \subseteq {o \in Orders : ScopeOf[o] = s}
  BY DEF OrdersFlow, OrdersTypes
<1>4. /\ DOMAIN orders' = DOMAIN orders \cup {s}
      /\ orders'[s] = (old \ f.remove) \cup f.rows
      /\ \A t \in DOMAIN orders : t # s => orders'[t] = orders[t]
  BY <1>1
<1>5. /\ LastMention'
      /\ \A o \in Orders : (\A i \in DOMAIN frames' : ~Mentions(frames'[i], o)) =>
           \A i \in DOMAIN frames : i # 1 => ~Mentions(frames[i], o)
      /\ \A t \in Scopes : Snapshots(t)' = {} => Snapshots(t) \subseteq {1}
      /\ \A i \in DOMAIN frames' : frames'[i].what = "orders" =>
           /\ frames'[i].rows \subseteq {o \in Orders : ScopeOf[o] = frames'[i].wire}
           /\ frames'[i].snapshot => snapshots'
  BY <1>1, MentionsTaken
<1>6. old = IF s \in DOMAIN orders /\ ~f.snapshot THEN orders[s] ELSE {}
  OBVIOUS
<1> HIDE DEF old, f
<1>7. OrdersTypes'
  <2>1. DOMAIN orders' \subseteq Scopes \cap everAcked'
    BY <1>1, <1>2, <1>4 DEF OrdersFlow, OrdersTypes
  <2>2. \A t \in DOMAIN orders' : orders'[t] \subseteq {o \in Orders : ScopeOf[o] = t}
    <3>1. orders'[s] \subseteq {o \in Orders : ScopeOf[o] = s}
      BY <1>2, <1>3, <1>4
    <3>2. \A t \in DOMAIN orders : orders[t] \subseteq {o \in Orders : ScopeOf[o] = t}
      BY DEF OrdersFlow, OrdersTypes
    <3> QED BY <1>4, <3>1, <3>2
  <2>3. ~snapshots => ordersComplete' = {}
    BY <1>1, <1>2 DEF OrdersFlow, OrdersTypes
  <2> QED BY <1>1, <1>5, <2>1, <2>2, <2>3 DEF OrdersTypes
<1>8. ASSUME NEW o \in Orders, ScopeOf[o] # s PROVE Known(o)' <=> Known(o)
  BY <1>4, <1>8 DEF Known
<1>9. ASSUME NEW o \in Orders, ScopeOf[o] = s
      PROVE  Known(o)' <=> (o \in old /\ o \notin f.remove) \/ o \in f.rows
  BY <1>4, <1>9 DEF Known
<1>10. NoMention'
  <2> SUFFICES ASSUME NEW o \in Orders, ScopeOf[o] \in served,
                      \A i \in DOMAIN frames' : ~Mentions(frames'[i], o)
               PROVE  /\ Known(o)' => o \in resting
                      /\ snapshots /\ o \in resting => Known(o)'
    BY <1>1 DEF NoMention
  <2>1. \A i \in DOMAIN frames : i # 1 => ~Mentions(frames[i], o)
    BY <1>5
  <2>2. CASE Mentions(f, o)
    <3>1. ScopeOf[o] = s /\ (f.snapshot \/ o \in f.rows \/ o \in f.remove)
      BY <2>2 DEF Mentions
    <3>2. o \in f.rows <=> o \in resting
      <4>1. \A j \in DOMAIN frames : 1 < j => ~Mentions(frames[j], o)
        BY <2>1
      <4> QED BY <1>2, <2>2, <4>1 DEF OrdersFlow, LastMention, f
    <3>3. Known(o)' <=> o \in f.rows
      <4>1. f.snapshot => old = {}
        BY <1>6
      <4> QED BY <1>9, <3>1, <4>1
    <3> QED BY <3>2, <3>3
  <2>3. CASE ~Mentions(f, o)
    <3>1. \A i \in DOMAIN frames : ~Mentions(frames[i], o)
      BY <2>1, <2>3 DEF f
    <3>2. Known(o)' <=> Known(o)
      <4>1. CASE ScopeOf[o] # s
        BY <1>8, <4>1
      <4>2. CASE ScopeOf[o] = s
        <5>1. ~f.snapshot /\ o \notin f.rows /\ o \notin f.remove
          BY <1>1, <2>3, <4>2 DEF Mentions
        <5>2. o \in old <=> Known(o)
          BY <1>6, <4>2, <5>1 DEF Known
        <5> QED BY <1>9, <4>2, <5>1, <5>2
      <4> QED BY <4>1, <4>2
    <3> QED BY <3>1, <3>2 DEF OrdersFlow, NoMention
  <2> QED BY <2>2, <2>3
<1>11. ScopesBegin'
  <2>1. ASSUME NEW t \in Scopes, ~snapshots, connected, t \notin served PROVE t \notin DOMAIN orders'
    BY <1>2, <1>4, <2>1 DEF OrdersFlow, ScopesBegin
  <2>2. ASSUME NEW t \in Scopes, snapshots, t \in served, Snapshots(t)' = {}
        PROVE  t \in DOMAIN orders' /\ t \in ordersComplete'
    <3>1. CASE t = s /\ f.snapshot
      BY <1>1, <1>4, <3>1
    <3>2. CASE ~(t = s /\ f.snapshot)
      <4>1. Snapshots(t) = {}
        BY <1>5, <2>2, <3>2 DEF Snapshots, f
      <4>2. t \in DOMAIN orders /\ t \in ordersComplete
        BY <2>2, <4>1 DEF OrdersFlow, ScopesBegin
      <4> QED BY <1>1, <1>4, <4>2
    <3> QED BY <3>1, <3>2
  <2> QED BY <1>1, <2>1, <2>2 DEF ScopesBegin
<1> QED BY <1>5, <1>7, <1>10, <1>11 DEF OrdersFlow

\* Nothing is in flight and nothing served: the orders known, or none, wait for
\* the snapshots.
LEMMA OrdersIdle ==
    ASSUME FeedTypes', OrdersTypes', frames' = <<>>, served' = {},
           ~snapshots' /\ connected' => DOMAIN orders' = {}
    PROVE  OrdersFlow'
BY EmptySeq DEF OrdersFlow, LastMention, NoMention, ScopesBegin

\* Every step keeps the flow of orders.
LEMMA OrdersStep ==
    ASSUME FeedTypes, OrdersFlow, [FeedNext]_feedVars PROVE OrdersFlow'
<1>0. FeedTypes'
  BY TypesStep
<1>1. ASSUME NEW w \in wires, VenueServes(w), "fills" \in wires PROVE OrdersFlow'
  <2>1. /\ UNCHANGED <<wires, snapshots, everAcked, orders, ordersComplete, told>>
    BY <1>1 DEF VenueServes, venueVars, storeVars
  <2>2. OrdersTypes'
    <3>1. \A i \in DOMAIN frames' : frames'[i].what # "orders"
      <4> SUFFICES ASSUME NEW i \in DOMAIN frames', frames'[i].what = "orders" PROVE FALSE
        OBVIOUS
      <4>1. frames'[i] \in FeedFrames /\ frames'[i].wire \in served' /\ served' \subseteq wires
        BY <1>0, <2>1 DEF FeedTypes
      <4>2. PICK g \in FeedFrames : g = frames'[i]
        BY <4>1
      <4>3. g.wire \in Scopes /\ g.wire \in wires
        BY <4>1, <4>2, FrameKinds
      <4> QED BY <1>1, <4>3, OneWire, FeedAssumption
    <3> QED BY <2>1, <3>1 DEF OrdersFlow, OrdersTypes
  <2> QED BY <1>0, <1>1, <2>1, <2>2, NoOrders
<1>2. ASSUME NEW w \in wires, VenueServes(w) PROVE OrdersFlow'
  BY <1>1, <1>2, OrdersServed
<1>3. CASE VenueFills
  <2>1. /\ "fills" \in wires /\ executed \in Nat
        /\ UNCHANGED <<wires, snapshots, served, everAcked, orders, ordersComplete, told>>
        /\ Sends("fills", <<FillsFrame(FALSE, <<executed + 1>>)>>)
    BY <1>3, FeedAssumption DEF VenueFills, storeVars, FeedTypes
  <2>2. OrdersTypes'
    <3> DEFINE f == FillsFrame(FALSE, <<executed + 1>>)
    <3>1. <<executed + 1>> \in Seq(Nat)
      BY <2>1
    <3>2. f \in FeedFrames /\ f.what = "fills" /\ f.wire = "fills"
      BY <3>1, FramesSent DEF FillsFrame
    <3> HIDE DEF f
    <3>3. frames' = frames \/ frames' = Append(frames, f)
      BY <2>1, <3>2, TypesSent DEF f
    <3>4. ASSUME NEW i \in DOMAIN frames'
          PROVE  frames'[i] = f \/ (i \in DOMAIN frames /\ frames'[i] = frames[i])
      <4>1. CASE frames' = frames
        BY <4>1
      <4>2. CASE frames' = Append(frames, f)
        <5>1. /\ DOMAIN frames' = 1..(Len(frames) + 1) /\ Len(frames) \in Nat
              /\ DOMAIN frames = 1..Len(frames)
              /\ frames'[Len(frames) + 1] = f /\ \A j \in 1..Len(frames) : frames'[j] = frames[j]
          BY <3>2, <4>2, FramesAdded DEF FeedTypes
        <5>2. i = Len(frames) + 1 \/ i \in 1..Len(frames)
          BY <5>1
        <5> QED BY <5>1, <5>2
      <4> QED BY <3>3, <4>1, <4>2
    <3> QED BY <2>1, <3>2, <3>4 DEF OrdersFlow, OrdersTypes
  <2> QED BY <1>0, <2>1, <2>2, NoOrders
<1>4. ASSUME NEW o \in Orders, VenueOpens(o) \/ VenueCloses(o) PROVE OrdersFlow'
  BY <1>4, OrdersMove
<1>5. CASE OnOpen
  <2>1. /\ frames' = <<>> /\ served' = {} /\ UNCHANGED <<wires, snapshots, everAcked>>
        /\ \/ UNCHANGED <<orders, ordersComplete, told>>
              /\ (~snapshots => everAcked \cap Scopes = {})
           \/ ClearOrders
    <3>1. frames = <<>> /\ served = {}
      BY <1>5, OneWire DEF OnOpen, FeedTypes
    <3> QED BY <1>5, <3>1 DEF OnOpen, venueVars
  <2>2. CASE UNCHANGED <<orders, ordersComplete, told>> /\ (~snapshots => everAcked \cap Scopes = {})
    <3>1. OrdersTypes'
      BY <2>1, <2>2, EmptySeq DEF OrdersFlow, OrdersTypes
    <3>2. ~snapshots' => DOMAIN orders' = {}
      BY <2>1, <2>2 DEF OrdersFlow, OrdersTypes
    <3> QED BY <1>0, <2>1, <3>1, <3>2, OrdersIdle
  <2>3. CASE ClearOrders
    <3>1. DOMAIN orders' = {}
      BY <2>3 DEF ClearOrders, NoScopes
    <3>2. OrdersTypes'
      BY <2>1, <2>3, <3>1, EmptySeq DEF OrdersTypes, ClearOrders
    <3> QED BY <1>0, <2>1, <3>1, <3>2, OrdersIdle
  <2> QED BY <2>1, <2>2, <2>3
<1>6. CASE Disconnects
  <2>1. /\ frames' = <<>> /\ served' = {} /\ ~connected'
        /\ UNCHANGED <<snapshots, everAcked, orders, ordersComplete, told>>
    BY <1>6 DEF Disconnects, venueVars, storeVars
  <2>2. OrdersTypes'
    BY <2>1, EmptySeq DEF OrdersFlow, OrdersTypes
  <2> QED BY <1>0, <2>1, <2>2, OrdersIdle
<1>7. CASE OnAck \/ OnFills
  BY <1>7, OthersReceived
<1>8. CASE OnOrders
  BY <1>8, OrdersReceived
<1>9. CASE UNCHANGED feedVars
  BY <1>9 DEF OrdersFlow, feedVars, venueVars, wireVars, storeVars, OrdersTypes, LastMention,
     NoMention, ScopesBegin, Known, Snapshots
<1> QED BY <1>2, <1>3, <1>4, <1>5, <1>6, <1>7, <1>8, <1>9 DEF FeedNext

-----------------------------------------------------------------------------
(* The theorem *)

\* It holds at the beginning.
LEMMA FeedBegins == FeedInit => FeedInv
<1> SUFFICES ASSUME FeedInit PROVE FeedInv
  OBVIOUS
<1>1. /\ frames = <<>> /\ <<>> \in Seq(FeedFrames) /\ DOMAIN <<>> = {} /\ Len(<<>>) = 0
      /\ <<>> \in Seq(Nat)
  BY EmptySeq DEF FeedInit
<1>2. FeedTypes
  <2>1. executed \in 0..MaxFills /\ covered \in 0..executed
    BY FeedAssumption DEF FeedInit
  <2> QED BY <1>1, <2>1 DEF FeedInit, FeedTypes
<1>3. FillsFlow
  <2>1. Kept(seenFills, delivered, executed)
    <3>1. Window \in Nat
      BY FeedAssumption
    <3> QED BY <1>1, <3>1 DEF FeedInit, Kept
  <2>2. FillsOnTheirWay
    BY <1>1 DEF FillsOnTheirWay
  <2>3. ReplaysClose /\ GapsClose
    BY <1>1 DEF FeedInit, ReplaysClose, GapsClose
  <2> QED BY <2>1, <2>2, <2>3 DEF FillsFlow
<1>4. OrdersFlow
  <2>1. DOMAIN orders = {} /\ ordersComplete = {} /\ told = OrdersEvent(orders, ordersComplete)
    <3>1. orders = NoScopes /\ ordersComplete = {} /\ told = [open |-> {}, complete |-> FALSE]
      BY DEF FeedInit
    <3>2. DOMAIN orders = {}
      BY <3>1 DEF NoScopes
    <3>3. UNION {orders[s] : s \in DOMAIN orders} = {}
      BY <3>2
    <3>4. IsComplete(orders, ordersComplete) = FALSE
      BY <3>2 DEF IsComplete
    <3> QED BY <3>1, <3>2, <3>3, <3>4 DEF OrdersEvent
  <2>2. OrdersTypes
    BY <1>1, <2>1 DEF OrdersTypes
  <2>3. LastMention /\ NoMention /\ ScopesBegin
    BY <1>1, <2>1 DEF FeedInit, LastMention, NoMention, ScopesBegin
  <2> QED BY <2>2, <2>3 DEF OrdersFlow
<1> QED BY <1>2, <1>3, <1>4 DEF FeedInv

\* What it says once everything has arrived.
LEMMA FeedTells == FeedInv => FeedIsExact
<1> SUFFICES ASSUME FeedInv PROVE FeedIsExact
  OBVIOUS
<1>1. FeedTypes /\ FillsFlow /\ OrdersFlow /\ Kept(seenFills, delivered, executed)
  BY DEF FeedInv, FillsFlow
<1>2. FeedTypeOK
  <2>1. Len(seenFills) <= Window
    <3>1. /\ Len(delivered) \in Nat /\ Window \in Nat
          /\ Len(seenFills) = IF Len(delivered) <= Window THEN Len(delivered) ELSE Window
      BY <1>1, FeedAssumption DEF Kept
    <3> QED BY <3>1
  <2>2. DOMAIN orders \subseteq Scopes
    BY <1>1 DEF OrdersFlow, OrdersTypes
  <2>3. covered \in 0..MaxFills
    BY <1>1, FeedAssumption DEF FeedTypes
  <2> QED BY <1>1, <2>1, <2>2, <2>3 DEF FeedTypeOK, FeedTypes
<1>3. FillsExact
  <2>1. \A i, j \in DOMAIN delivered : i # j => delivered[i] # delivered[j]
    <3> SUFFICES ASSUME NEW i \in DOMAIN delivered, NEW j \in DOMAIN delivered, i # j
                 PROVE  delivered[i] # delivered[j]
      OBVIOUS
    <3>1. DOMAIN delivered = 1..Len(delivered)
      BY <1>1 DEF Kept
    <3>2. i < j \/ j < i
      BY <3>1
    <3> QED BY <1>1, <3>2 DEF Kept
  <2>2. ASSUME Settled, "fills" \in wires, NEW n \in 1..executed, AnswersFor(n)
        PROVE  Contains(delivered, n) \/ n <= covered
    <3>1. /\ connected /\ "fills" \in served /\ frames = <<>> /\ Len(frames) = 0
          /\ DOMAIN frames = {} /\ executed \in Nat /\ covered \in Nat
          /\ ReplaysClose /\ GapsClose
      BY <1>1, <2>2, EmptySeq, FeedAssumption DEF Settled, FeedTypes, FillsFlow
    <3>2. n \in Nat /\ n <= executed - Len(frames)
      BY <3>1
    <3>3. ~Missed(n)
      <4>1. CASE replays
        <5>1. delivered # <<>> /\ n > Min(ToSet(delivered))
          BY <2>2, <4>1 DEF AnswersFor
        <5>2. Contains(delivered, Min(ToSet(delivered)))
          BY <1>1, <5>1, MinIn DEF Kept
        <5>3. PICK a \in DOMAIN delivered : delivered[a] = Min(ToSet(delivered))
          BY <1>1, <5>2 DEF Contains, Kept
        <5>4. delivered[a] \in Nat /\ delivered[a] < n
          BY <1>1, <3>2, <5>1, <5>3 DEF Kept
        <5>5. ~ReplayPending
          BY <3>1 DEF ReplayPending
        <5> QED BY <3>1, <3>2, <4>1, <5>4, <5>5 DEF ReplaysClose
      <4>2. CASE ~replays
        <5>1. since < n
          BY <1>1, <2>2, <3>2, <4>2 DEF AnswersFor, FeedTypes
        <5>2. ~owed /\ "fills" \in everAcked
          BY <3>1, <4>2 DEF GapsClose
        <5> QED BY <3>1, <3>2, <4>2, <5>1, <5>2 DEF GapsClose
      <4> QED BY <4>1, <4>2
    <3> QED BY <3>1, <3>2, <3>3 DEF Missed
  <2> QED BY <2>1, <2>2 DEF FillsExact
<1>4. OrdersExact
  <2> SUFFICES ASSUME Settled
               PROVE  /\ told.open \subseteq resting
                      /\ told.complete => told.open = resting
                      /\ (snapshots /\ wires = Scopes) => told.complete
    BY DEF OrdersExact
  <2>1. served = wires /\ frames = <<>> /\ DOMAIN frames = {}
    BY EmptySeq DEF Settled
  <2>2. told = OrdersEvent(orders, ordersComplete)
    BY <1>1 DEF OrdersFlow, OrdersTypes
  <2>3. /\ told.open = UNION {orders[s] : s \in DOMAIN orders}
        /\ told.complete = IsComplete(orders, ordersComplete)
    BY <2>2, Zenon DEF OrdersEvent
  <2>4. \A o \in Orders : ScopeOf[o] \in wires =>
          /\ Known(o) => o \in resting
          /\ snapshots /\ o \in resting => Known(o)
    BY <1>1, <2>1 DEF OrdersFlow, NoMention
  <2>5. \A o : o \in told.open <=> o \in Orders /\ Known(o)
    <3>1. \A s \in DOMAIN orders : orders[s] \subseteq {o \in Orders : ScopeOf[o] = s}
      BY <1>1 DEF OrdersFlow, OrdersTypes
    <3>2. \A o : o \in told.open <=> \E s \in DOMAIN orders : o \in orders[s]
      BY <2>3
    <3> QED BY <3>1, <3>2 DEF Known
  <2>6. \A o \in Orders : Known(o) => ScopeOf[o] \in wires
    BY <1>1 DEF Known, OrdersFlow, OrdersTypes, FeedTypes
  <2>7. told.open \subseteq resting
    BY <2>4, <2>5, <2>6
  <2>8. ASSUME IsComplete(orders, ordersComplete) PROVE told.open = resting
    <3>1. snapshots
      BY <1>1, <2>8 DEF OrdersFlow, OrdersTypes, IsComplete
    <3>2. resting \subseteq {o \in Orders : ScopeOf[o] \in wires}
      BY <1>1 DEF FeedTypes
    <3> QED BY <2>4, <2>5, <2>7, <3>1, <3>2
  <2>9. ASSUME snapshots, wires = Scopes PROVE IsComplete(orders, ordersComplete)
    <3>1. \A s \in Scopes : Snapshots(s) = {}
      BY <2>1 DEF Snapshots
    <3>2. \A s \in Scopes : s \in DOMAIN orders /\ s \in ordersComplete
      BY <1>1, <2>1, <2>9, <3>1 DEF OrdersFlow, ScopesBegin
    <3>3. Scopes # {} /\ DOMAIN orders \subseteq Scopes
      BY <1>1, FeedAssumption DEF OrdersFlow, OrdersTypes
    <3> QED BY <3>2, <3>3 DEF IsComplete
  <2> QED BY <2>3, <2>7, <2>8, <2>9, Zenon
<1> QED BY <1>2, <1>3, <1>4 DEF FeedIsExact

\* Over any disconnects a fill is delivered once, or a gap a refetch closes is
\* announced, and the open orders last told are open, and all of them when they
\* are called complete (src/ws/user-state.ts, onOpen of src/ws/stream.ts).
THEOREM FeedIsAlwaysExact == FeedSpec => []FeedIsExact
<1>1. FeedInit => FeedInv
  BY FeedBegins
<1>2. FeedInv /\ [FeedNext]_feedVars => FeedInv'
  BY TypesStep, FillsStep, OrdersStep DEF FeedInv
<1>3. FeedInv => FeedIsExact
  BY FeedTells
<1> QED BY <1>1, <1>2, <1>3, PTL DEF FeedSpec
===========================================================================
