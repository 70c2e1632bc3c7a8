-------------------------- MODULE PagedIngestProofs --------------------------
(***************************************************************************)
(* Ingesting a snapshot of any number of pages, by any number of calls     *)
(* that time out, repeat pages, die and begin again.                       *)
(***************************************************************************)
EXTENDS PagedIngest, RawLandingProofs, SequenceTheorems, FiniteSetTheorems,
        WellFoundedInduction, TLAPS

-----------------------------------------------------------------------------
(***************************************************************************)
(* Operators.                                                              *)
(***************************************************************************)
LEMMA Least ==
    ASSUME NEW T, T \subseteq Nat, T # {}
    PROVE  \E x \in T : \A y \in T : x <= y
<1> DEFINE Before == {s \in Nat \X Nat : s[1] < s[2]}
<1>1. OpToRel(<, Nat) = Before
  BY DEF OpToRel
<1>2. IsWellFoundedOn(Before, Nat)
  BY <1>1, NatLessThanWellFounded
<1>3. PICK x \in T : \A y \in T : ~(<<y, x>> \in Before)
  <2> HIDE DEF Before
  <2> QED  BY <1>2, WFMin
<1>4. ASSUME NEW y \in T
      PROVE  x <= y
  <2>1. x \in Nat /\ y \in Nat
    OBVIOUS
  <2>2. <<y, x>> \in Before <=> y < x
    BY <2>1
  <2>3. ~(y < x)
    BY <1>3, <2>2
  <2> QED  BY <2>1, <2>3
<1> QED  BY <1>4

\* Any sequence of elements has a first one with an id that occurs, and it is
\* the one FirstOf finds.
LEMMA FirstOfIs ==
    ASSUME NEW S, NEW s \in Seq(S), NEW id, NEW i \in 1..Len(s), s[i].id = id,
           \A j \in 1..(i - 1) : s[j].id # id
    PROVE  FirstOf(s, id) = s[i]
<1> DEFINE IsFirst(x) == x \in DOMAIN s /\ s[x].id = id /\ \A j \in 1..(x - 1) : s[j].id # id
           first == CHOOSE x \in DOMAIN s : s[x].id = id /\ \A j \in 1..(x - 1) : s[j].id # id
<1>1. DOMAIN s = 1..Len(s) /\ Len(s) \in Nat
  OBVIOUS
<1>2. IsFirst(i)
  BY <1>1
<1>3. IsFirst(first)
  BY <1>2
<1>4. first = i
  <2> HIDE DEF first
  <2>1. first \in 1..Len(s) /\ first \in Int /\ i \in Int
    BY <1>1, <1>3
  <2>2. ~(first < i) /\ ~(i < first)
    BY <1>2, <1>3, <2>1
  <2> QED  BY <2>1, <2>2
<1> QED  BY <1>4 DEF FirstOf

LEMMA HasFirst ==
    ASSUME NEW S, NEW s \in Seq(S), NEW id \in Ids(s)
    PROVE  \E i \in 1..Len(s) : /\ s[i].id = id
                                /\ \A j \in 1..(i - 1) : s[j].id # id
                                /\ FirstOf(s, id) = s[i]
<1> DEFINE T == {i \in 1..Len(s) : s[i].id = id}
<1>1. DOMAIN s = 1..Len(s) /\ Len(s) \in Nat
  OBVIOUS
<1>2. T # {} /\ T \subseteq Nat
  BY <1>1 DEF Ids
<1>3. PICK i \in T : \A j \in T : i <= j
  BY <1>2, Least
<1>4. ASSUME NEW j \in 1..(i - 1)
      PROVE  s[j].id # id
  BY <1>1, <1>3
<1> QED  BY <1>3, <1>4, FirstOfIs

\* collect_unique_events over two iterations, one after the other.
LEMMA CollectConcat ==
    ASSUME NEW S, NEW s \in Seq(S), NEW t \in Seq(S)
    PROVE  CollectUniqueEvents(s \o t) = Merge(CollectUniqueEvents(s), t)
<1> DEFINE st == s \o t
<1>1. /\ Len(s) \in Nat /\ Len(t) \in Nat /\ DOMAIN s = 1..Len(s) /\ DOMAIN t = 1..Len(t)
      /\ st \in Seq(S) /\ DOMAIN st = 1..(Len(s) + Len(t)) /\ Len(st) = Len(s) + Len(t)
      /\ \A i \in 1..Len(s) : st[i] = s[i]
      /\ \A i \in 1..Len(t) : st[Len(s) + i] = t[i]
  OBVIOUS
<1>0. st \in Seq(S)
  BY <1>1
<1> HIDE DEF st
<1>2. Ids(st) = Ids(s) \cup Ids(t)
  <2>1. ASSUME NEW i \in DOMAIN st
        PROVE  st[i].id \in Ids(s) \cup Ids(t)
    <3>1. CASE i <= Len(s)
      BY <1>1, <3>1 DEF Ids
    <3>2. CASE ~(i <= Len(s))
      <4>1. i - Len(s) \in 1..Len(t) /\ i = Len(s) + (i - Len(s))
        BY <1>1, <3>2
      <4> QED  BY <1>1, <4>1 DEF Ids
    <3> QED  BY <3>1, <3>2
  <2>2. ASSUME NEW i \in 1..Len(s)
        PROVE  s[i].id \in Ids(st)
    <3>1. i \in DOMAIN st /\ st[i] = s[i]
      BY <1>1
    <3> QED  BY <3>1 DEF Ids
  <2>3. ASSUME NEW i \in 1..Len(t)
        PROVE  t[i].id \in Ids(st)
    <3>1. Len(s) + i \in DOMAIN st
      BY <1>1
    <3> QED  BY <1>1, <3>1 DEF Ids
  <2> QED  BY <1>1, <2>1, <2>2, <2>3 DEF Ids
<1>3. ASSUME NEW id \in Ids(s)
      PROVE  FirstOf(st, id) = FirstOf(s, id)
  <2>1. PICK i \in 1..Len(s) : /\ s[i].id = id
                               /\ \A j \in 1..(i - 1) : s[j].id # id
                               /\ FirstOf(s, id) = s[i]
    BY HasFirst
  <2>2. i \in 1..Len(st) /\ st[i] = s[i]
    BY <1>1
  <2>3. ASSUME NEW j \in 1..(i - 1)
        PROVE  st[j].id # id
    <3>1. j \in 1..Len(s)
      BY <1>1
    <3> QED  BY <1>1, <2>1, <3>1
  <2>4. FirstOf(st, id) = st[i]
    BY <1>0, <2>1, <2>2, <2>3, FirstOfIs
  <2> QED  BY <2>1, <2>2, <2>4
<1>4. ASSUME NEW id \in Ids(t), id \notin Ids(s)
      PROVE  FirstOf(st, id) = FirstOf(t, id)
  <2>1. PICK i \in 1..Len(t) : /\ t[i].id = id
                               /\ \A j \in 1..(i - 1) : t[j].id # id
                               /\ FirstOf(t, id) = t[i]
    BY HasFirst
  <2>2. Len(s) + i \in 1..Len(st) /\ st[Len(s) + i] = t[i]
    BY <1>1
  <2>3. ASSUME NEW j \in 1..(Len(s) + i - 1)
        PROVE  st[j].id # id
    <3>1. CASE j <= Len(s)
      <4>1. j \in DOMAIN s /\ st[j] = s[j]
        BY <1>1, <3>1
      <4> QED  BY <1>4, <4>1 DEF Ids
    <3>2. CASE ~(j <= Len(s))
      <4>1. j - Len(s) \in 1..(i - 1) /\ j - Len(s) \in 1..Len(t)
        BY <1>1, <3>2
      <4>2. j = Len(s) + (j - Len(s))
        BY <1>1
      <4> QED  BY <1>1, <2>1, <4>1, <4>2
    <3> QED  BY <3>1, <3>2
  <2> DEFINE at == Len(s) + i
  <2>4. at \in 1..Len(st) /\ st[at].id = id /\ \A j \in 1..(at - 1) : st[j].id # id
    BY <2>1, <2>2, <2>3
  <2> HIDE DEF at
  <2>5. FirstOf(st, id) = st[at]
    BY <1>0, <2>4, FirstOfIs
  <2> QED  BY <2>1, <2>2, <2>5 DEF at
<1> DEFINE first == CollectUniqueEvents(s)
<1>5. DOMAIN first = Ids(s) /\ \A id \in Ids(s) : first[id] = FirstOf(s, id)
  BY DEF CollectUniqueEvents
<1>6. \A id \in Ids(st) : FirstOf(st, id) = IF id \in DOMAIN first THEN first[id]
                                            ELSE FirstOf(t, id)
  <2> HIDE DEF first
  <2> QED  BY <1>2, <1>3, <1>4, <1>5
<1>7. CollectUniqueEvents(st) = Merge(first, t)
  <2> HIDE DEF first
  <2> QED  BY <1>2, <1>5, <1>6 DEF CollectUniqueEvents, Merge
<1> QED  BY <1>7 DEF st

\* A page delivered twice in a row is merged as if it came once.
LEMMA MergeTwice ==
    ASSUME NEW got, NEW events
    PROVE  Merge(Merge(got, events), events) = Merge(got, events)
BY DEF Merge

\* FlattenSeq is what its recursive definition says: sequence after sequence.
LEMMA FlattenExists ==
    ASSUME NEW S, NEW n \in Nat \ {0}, NEW seqs \in [1..n -> Seq(S)]
    PROVE  \E f : f = [i \in 1..n |-> IF i = 1 THEN seqs[i] ELSE f[i-1] \o seqs[i]]
<1> DEFINE Q == Seq(S)
<1>0. seqs \in [1..n -> Q] /\ \A s \in Q, t \in Q : s \o t \in Q
  OBVIOUS
<1> HIDE DEF Q
<1> DEFINE Upto(m, f) ==
               /\ f = [i \in 1..m |-> f[i]]
               /\ \A i \in 1..m : /\ f[i] \in Q
                                 /\ f[i] = IF i = 1 THEN seqs[i] ELSE f[i-1] \o seqs[i]
           Bad == {m \in 1..n : ~ \E f : Upto(m, f)}
<1>1. Bad = {}
  <2> SUFFICES ASSUME Bad # {}
               PROVE  FALSE
    OBVIOUS
  <2>1. Bad \subseteq Nat
    OBVIOUS
  <2>2. PICK m \in Bad : \A l \in Bad : m <= l
    <3> HIDE DEF Bad
    <3> QED  BY <2>1, Least
  <2>3. m \in 1..n /\ seqs[m] \in Q /\ ~ \E f : Upto(m, f)
    BY <1>0, <2>2
  <2>4. CASE m = 1
    <3> DEFINE g == [i \in 1..1 |-> seqs[1]]
    <3>1. \A i \in 1..1 : i = 1 /\ g[i] = seqs[1]
      OBVIOUS
    <3>2. g = [i \in 1..1 |-> g[i]]
      OBVIOUS
    <3> HIDE DEF g
    <3>3. Upto(1, g)
      BY <2>3, <2>4, <3>1, <3>2
    <3> QED  BY <2>3, <2>4, <3>3
  <2>5. CASE m # 1
    <3>1. m - 1 \in 1..n /\ m \in 2..n /\ m - 1 \notin Bad
      <4>1. m - 1 \in 1..n /\ m \in 2..n /\ ~(m <= m - 1)
        BY <2>3, <2>5
      <4> HIDE DEF Bad
      <4> QED  BY <2>2, <4>1
    <3>2. PICK f : Upto(m - 1, f)
      BY <3>1
    <3> DEFINE g == [i \in 1..m |-> IF i = m THEN f[m-1] \o seqs[m] ELSE f[i]]
    <3>3. m - 1 \in 1..(m-1)
      BY <3>1
    <3>4. f[m-1] \o seqs[m] \in Q
      BY <1>0, <2>3, <3>2, <3>3
    <3>5. /\ g = [i \in 1..m |-> g[i]] /\ g[m] = f[m-1] \o seqs[m]
          /\ \A i \in 1..(m-1) : g[i] = f[i]
      <4>1. m \in 1..m /\ \A i \in 1..(m-1) : i \in 1..m /\ i # m
        BY <3>1
      <4> QED  BY <4>1
    <3> HIDE DEF g
    <3>6. ASSUME NEW i \in 1..m
          PROVE  g[i] \in Q /\ g[i] = IF i = 1 THEN seqs[i] ELSE g[i-1] \o seqs[i]
      <4>1. CASE i = m
        <5>1. i # 1 /\ i - 1 = m - 1 /\ seqs[i] = seqs[m]
          BY <3>1, <4>1
        <5>2. g[i] = f[m-1] \o seqs[m] /\ g[i-1] = f[m-1]
          BY <3>3, <3>5, <4>1, <5>1
        <5> QED  BY <3>4, <5>1, <5>2
      <4>2. CASE i # m
        <5>1. i \in 1..(m-1) /\ (i # 1 => i - 1 \in 1..(m-1))
          BY <3>1, <4>2
        <5>2. f[i] \in Q /\ f[i] = IF i = 1 THEN seqs[i] ELSE f[i-1] \o seqs[i]
          BY <3>2, <5>1
        <5> QED  BY <3>5, <5>1, <5>2
      <4> QED  BY <4>1, <4>2
    <3>7. Upto(m, g)
      BY <3>5, <3>6
    <3> QED  BY <2>3, <3>7
  <2> QED  BY <2>4, <2>5
<1>2. n \in 1..n
  OBVIOUS
<1>3. PICK f : Upto(n, f)
  BY <1>1, <1>2
<1>4. f = [i \in 1..n |-> IF i = 1 THEN seqs[i] ELSE f[i-1] \o seqs[i]]
  BY <1>3
<1> QED  BY <1>4

LEMMA FlattenSteps ==
    ASSUME NEW S, NEW n \in Nat \ {0}, NEW seqs \in [1..n -> Seq(S)]
    PROVE  \E f : /\ f[1] = seqs[1]
                  /\ \A i \in 2..n : f[i] = f[i-1] \o seqs[i]
                  /\ FlattenSeq(seqs) = f[n]
<1> DEFINE flatten == CHOOSE f : f = [i \in 1..n |-> IF i = 1 THEN seqs[i]
                                                    ELSE f[i-1] \o seqs[i]]
<1>1. flatten = [i \in 1..n |-> IF i = 1 THEN seqs[i] ELSE flatten[i-1] \o seqs[i]]
  <2>1. \E f : f = [i \in 1..n |-> IF i = 1 THEN seqs[i] ELSE f[i-1] \o seqs[i]]
    BY FlattenExists
  <2> QED  BY <2>1, Zenon
<1>2. Len(seqs) = n
  OBVIOUS
<1>3. FlattenSeq(seqs) = flatten[n]
  BY <1>2, Zenon DEF FlattenSeq
<1> HIDE DEF flatten
<1>4. flatten[1] = seqs[1] /\ \A i \in 2..n : flatten[i] = flatten[i-1] \o seqs[i]
  <2>1. 1 \in 1..n /\ \A i \in 2..n : i \in 1..n /\ i # 1
    OBVIOUS
  <2>2. \A i \in 1..n : flatten[i] = IF i = 1 THEN seqs[i] ELSE flatten[i-1] \o seqs[i]
    BY <1>1, Zenon
  <2> QED  BY <2>1, <2>2
<1> QED  BY <1>3, <1>4

LEMMA PageOfEvents ==
    ASSUME NEW c \in Clients, NEW k \in 1..PageCount(c)
    PROVE  PageEvents(c, k) \in Seq({c.events[i] : i \in Int})
<1> DEFINE S == {c.events[i] : i \in Int}
           first == (k - 1) * PageSize + 1
           last == IF k * PageSize < Len(c.events) THEN k * PageSize ELSE Len(c.events)
           slice == SubSeq(c.events, first, last)
<1>1. first \in Int /\ last \in Int
  <2>1. Len(c.events) \in Nat /\ k \in Int /\ PageSize \in Nat
    BY PageAssumption
  <2> QED  BY <2>1
<1>2. slice \in Seq(S)
  <2>1. \A i \in first..last : c.events[i] \in S
    OBVIOUS
  <2> HIDE DEF S, first, last
  <2> QED  BY <1>1, <2>1, SubSeqProperties
<1> HIDE DEF slice
<1>3. Reverse(slice) \in Seq(S)
  <2> HIDE DEF S
  <2>1. Len(slice) \in Nat /\ \A i \in 1..Len(slice) : slice[(Len(slice) - i) + 1] \in S
    BY <1>2
  <2> QED  BY <2>1 DEF Reverse
<1> QED  BY <1>2, <1>3 DEF PageEvents, slice

\* FirstOf is an event of the page.
LEMMA FirstOfPage ==
    ASSUME NEW c \in Clients, NEW k \in 1..PageCount(c), NEW id \in Ids(PageEvents(c, k))
    PROVE  FirstOf(PageEvents(c, k), id) \in Range(PageEvents(c, k))
<1> DEFINE events == PageEvents(c, k)
<1>1. events \in Seq({c.events[i] : i \in Int})
  BY PageOfEvents
<1>2. PICK i \in 1..Len(events) : FirstOf(events, id) = events[i]
  <2> HIDE DEF events
  <2> QED  BY <1>1, HasFirst DEF events
<1>3. i \in DOMAIN events
  <2> HIDE DEF events
  <2> QED  BY <1>1
<1> QED  BY <1>2, <1>3 DEF Range

LEMMA PagesCounted ==
    ASSUME NEW c \in Clients
    PROVE  PageCount(c) \in Nat
<1>1. Len(c.events) \in Nat /\ PageSize \in Nat /\ PageSize >= 1
  BY PageAssumption
<1> DEFINE n == Len(c.events) + PageSize - 1
           q == n \div PageSize
<1>2. n \in Nat
  BY <1>1
<1>3. q \in Int /\ n < PageSize * (q + 1)
  <2> HIDE DEF n
  <2> QED  BY <1>1, <1>2
<1>4. q >= 0
  <2> HIDE DEF n, q
  <2>1. ASSUME q + 1 <= 0
        PROVE  FALSE
    <3>1. PageSize * (q + 1) <= PageSize * 0
      BY <1>1, <1>3, <2>1
    <3> QED  BY <1>1, <1>2, <1>3, <3>1
  <2> QED  BY <1>3, <2>1
<1> QED  BY <1>3, <1>4 DEF PageCount

LEMMA FirstPage ==
    ASSUME NEW c \in Clients, PageEvents(c, 1) # <<>>
    PROVE  PageCount(c) \in Nat /\ 1 <= PageCount(c)
<1>1. /\ Len(c.events) \in Nat /\ PageSize \in Nat /\ PageSize >= 1
  BY PageAssumption
<1>2. Len(c.events) # 0
  <2> SUFFICES ASSUME Len(c.events) = 0
               PROVE  FALSE
    OBVIOUS
  <2>1. SubSeq(c.events, 1, 0) = <<>>
    BY SubSeqEmpty
  <2>2. (1 - 1) * PageSize + 1 = 1 /\ 1 * PageSize = PageSize /\ ~(PageSize < 0)
    BY <1>1
  <2>3. PageEvents(c, 1) = SubSeq(c.events, 1, 0)
    BY <2>2 DEF PageEvents
  <2> QED  BY <2>1, <2>3
<1> DEFINE n == Len(c.events) + PageSize - 1
           q == n \div PageSize
<1>3. n \in Nat /\ n >= PageSize
  BY <1>1, <1>2
<1>4. q \in Int /\ n < PageSize * (q + 1)
  <2> HIDE DEF n
  <2> QED  BY <1>1, <1>3
<1>5. q >= 1
  <2> HIDE DEF n, q
  <2>1. ASSUME q <= 0
        PROVE  FALSE
    <3>1. PageSize * (q + 1) <= PageSize * 1
      BY <1>1, <1>4, <2>1
    <3> QED  BY <1>1, <1>3, <1>4, <3>1
  <2> QED  BY <1>4, <2>1
<1> QED  BY <1>4, <1>5 DEF PageCount

LEMMA MergeTyped ==
    ASSUME NEW c \in Clients, NEW k \in 1..PageCount(c), NEW got \in Results
    PROVE  Merge(got, PageEvents(c, k)) \in Results
<1> DEFINE events == PageEvents(c, k)
           all == UNION {Range(e) : e \in Pages}
           names == UNION {Ids(e) : e \in Pages}
           merged == Merge(got, events)
<1>1. PICK ids \in SUBSET names : got \in [ids -> all]
  BY DEF Results
<1>2. events \in Pages
  BY DEF Pages
<1>3. Range(events) \subseteq all /\ Ids(events) \subseteq names
  BY <1>2
<1>4. \A id \in Ids(events) : FirstOf(events, id) \in all
  BY <1>3, FirstOfPage
<1>5. DOMAIN merged = ids \cup Ids(events)
  BY <1>1 DEF Merge
<1>6. \A id \in DOMAIN merged : merged[id] \in all
  <2> HIDE DEF events, all, names
  <2> QED  BY <1>1, <1>4, <1>5 DEF Merge
<1>7. merged \in [ids \cup Ids(events) -> all]
  <2> HIDE DEF all
  <2> QED  BY <1>5, <1>6 DEF Merge
<1>8. ids \cup Ids(events) \in SUBSET names
  BY <1>1, <1>3
<1> QED  BY <1>7, <1>8 DEF Results

-----------------------------------------------------------------------------
(***************************************************************************)
(* The inductive invariant, of a call p.                                   *)
(***************************************************************************)

\* The cursor stays in the snapshot; only an empty one has no page 1.
CursorInv(p) ==
    LET me == call[p]
    IN  call[p] # NoCall =>
            /\ me.page <= PageCount(me.client) \/ me.page = 1
            /\ me.step \in {"recording", "taking"} => me.page <= PageCount(me.client)
            /\ me.step = "returned" => me.page = PageCount(me.client)
            /\ me.repeated \subseteq 1..me.page
            /\ \A key \in me.completed : key[1] <= PageCount(me.client)

\* An upload is under way just while the callback runs, and is of its page.
UploadInv(p) ==
    LET page == call[p].page
        events == PageEvents(call[p].client, call[p].page)
    IN  /\ upload[p] # "idle" <=> At(p, "recording")
        /\ upload[p] # "idle" => item[p] = <<PageUri(page), events>>
        /\ upload[p] = "landed" => object[PageUri(page)] = events

Inv == TypeOK /\ \A p \in Calls : CursorInv(p) /\ UploadInv(p)

-----------------------------------------------------------------------------
(***************************************************************************)
(* Type correctness.                                                       *)
(***************************************************************************)
\* A call fetches, records and takes pages that exist.
LEMMA PageOfCall ==
    ASSUME TypeOK, NEW p \in Calls, CursorInv(p), call[p] # NoCall,
           \/ call[p].step \in {"recording", "taking"}
           \/ PageEvents(call[p].client, call[p].page) # <<>>
    PROVE  /\ call[p] \in Call /\ call[p].client \in Clients
           /\ PageCount(call[p].client) \in Int
           /\ call[p].page \in 1..PageCount(call[p].client)
           /\ PageUri(call[p].page) \in Uris
           /\ PageEvents(call[p].client, call[p].page) \in Sums
<1>1. /\ call[p] \in Call /\ call[p].client \in Clients
      /\ call[p].page \in Nat /\ call[p].page >= 1
  BY DEF TypeOK, Call
<1>2. PageCount(call[p].client) \in Int
  <2>1. Len(call[p].client.events) \in Nat /\ PageSize \in Nat \ {0}
    BY <1>1, PageAssumption
  <2> QED  BY <2>1 DEF PageCount
<1>3. call[p].page <= PageCount(call[p].client)
  BY <1>1, FirstPage DEF CursorInv
<1>4. call[p].page \in 1..PageCount(call[p].client)
  BY <1>1, <1>2, <1>3
<1> QED  BY <1>1, <1>2, <1>4, PageAssumption

LEMMA UploadTyped ==
    ASSUME RawTypeOK, NEW p \in Calls, UploadStep(p)
    PROVE  RawTypeOK'
<1>1. CASE Create(p)
  BY <1>1, SumAssumption, PageAssumption DEF Create, RawTypeOK, UploadState
<1>2. CASE Refuse(p)
  BY <1>2, PageAssumption DEF Refuse, RawTypeOK, UploadState
<1>3. CASE Compare(p)
  BY <1>3, PageAssumption DEF Compare, RawTypeOK, UploadState
<1>4. CASE UploadFails(p)
  BY <1>4, PageAssumption DEF UploadFails, RawTypeOK, UploadState
<1> QED  BY <1>1, <1>2, <1>3, <1>4 DEF UploadStep

LEMMA ReleaseTyped ==
    ASSUME RawTypeOK, NEW p \in Calls, Release(p)
    PROVE  RawTypeOK'
BY PageAssumption DEF Release, RawTypeOK, UploadState

LEMMA NewCallTyped ==
    ASSUME NEW c \in Clients
    PROVE  NewCall(c) \in Call
<1>1. Nothing \in Results
  <2>1. Nothing \in [{} -> UNION {Range(e) : e \in Pages}]
    BY DEF Nothing
  <2> QED  BY <2>1 DEF Results
<1> QED  BY <1>1 DEF NewCall, Call, Step

LEMMA GotoTyped ==
    ASSUME TypeOK, NEW p \in Calls, call[p] # NoCall, NEW step \in Step \ {"idle"},
           Goto(p, step)
    PROVE  /\ call' \in [Calls -> {NoCall} \cup Call]
           /\ call'[p] = [call[p] EXCEPT !.step = step]
<1>1. call[p] \in Call
  BY DEF TypeOK
<1>2. [call[p] EXCEPT !.step = step] \in Call
  BY <1>1 DEF Call
<1> QED  BY <1>2 DEF TypeOK, Goto

\* What a call becomes when it takes the events of its page.
LEMMA TakeTyped ==
    ASSUME TypeOK, NEW p \in Calls, CursorInv(p), Take(p)
    PROVE  call' \in [Calls -> {NoCall} \cup Call]
<1> DEFINE me == call[p]
           events == PageEvents(me.client, me.page)
           again == me.page \in me.client.repeats \ me.repeated
<1>1. At(p, "taking") /\ me # NoCall
  BY DEF Take, At, NoCall
<1>2. /\ me \in Call /\ me.client \in Clients
      /\ me.page \in 1..PageCount(me.client)
  BY <1>1, PageOfCall DEF At
<1>3. CASE Goto(p, "failed")
  BY <1>1, <1>3, GotoTyped DEF Step
<1>4. CASE call' = [call EXCEPT
                ![p].got = Merge(me.got, events),
                ![p].attempts = 0,
                ![p].repeated = IF again THEN @ \cup {me.page} ELSE @,
                ![p].page = IF again \/ me.page = PageCount(me.client) THEN @ ELSE @ + 1,
                ![p].step = IF again \/ me.page < PageCount(me.client) THEN "fetching"
                            ELSE "returned"]
  <2>1. Merge(me.got, events) \in Results
    BY <1>2, MergeTyped DEF Call
  <2> DEFINE got == Merge(me.got, events)
             repeated == IF again THEN me.repeated \cup {me.page} ELSE me.repeated
             page == IF again \/ me.page = PageCount(me.client) THEN me.page ELSE me.page + 1
             step == IF again \/ me.page < PageCount(me.client) THEN "fetching"
                     ELSE "returned"
             next == [me EXCEPT !.got = got, !.attempts = 0, !.repeated = repeated,
                                !.page = page, !.step = step]
  <2>2. next \in Call
    <3>1. me.repeated \in SUBSET Nat /\ me.page \in Nat \ {0}
      BY <1>2 DEF Call
    <3>2. repeated \in SUBSET Nat /\ page \in Nat \ {0} /\ step \in Step \ {"idle"}
      <4> HIDE DEF again
      <4> QED  BY <3>1 DEF Step
    <3> HIDE DEF got, repeated, page, step
    <3> QED  BY <1>2, <2>1, <3>2 DEF Call, got
  <2>3. call' = [call EXCEPT ![p] = next]
    BY <1>4
  <2> HIDE DEF next
  <2> QED  BY <2>2, <2>3 DEF TypeOK
<1> QED  BY <1>3, <1>4 DEF Take

LEMMA TypeStep ==
    ASSUME Inv, [Next]_vars
    PROVE  TypeOK'
<1> USE DEF Inv
<1>1. CASE UNCHANGED vars
  BY <1>1 DEF vars, rawVars, pageVars, TypeOK, RawTypeOK
<1>2. ASSUME NEW p \in Calls, Begin(p)
      PROVE  TypeOK'
  <2>1. PICK c \in Clients : call' = [call EXCEPT ![p] = NewCall(c)]
    BY <1>2 DEF Begin
  <2>2. call' \in [Calls -> {NoCall} \cup Call]
    BY <2>1, NewCallTyped DEF TypeOK
  <2>3. <<>> \in Seq(Key)
    OBVIOUS
  <2> QED  BY <1>2, <2>2, <2>3 DEF Begin, TypeOK, RawTypeOK, rawVars
<1>3. ASSUME NEW p \in Calls, TimesOut(p)
      PROVE  TypeOK'
  <2>1. call[p] \in Call
    BY <1>3 DEF TimesOut, At, NoCall, TypeOK
  <2> DEFINE attempts == call[p].attempts + 1
             timedOut == call[p].timedOut \cup {call[p].page}
             step == IF attempts > call[p].client.limit THEN "failed" ELSE "fetching"
             next == [call[p] EXCEPT !.attempts = attempts, !.timedOut = timedOut,
                                     !.step = step]
  <2>2. next \in Call
    <3>1. attempts \in Nat /\ timedOut \in SUBSET Nat
      BY <2>1 DEF Call
    <3>2. step \in Step \ {"idle"}
      BY DEF Step
    <3> HIDE DEF attempts, timedOut, step
    <3> QED  BY <2>1, <3>1, <3>2 DEF Call
  <2>3. call' = [call EXCEPT ![p] = next]
    BY <1>3 DEF TimesOut
  <2> HIDE DEF next
  <2>4. call' \in [Calls -> {NoCall} \cup Call]
    BY <2>2, <2>3 DEF TypeOK
  <2> QED  BY <1>3, <2>4 DEF TimesOut, TypeOK, RawTypeOK, rawVars
<1>4. ASSUME NEW p \in Calls, BeyondSnapshot(p) \/ ReceiveAgain(p)
      PROVE  TypeOK'
  <2>1. call[p] # NoCall
    BY <1>4 DEF BeyondSnapshot, ReceiveAgain, Answers, At, NoCall
  <2>2. call' \in [Calls -> {NoCall} \cup Call]
    BY <1>4, <2>1, GotoTyped DEF BeyondSnapshot, ReceiveAgain, AfterRepeat, Step
  <2> QED  BY <1>4, <2>2 DEF BeyondSnapshot, ReceiveAgain, TypeOK, RawTypeOK, rawVars
<1>5. ASSUME NEW p \in Calls, Receive(p)
      PROVE  TypeOK'
  <2>1. call[p] # NoCall /\ CursorInv(p)
    BY <1>5 DEF Receive, Answers, At, NoCall
  <2>2. call' \in [Calls -> {NoCall} \cup Call]
    BY <1>5, <2>1, GotoTyped DEF Receive, Step
  <2>3. /\ PageUri(call[p].page) \in Uris
        /\ PageEvents(call[p].client, call[p].page) \in Sums
        /\ call[p] \in Call
    BY <1>5, <2>1, PageOfCall DEF Receive
  <2>4. RawTypeOK'
    <3> DEFINE uri == PageUri(call[p].page)
               sum == PageEvents(call[p].client, call[p].page)
    <3> HIDE DEF uri, sum
    <3>1. uri \in Uris /\ sum \in Sums /\ BeginUpload(p, uri, sum)
      BY <1>5, <2>3 DEF Receive, uri, sum
    <3> QED  BY <3>1, SumAssumption, PageAssumption
             DEF BeginUpload, TypeOK, RawTypeOK, UploadState
  <2>5. PageKey(p) \in Key
    BY <2>3 DEF PageKey, Key, Call
  <2>6. recorded' \in [Calls -> Seq(Key)]
    BY <1>5, <2>5 DEF Receive, TypeOK
  <2> QED  BY <1>5, <2>2, <2>4, <2>6 DEF Receive, TypeOK
<1>6. ASSUME NEW p \in Calls, CallbackEnds(p)
      PROVE  TypeOK'
  <2>1. call[p] # NoCall /\ call[p] \in Call
    BY <1>6 DEF CallbackEnds, At, NoCall, TypeOK
  <2>2. CASE Goto(p, "failed")
    <3>1. call' \in [Calls -> {NoCall} \cup Call]
      BY <2>1, <2>2, GotoTyped DEF Step
    <3> QED  BY <1>6, <3>1, ReleaseTyped DEF CallbackEnds, TypeOK
  <2>3. CASE call' = [call EXCEPT ![p].completed = @ \cup {PageKey(p)}, ![p].step = "taking"]
    <3> DEFINE next == [call[p] EXCEPT !.completed = @ \cup {PageKey(p)}, !.step = "taking"]
    <3>1. PageKey(p) \in Key
      BY <2>1 DEF PageKey, Key, Call
    <3>2. next \in Call
      BY <2>1, <3>1 DEF Call, Step
    <3>3. call' = [call EXCEPT ![p] = next]
      BY <2>3
    <3> HIDE DEF next
    <3>4. call' \in [Calls -> {NoCall} \cup Call]
      BY <3>2, <3>3 DEF TypeOK
    <3> QED  BY <1>6, <3>4, ReleaseTyped DEF CallbackEnds, TypeOK
  <2> QED  BY <1>6, <2>2, <2>3 DEF CallbackEnds
<1>7. ASSUME NEW p \in Calls, Take(p)
      PROVE  TypeOK'
  BY <1>7, TakeTyped DEF Take, TypeOK, RawTypeOK, rawVars
<1>8. ASSUME NEW p \in Calls, UploadStep(p), UNCHANGED pageVars
      PROVE  TypeOK'
  BY <1>8, UploadTyped DEF pageVars, TypeOK
<1>9. ASSUME NEW p \in Calls, Dies(p)
      PROVE  TypeOK'
  <2>1. call[p] # NoCall
    BY <1>9 DEF Dies, Running, NoCall
  <2>2. call' \in [Calls -> {NoCall} \cup Call]
    BY <1>9, <2>1, GotoTyped DEF Dies, Step
  <2> QED  BY <1>9, <2>2, ReleaseTyped, PageAssumption DEF Dies, TypeOK
<1> QED  BY <1>1, <1>2, <1>3, <1>4, <1>5, <1>6, <1>7, <1>8, <1>9 DEF Next, CallStep

-----------------------------------------------------------------------------
(***************************************************************************)
(* A step of one call leaves the others alone, and no object is replaced.  *)
(***************************************************************************)
Kept == \A u \in Uris : object[u] # NoObject => object'[u] = object[u]

SameCall(q) == /\ call'[q] = call[q] /\ upload'[q] = upload[q]
               /\ item'[q] = item[q] /\ recorded'[q] = recorded[q]

StepOf(p) == Begin(p) \/ CallStep(p) \/ Dies(p)

LEMMA UploadFrame ==
    ASSUME TypeOK, NEW p \in Calls, UploadStep(p)
    PROVE  /\ Kept
           /\ UNCHANGED item
           /\ \A q \in Calls : q # p => upload'[q] = upload[q]
           /\ upload[p] \in {"sending", "refused"}
           /\ upload'[p] # "idle"
           /\ upload'[p] = "landed" => object'[item[p][1]] = item[p][2]
<1> USE DEF TypeOK, RawTypeOK
<1>1. p \in Uploaders /\ Calls \subseteq Uploaders
  BY PageAssumption
<1>2. upload[p] # "idle" => item[p][1] \in Uris /\ item[p][2] \in Sums
  BY <1>1
<1>3. CASE Create(p)
  BY <1>1, <1>2, <1>3 DEF Create, Absent, Kept
<1>4. CASE Refuse(p)
  BY <1>1, <1>4 DEF Refuse, Kept
<1>5. CASE Compare(p)
  BY <1>1, <1>5 DEF Compare, SameContent, Kept
<1>6. CASE UploadFails(p)
  BY <1>1, <1>6 DEF UploadFails, Kept
<1> QED  BY <1>3, <1>4, <1>5, <1>6 DEF UploadStep

LEMMA ReleaseFrame ==
    ASSUME TypeOK, NEW p \in Calls, Release(p)
    PROVE  /\ UNCHANGED object
           /\ upload'[p] = "idle"
           /\ \A q \in Calls : q # p => upload'[q] = upload[q] /\ item'[q] = item[q]
BY PageAssumption DEF TypeOK, RawTypeOK, Release

LEMMA Frame ==
    ASSUME TypeOK, NEW p \in Calls, StepOf(p)
    PROVE  Kept /\ \A q \in Calls : q # p => SameCall(q)
<1> USE DEF SameCall, Kept, rawVars
<1>1. CASE Begin(p)
  BY <1>1 DEF Begin, TypeOK
<1>2. CASE TimesOut(p)
  BY <1>2 DEF TimesOut, TypeOK
<1>3. CASE BeyondSnapshot(p) \/ ReceiveAgain(p)
  BY <1>3 DEF BeyondSnapshot, ReceiveAgain, Goto, TypeOK
<1>4. CASE Receive(p)
  BY <1>4, PageAssumption DEF Receive, Goto, BeginUpload, TypeOK, RawTypeOK
<1>5. CASE CallbackEnds(p)
  BY <1>5, ReleaseFrame DEF CallbackEnds, Goto, TypeOK
<1>6. CASE Take(p)
  BY <1>6 DEF Take, Goto, TypeOK
<1>7. CASE UploadStep(p) /\ UNCHANGED pageVars
  BY <1>7, UploadFrame DEF pageVars
<1>8. CASE Dies(p)
  BY <1>8, ReleaseFrame DEF Dies, Goto, TypeOK
<1> QED  BY <1>1, <1>2, <1>3, <1>4, <1>5, <1>6, <1>7, <1>8 DEF StepOf, CallStep

-----------------------------------------------------------------------------
(***************************************************************************)
(* The effect of each step of a call on its own variables.                 *)
(***************************************************************************)
Here(p) == <<call[p].client, call[p].page, call[p].repeated, call[p].completed, call[p].got>>

LEMMA GotoEffect ==
    ASSUME TypeOK, NEW p \in Calls, call[p] # NoCall, NEW step, Goto(p, step)
    PROVE  call'[p].step = step /\ Here(p)' = Here(p) /\ call'[p] # NoCall
           /\ call'[p].attempts = call[p].attempts
           /\ call'[p].timedOut = call[p].timedOut
<1>1. call[p] \in Call /\ call'[p] = [call[p] EXCEPT !.step = step]
  BY DEF TypeOK, Goto
<1>2. /\ call'[p].client = call[p].client /\ call'[p].page = call[p].page
      /\ call'[p].repeated = call[p].repeated /\ call'[p].completed = call[p].completed
      /\ call'[p].got = call[p].got /\ call'[p].step = step
      /\ call'[p].attempts = call[p].attempts
      /\ call'[p].timedOut = call[p].timedOut
  BY <1>1 DEF Call
<1>3. call'[p] # NoCall
  BY <1>1 DEF Call, NoCall
<1> QED  BY <1>2, <1>3 DEF Here

LEMMA BeginEffect ==
    ASSUME TypeOK, NEW p \in Calls, Begin(p)
    PROVE  /\ call[p].step \in {"idle", "dead"}
           /\ \E c \in Clients : call'[p] = NewCall(c)
           /\ call'[p] # NoCall
           /\ UNCHANGED <<object, upload, item>>
<1>1. PICK c \in Clients : call' = [call EXCEPT ![p] = NewCall(c)]
  BY DEF Begin
<1>2. call'[p] = NewCall(c)
  BY <1>1 DEF TypeOK
<1>3. NewCall(c) # NoCall
  BY DEF NewCall, NoCall
<1> QED  BY <1>2, <1>3 DEF Begin, rawVars

LEMMA TimesOutEffect ==
    ASSUME TypeOK, NEW p \in Calls, TimesOut(p)
    PROVE  /\ call[p] # NoCall /\ call[p].step = "fetching"
           /\ call'[p].step \in {"fetching", "failed"}
           /\ Here(p)' = Here(p)
           /\ call'[p] # NoCall
           /\ call[p].page \in call[p].client.timeouts \ call[p].timedOut
           /\ call'[p].timedOut = call[p].timedOut \cup {call[p].page}
<1>1. call[p] \in Call /\ call[p].step = "fetching" /\ call[p] # NoCall
  BY DEF TimesOut, At, NoCall, TypeOK
<1> DEFINE attempts == call[p].attempts + 1
           timedOut == call[p].timedOut \cup {call[p].page}
           step == IF attempts > call[p].client.limit THEN "failed" ELSE "fetching"
<1>2. call'[p] = [call[p] EXCEPT !.attempts = attempts, !.timedOut = timedOut,
                                 !.step = step]
  BY DEF TimesOut, TypeOK
<1>3. step \in {"fetching", "failed"}
  OBVIOUS
<1> HIDE DEF attempts, timedOut, step
<1>4. /\ call'[p].client = call[p].client /\ call'[p].page = call[p].page
      /\ call'[p].repeated = call[p].repeated /\ call'[p].completed = call[p].completed
      /\ call'[p].got = call[p].got /\ call'[p].step = step
      /\ call'[p].timedOut = timedOut
  BY <1>1, <1>2 DEF Call
<1>5. call'[p] # NoCall
  BY <1>1, <1>2 DEF Call, NoCall
<1>6. call[p].page \in call[p].client.timeouts \ call[p].timedOut
  BY DEF TimesOut
<1> QED  BY <1>1, <1>3, <1>4, <1>5, <1>6 DEF Here, timedOut

LEMMA CallbackEffect ==
    ASSUME TypeOK, NEW p \in Calls, CallbackEnds(p)
    PROVE  /\ call[p] # NoCall /\ call[p].step = "recording" /\ call'[p] # NoCall
           /\ UNCHANGED object /\ upload'[p] = "idle"
           /\ upload[p] \in {"landed", "conflict", "failed"}
           /\ call'[p].timedOut = call[p].timedOut
           /\ \/ /\ upload[p] = "landed"
                 /\ call'[p].step = "taking"
                 /\ call'[p].completed = call[p].completed \cup {PageKey(p)}
                 /\ call'[p].client = call[p].client /\ call'[p].page = call[p].page
                 /\ call'[p].repeated = call[p].repeated /\ call'[p].got = call[p].got
              \/ call'[p].step = "failed" /\ Here(p)' = Here(p)
<1>1. call[p] \in Call /\ call[p].step = "recording" /\ call[p] # NoCall
  BY DEF CallbackEnds, At, NoCall, TypeOK
<1>2. UNCHANGED object /\ upload'[p] = "idle"
  BY ReleaseFrame DEF CallbackEnds
<1>3. CASE Goto(p, "failed") /\ upload[p] \in {"conflict", "failed"}
  BY <1>1, <1>2, <1>3, GotoEffect
<1>4. CASE /\ upload[p] = "landed"
           /\ call' = [call EXCEPT ![p].completed = @ \cup {PageKey(p)}, ![p].step = "taking"]
  <2> DEFINE completed == call[p].completed \cup {PageKey(p)}
  <2>1. call'[p] = [call[p] EXCEPT !.completed = completed, !.step = "taking"]
    BY <1>4 DEF TypeOK
  <2> HIDE DEF completed
  <2>2. /\ call'[p].client = call[p].client /\ call'[p].page = call[p].page
        /\ call'[p].repeated = call[p].repeated /\ call'[p].completed = completed
        /\ call'[p].got = call[p].got /\ call'[p].step = "taking"
        /\ call'[p].timedOut = call[p].timedOut /\ call'[p] # NoCall
    BY <1>1, <2>1 DEF Call, NoCall
  <2> QED  BY <1>1, <1>2, <1>4, <2>2 DEF completed
<1> QED  BY <1>3, <1>4 DEF CallbackEnds

LEMMA TakeEffect ==
    ASSUME Inv, NEW p \in Calls, Take(p)
    PROVE  LET me == call[p]
               next == call'[p]
           IN  /\ me # NoCall /\ me.step = "taking" /\ next # NoCall
               /\ UNCHANGED <<object, upload, item, recorded>>
               /\ next.client = me.client /\ next.completed = me.completed
               /\ next.timedOut = me.timedOut
               /\ \/ next.step = "failed" /\ Here(p)' = Here(p)
                  \/ /\ next.got = Merge(me.got, PageEvents(me.client, me.page))
                     /\ \/ /\ next.step = "fetching" /\ next.page = me.page
                           /\ me.page \in me.client.repeats \ me.repeated
                           /\ next.repeated = me.repeated \cup {me.page}
                        \/ /\ next.step = "fetching" /\ next.page = me.page + 1
                           /\ me.page < PageCount(me.client)
                           /\ next.repeated = me.repeated
                        \/ /\ next.step = "returned" /\ next.page = me.page
                           /\ me.page = PageCount(me.client)
                           /\ next.repeated = me.repeated
<1> DEFINE me == call[p]
           again == me.page \in me.client.repeats \ me.repeated
           got == Merge(me.got, PageEvents(me.client, me.page))
           repeated == IF again THEN me.repeated \cup {me.page} ELSE me.repeated
           page == IF again \/ me.page = PageCount(me.client) THEN me.page ELSE me.page + 1
           step == IF again \/ me.page < PageCount(me.client) THEN "fetching" ELSE "returned"
<1>1. me # NoCall /\ me \in Call /\ me.step = "taking" /\ CursorInv(p) /\ TypeOK
  BY DEF Take, At, NoCall, Inv, TypeOK
<1>2. me.page \in 1..PageCount(me.client) /\ PageCount(me.client) \in Int
  BY <1>1, PageOfCall
<1>3. UNCHANGED <<object, upload, item, recorded>>
  BY DEF Take, rawVars
<1>4. CASE Goto(p, "failed")
  BY <1>1, <1>3, <1>4, GotoEffect DEF Here
<1>5. CASE call'[p] = [me EXCEPT !.got = got, !.attempts = 0, !.repeated = repeated,
                                 !.page = page, !.step = step]
  <2>1. \/ again /\ step = "fetching" /\ page = me.page /\ repeated = me.repeated \cup {me.page}
        \/ /\ me.page < PageCount(me.client) /\ step = "fetching" /\ page = me.page + 1
           /\ repeated = me.repeated
        \/ /\ me.page = PageCount(me.client) /\ step = "returned" /\ page = me.page
           /\ repeated = me.repeated
    <3> HIDE DEF again
    <3>1. CASE again
      BY <3>1
    <3>2. CASE ~again /\ me.page < PageCount(me.client)
      <4>1. me.page # PageCount(me.client)
        BY <1>2, <3>2
      <4> QED  BY <3>2, <4>1
    <3>3. CASE ~again /\ me.page = PageCount(me.client)
      <4>1. ~(me.page < PageCount(me.client))
        BY <1>2, <3>3
      <4> QED  BY <3>3, <4>1
    <3> QED  BY <1>2, <3>1, <3>2, <3>3
  <2> HIDE DEF got, repeated, page, step, again
  <2>2. /\ call'[p].client = me.client /\ call'[p].completed = me.completed
        /\ call'[p].got = got /\ call'[p].repeated = repeated
        /\ call'[p].page = page /\ call'[p].step = step /\ call'[p] # NoCall
        /\ call'[p].timedOut = me.timedOut
    BY <1>1, <1>5 DEF Call, NoCall
  <2>3. /\ call'[p].got = Merge(me.got, PageEvents(me.client, me.page))
        /\ again => me.page \in me.client.repeats \ me.repeated
    BY <2>2 DEF got, again
  <2> QED  BY <1>1, <1>3, <2>1, <2>2, <2>3
<1> QED  BY <1>1, <1>4, <1>5 DEF Take, TypeOK

-----------------------------------------------------------------------------
(***************************************************************************)
(* The invariant holds.                                                    *)
(***************************************************************************)
LEMMA ReceiveEffect ==
    ASSUME Inv, NEW p \in Calls, Receive(p)
    PROVE  /\ call[p] # NoCall /\ call[p].step = "fetching"
           /\ call'[p] # NoCall /\ call'[p].step = "recording" /\ Here(p)' = Here(p)
           /\ call'[p].timedOut = call[p].timedOut
           /\ PageKey(p) \notin call[p].completed
           /\ UNCHANGED object
           /\ upload'[p] = "sending"
           /\ item'[p] = <<PageUri(call[p].page), PageEvents(call[p].client, call[p].page)>>
           /\ recorded'[p] = Append(recorded[p], PageKey(p))
           /\ call[p].page <= PageCount(call[p].client)
<1>1. TypeOK /\ call[p] # NoCall /\ call[p].step = "fetching" /\ CursorInv(p)
  BY DEF Receive, Answers, At, NoCall, Inv
<1>2. /\ call'[p] # NoCall /\ call'[p].step = "recording" /\ Here(p)' = Here(p)
      /\ call'[p].timedOut = call[p].timedOut
  BY <1>1, GotoEffect DEF Receive
<1>3. call[p].page <= PageCount(call[p].client)
  <2>1. call[p].page \in 1..PageCount(call[p].client) /\ PageCount(call[p].client) \in Int
    BY <1>1, PageOfCall DEF Receive
  <2> QED  BY <2>1
<1> QED  BY <1>1, <1>2, <1>3, PageAssumption
         DEF Receive, NewPage, BeginUpload, TypeOK, RawTypeOK

\* The other steps of a call.
LEMMA MoveEffect ==
    ASSUME Inv, NEW p \in Calls, BeyondSnapshot(p) \/ ReceiveAgain(p)
    PROVE  /\ call[p] # NoCall /\ call[p].step = "fetching"
           /\ call'[p] # NoCall /\ Here(p)' = Here(p)
           /\ call'[p].timedOut = call[p].timedOut
           /\ UNCHANGED <<object, upload, item, recorded>>
           /\ \/ call'[p].step = "failed"
              \/ call'[p].step = "taking" /\ PageKey(p) \in call[p].completed
<1>1. TypeOK /\ call[p] # NoCall /\ call[p].step = "fetching"
  BY DEF BeyondSnapshot, ReceiveAgain, Answers, At, NoCall, Inv
<1> QED  BY <1>1, GotoEffect
         DEF BeyondSnapshot, ReceiveAgain, AfterRepeat, NewPage, rawVars

LEMMA DiesEffect ==
    ASSUME Inv, NEW p \in Calls, Dies(p)
    PROVE  /\ call[p] # NoCall /\ call'[p] # NoCall /\ call'[p].step = "dead"
           /\ Here(p)' = Here(p)
           /\ UNCHANGED <<object, recorded>> /\ upload'[p] = "idle"
<1>1. TypeOK /\ call[p] # NoCall
  BY DEF Dies, Running, NoCall, Inv
<1> QED  BY <1>1, GotoEffect, ReleaseFrame DEF Dies

LEMMA CursorStep ==
    ASSUME Inv, NEW p \in Calls, StepOf(p)
    PROVE  CursorInv(p)'
<1>0. TypeOK /\ CursorInv(p)
  BY DEF Inv
<1>1. CASE Begin(p)
  <2>1. PICK c \in Clients : call'[p] = NewCall(c)
    BY <1>0, <1>1, BeginEffect
  <2>2. /\ call'[p].step = "fetching" /\ call'[p].page = 1
        /\ call'[p].repeated = {} /\ call'[p].completed = {}
    BY <2>1 DEF NewCall
  <2> QED  BY <2>2 DEF CursorInv
<1>2. CASE TimesOut(p)
  BY <1>0, <1>2, TimesOutEffect DEF CursorInv, Here
<1>3. CASE BeyondSnapshot(p) \/ ReceiveAgain(p)
  BY <1>0, <1>3, MoveEffect DEF CursorInv, Here, PageKey
<1>4. CASE Receive(p)
  BY <1>0, <1>4, ReceiveEffect DEF CursorInv, Here
<1>5. CASE CallbackEnds(p)
  BY <1>0, <1>5, CallbackEffect DEF CursorInv, Here, PageKey
<1>6. CASE Take(p)
  <2>1. call[p].page \in Nat \ {0} /\ call[p].page <= PageCount(call[p].client)
        /\ PageCount(call[p].client) \in Int
    BY <1>0, <1>6, TakeEffect, PageOfCall DEF Call
  <2> QED  BY <1>0, <1>6, <2>1, TakeEffect DEF CursorInv, Here
<1>7. CASE UploadStep(p) /\ UNCHANGED pageVars
  BY <1>0, <1>7 DEF pageVars, CursorInv
<1>8. CASE Dies(p)
  BY <1>0, <1>8, DiesEffect DEF CursorInv, Here
<1> QED  BY <1>1, <1>2, <1>3, <1>4, <1>5, <1>6, <1>7, <1>8 DEF StepOf, CallStep

LEMMA UploadInvStep ==
    ASSUME Inv, NEW p \in Calls, StepOf(p)
    PROVE  UploadInv(p)'
<1>0. TypeOK /\ UploadInv(p) /\ CursorInv(p)
  BY DEF Inv
<1> USE DEF UploadInv, At
<1>1. CASE Begin(p)
  <2>1. PICK c \in Clients : call'[p] = NewCall(c)
    BY <1>0, <1>1, BeginEffect
  <2>2. call'[p].step = "fetching"
    BY <2>1 DEF NewCall
  <2> QED  BY <1>0, <1>1, <2>2, BeginEffect
<1>2. CASE TimesOut(p)
  BY <1>0, <1>2, TimesOutEffect DEF TimesOut, rawVars
<1>3. CASE BeyondSnapshot(p) \/ ReceiveAgain(p)
  BY <1>0, <1>3, MoveEffect
<1>4. CASE Receive(p)
  BY <1>0, <1>4, ReceiveEffect DEF Here
<1>5. CASE CallbackEnds(p)
  BY <1>0, <1>5, CallbackEffect
<1>6. CASE Take(p)
  BY <1>0, <1>6, TakeEffect
<1>7. CASE UploadStep(p) /\ UNCHANGED pageVars
  BY <1>0, <1>7, UploadFrame DEF pageVars
<1>8. CASE Dies(p)
  BY <1>0, <1>8, DiesEffect
<1> QED  BY <1>1, <1>2, <1>3, <1>4, <1>5, <1>6, <1>7, <1>8 DEF StepOf, CallStep

\* What a call knows to be stored stays stored.
LEMMA PageKept ==
    ASSUME Kept, NEW c \in Clients, NEW k \in 1..PageCount(c),
           object[PageUri(k)] = PageEvents(c, k)
    PROVE  object'[PageUri(k)] = PageEvents(c, k)
BY PageAssumption, SumAssumption DEF Kept

LEMMA InvStep ==
    ASSUME Inv, [Next]_vars
    PROVE  Inv'
<1>0. TypeOK'
  BY TypeStep
<1>1. CASE UNCHANGED vars
  BY <1>0, <1>1 DEF Inv, CursorInv, UploadInv, At, vars, rawVars, pageVars
<1>2. ASSUME NEW p \in Calls, StepOf(p), NEW q \in Calls
      PROVE  CursorInv(q)' /\ UploadInv(q)'
  <2>1. CASE q = p
    BY <1>2, <2>1, CursorStep, UploadInvStep
  <2>2. CASE q # p
    <3>1. SameCall(q) /\ Kept /\ TypeOK /\ CursorInv(q) /\ UploadInv(q)
      BY <1>2, <2>2, Frame DEF Inv
    <3>2. CursorInv(q)'
      BY <3>1 DEF CursorInv, SameCall
    <3>3. upload[q] = "landed" =>
              object'[PageUri(call[q].page)] = PageEvents(call[q].client, call[q].page)
      <4> SUFFICES ASSUME upload[q] = "landed"
                   PROVE  object'[PageUri(call[q].page)] =
                              PageEvents(call[q].client, call[q].page)
        OBVIOUS
      <4>1. call[q] # NoCall /\ call[q].step = "recording"
        BY <3>1 DEF UploadInv, At, NoCall
      <4>2. call[q].client \in Clients /\ call[q].page \in 1..PageCount(call[q].client)
        BY <3>1, <4>1, PageOfCall
      <4> QED  BY <3>1, <4>2, PageKept DEF UploadInv
    <3>4. UploadInv(q)'
      BY <3>1, <3>3 DEF UploadInv, SameCall, At
    <3> QED  BY <3>2, <3>4
  <2> QED  BY <2>1, <2>2
<1> QED  BY <1>0, <1>1, <1>2 DEF Inv, Next, StepOf

LEMMA InvInit == Init => Inv
<1> SUFFICES ASSUME Init PROVE Inv
  OBVIOUS
<1>1. RawTypeOK
  BY DEF Init, RawInit, RawTypeOK, UploadState
<1>2. TypeOK
  <2>1. <<>> \in Seq(Key) /\ MaxDeaths \in Nat
    BY PageAssumption
  <2> QED  BY <1>1, <2>1 DEF Init, TypeOK
<1>3. ASSUME NEW p \in Calls
      PROVE  CursorInv(p) /\ UploadInv(p)
  BY PageAssumption DEF Init, RawInit, CursorInv, UploadInv, At, NoCall
<1> QED  BY <1>2, <1>3 DEF Inv

LEMMA InvCorrect == Spec => []Inv
BY InvInit, InvStep, PTL DEF Spec

\* The variables of every call, and the bucket, have their types.
THEOREM TypeCorrect == Spec => []TypeOK
<1>1. Inv => TypeOK
  BY DEF Inv
<1> QED  BY <1>1, InvCorrect, PTL

-----------------------------------------------------------------------------
(***************************************************************************)
(* What a call holds: of each id, the event of the first page that has it. *)
(***************************************************************************)
Gives(c, ks, got) ==
    /\ DOMAIN got = UNION {Ids(PageEvents(c, k)) : k \in ks}
    /\ \A id \in DOMAIN got : \E k \in ks :
           /\ id \in Ids(PageEvents(c, k))
           /\ \A j \in ks : j < k => id \notin Ids(PageEvents(c, j))
           /\ got[id] = FirstOf(PageEvents(c, k), id)

\* The pages whose events a call has taken.
Merged(p) ==
    {k \in 1..PageCount(call[p].client) :
        \/ k < call[p].page
        \/ k = call[p].page /\ (k \in call[p].repeated \/ At(p, "returned"))}

Completed(p) == {key[1] : key \in call[p].completed}

LandedInv(p) ==
    call[p] # NoCall =>
        /\ \A k \in Completed(p) : object[PageUri(k)] = PageEvents(call[p].client, k)
        /\ Merged(p) \subseteq Completed(p)
        /\ At(p, "taking") => call[p].page \in Completed(p)

GotInv(p) == call[p] # NoCall => Gives(call[p].client, Merged(p), call[p].got)

RecordInv(p) ==
    /\ IsInjective(recorded[p])
    /\ call[p] # NoCall /\ Running(p) =>
           Range(recorded[p]) \subseteq
               call[p].completed \cup (IF At(p, "recording") THEN {PageKey(p)} ELSE {})

PageInv == \A p \in Calls : LandedInv(p) /\ GotInv(p) /\ RecordInv(p)

\* Merging the next page, or the last one again.
LEMMA GivesMerge ==
    ASSUME NEW c, NEW ks, NEW got, Gives(c, ks, got), ks \subseteq Int,
           NEW page \in Int, \A k \in ks : k <= page
    PROVE  Gives(c, ks \cup {page}, Merge(got, PageEvents(c, page)))
<1> DEFINE all == ks \cup {page}
           merged == Merge(got, PageEvents(c, page))
           names(k) == Ids(PageEvents(c, k))
<1>1. DOMAIN got = UNION {names(k) : k \in ks}
  BY DEF Gives
<1>2. DOMAIN merged = DOMAIN got \cup names(page)
  BY DEF Merge
<1>3. DOMAIN merged = UNION {names(k) : k \in all}
  <2> HIDE DEF names
  <2> QED  BY <1>1, <1>2
<1>4. ASSUME NEW id \in DOMAIN got
      PROVE  \E k \in all : /\ id \in names(k)
                            /\ \A j \in all : j < k => id \notin names(j)
                            /\ merged[id] = FirstOf(PageEvents(c, k), id)
  <2>1. PICK k \in ks : /\ id \in names(k)
                        /\ \A j \in ks : j < k => id \notin names(j)
                        /\ got[id] = FirstOf(PageEvents(c, k), id)
    BY DEF Gives
  <2>2. merged[id] = got[id]
    BY <1>2 DEF Merge
  <2>3. ~(page < k)
    OBVIOUS
  <2> HIDE DEF merged, names
  <2> QED  BY <2>1, <2>2, <2>3
<1>5. ASSUME NEW id \in DOMAIN merged, id \notin DOMAIN got
      PROVE  \E k \in all : /\ id \in names(k)
                            /\ \A j \in all : j < k => id \notin names(j)
                            /\ merged[id] = FirstOf(PageEvents(c, k), id)
  <2>1. id \in names(page)
    BY <1>2, <1>5
  <2>2. \A j \in ks : id \notin names(j)
    <3> HIDE DEF names
    <3> QED  BY <1>1, <1>5
  <2>3. merged[id] = FirstOf(PageEvents(c, page), id)
    BY <1>2, <1>5 DEF Merge
  <2>4. ~(page < page)
    OBVIOUS
  <2> HIDE DEF merged, names
  <2> QED  BY <2>1, <2>2, <2>3, <2>4
<1> QED  BY <1>3, <1>4, <1>5 DEF Gives

\* The pages determine what the call holds.
LEMMA GivesUnique ==
    ASSUME NEW c, NEW d, NEW ks, ks \subseteq Int, NEW f, NEW g,
           f = [id \in DOMAIN f |-> f[id]], g = [id \in DOMAIN g |-> g[id]],
           Gives(c, ks, f), Gives(d, ks, g),
           \A k \in ks : PageEvents(c, k) = PageEvents(d, k)
    PROVE  f = g
<1>1. DOMAIN f = DOMAIN g
  BY DEF Gives
<1>2. ASSUME NEW id \in DOMAIN f
      PROVE  f[id] = g[id]
  <2>1. PICK k \in ks : /\ id \in Ids(PageEvents(c, k))
                        /\ \A j \in ks : j < k => id \notin Ids(PageEvents(c, j))
                        /\ f[id] = FirstOf(PageEvents(c, k), id)
    BY DEF Gives
  <2>2. PICK l \in ks : /\ id \in Ids(PageEvents(d, l))
                        /\ \A j \in ks : j < l => id \notin Ids(PageEvents(d, j))
                        /\ g[id] = FirstOf(PageEvents(d, l), id)
    BY <1>1 DEF Gives
  <2>3. ~(k < l) /\ ~(l < k) /\ k \in Int /\ l \in Int
    BY <2>1, <2>2
  <2>4. k = l
    BY <2>3
  <2> QED  BY <2>1, <2>2, <2>4
<1> QED  BY <1>1, <1>2

\* What collect_unique_events makes of the iteration of a whole snapshot: of
\* each id the first event, page after page.
LEMMA CollectGives ==
    ASSUME NEW c \in Clients, PageCount(c) \in Nat \ {0}
    PROVE  Gives(c, 1..PageCount(c), CollectUniqueEvents(IterEvents(c)))
<1> DEFINE n == PageCount(c)
           S == {c.events[i] : i \in Int}
           page(k) == PageEvents(c, k)
           part(k) == IF k \in c.repeats THEN page(k) \o page(k) ELSE page(k)
           parts == [k \in 1..n |-> part(k)]
<1>1. \A k \in 1..n : page(k) \in Seq(S)
  BY PageOfEvents
<1> HIDE DEF S, page
<1>2. \A k \in 1..n : part(k) \in Seq(S)
  <2> SUFFICES ASSUME NEW k \in 1..n
               PROVE  part(k) \in Seq(S)
    OBVIOUS
  <2>1. page(k) \in Seq(S)
    BY <1>1
  <2>2. page(k) \o page(k) \in Seq(S)
    BY <2>1, ConcatProperties
  <2> QED  BY <2>1, <2>2
<1>3. parts \in [1..n -> Seq(S)] /\ \A k \in 1..n : parts[k] = part(k)
  <2> HIDE DEF part, n
  <2> QED  BY <1>2
<1>4. IterEvents(c) = FlattenSeq(parts)
  BY DEF IterEvents, page
<1> HIDE DEF parts, n
<1>5. n \in Nat \ {0}
  BY DEF n
<1>6. PICK f : /\ f[1] = parts[1]
               /\ \A i \in 2..n : f[i] = f[i-1] \o parts[i]
               /\ FlattenSeq(parts) = f[n]
  BY <1>3, <1>5, FlattenSteps
<1> DEFINE collected(k) == CollectUniqueEvents(f[k])
           Bad == {k \in 1..n : ~(f[k] \in Seq(S) /\ Gives(c, 1..k, collected(k)))}
\* A part adds what its page adds.
<1>7. ASSUME NEW s \in Seq(S), NEW k \in 1..n
      PROVE  /\ s \o part(k) \in Seq(S)
             /\ CollectUniqueEvents(s \o part(k)) = Merge(CollectUniqueEvents(s), page(k))
  <2>1. page(k) \in Seq(S) /\ part(k) \in Seq(S)
    BY <1>1, <1>2
  <2>2. s \o page(k) \in Seq(S)
        /\ CollectUniqueEvents(s \o page(k)) = Merge(CollectUniqueEvents(s), page(k))
    BY <2>1, ConcatProperties, CollectConcat
  <2>3. (s \o page(k)) \o page(k) = s \o (page(k) \o page(k))
    BY <2>1, ConcatAssociative
  <2>4. CollectUniqueEvents((s \o page(k)) \o page(k))
            = Merge(CollectUniqueEvents(s \o page(k)), page(k))
    BY <2>1, <2>2, CollectConcat
  <2>5. CollectUniqueEvents(s \o (page(k) \o page(k))) = Merge(CollectUniqueEvents(s), page(k))
    BY <2>2, <2>3, <2>4, MergeTwice
  <2>6. s \o part(k) \in Seq(S)
    BY <2>1, ConcatProperties
  <2> QED  BY <2>2, <2>5, <2>6
<1>8. Bad = {}
  <2> SUFFICES ASSUME Bad # {}
               PROVE  FALSE
    OBVIOUS
  <2>1. Bad \subseteq Nat
    BY <1>5
  <2>2. PICK k \in Bad : \A l \in Bad : k <= l
    <3> HIDE DEF Bad
    <3> QED  BY <2>1, Least
  <2>3. k \in 1..n /\ k \in Int
    OBVIOUS
  <2>4. CASE k = 1
    <3>1. <<>> \in Seq(S) /\ <<>> \o part(1) = part(1) /\ f[1] = part(1)
      <4>1. f[1] = part(1) /\ part(1) \in Seq(S)
        BY <1>2, <1>3, <1>6, <2>3, <2>4
      <4> HIDE DEF part
      <4> QED  BY <4>1, ConcatEmptySeq, EmptySeq
    <3> DEFINE none == CollectUniqueEvents(<<>>)
    <3>2. f[1] \in Seq(S) /\ collected(1) = Merge(none, page(1))
      BY <1>7, <2>3, <2>4, <3>1
    <3>3. Gives(c, {}, none)
      <4>1. DOMAIN <<>> = {}
        OBVIOUS
      <4>2. DOMAIN none = {}
        BY <4>1 DEF CollectUniqueEvents, Ids
      <4> HIDE DEF none
      <4> QED  BY <4>2 DEF Gives
    <3>4. Gives(c, {} \cup {1}, Merge(none, page(1)))
      <4> HIDE DEF none
      <4> QED  BY <3>3, GivesMerge DEF page
    <3>5. {} \cup {1} = 1..1
      OBVIOUS
    <3> QED  BY <2>2, <2>4, <3>2, <3>4, <3>5
  <2>5. CASE k # 1
    <3>1. k \in 2..n /\ k - 1 \in 1..n /\ ~(k <= k - 1)
      BY <1>5, <2>3, <2>5
    <3>2. k - 1 \notin Bad
      <4> HIDE DEF Bad
      <4> QED  BY <2>2, <3>1
    <3>3. f[k-1] \in Seq(S) /\ Gives(c, 1..(k-1), collected(k-1))
      BY <3>1, <3>2
    <3>4. f[k] = f[k-1] \o part(k)
      BY <1>3, <1>6, <2>3, <3>1
    <3>5. f[k] \in Seq(S) /\ collected(k) = Merge(collected(k-1), page(k))
      BY <1>7, <2>3, <3>3, <3>4
    <3>6. Gives(c, (1..(k-1)) \cup {k}, Merge(collected(k-1), page(k)))
      <4>1. 1..(k-1) \subseteq Int /\ \A j \in 1..(k-1) : j <= k
        BY <2>3
      <4> HIDE DEF collected
      <4> QED  BY <2>3, <3>3, <4>1, GivesMerge DEF page
    <3>7. (1..(k-1)) \cup {k} = 1..k
      BY <3>1
    <3> QED  BY <2>2, <3>5, <3>6, <3>7
  <2> QED  BY <2>4, <2>5
<1>9. n \in 1..n
  BY <1>5
<1>10. Gives(c, 1..n, collected(n))
  BY <1>8, <1>9
<1> QED  BY <1>4, <1>6, <1>10 DEF n

-----------------------------------------------------------------------------
(***************************************************************************)
(* Steps that leave the pages alone, and the two that do not.              *)
(***************************************************************************)
LEMMA SameHere ==
    ASSUME NEW p \in Calls, Here(p)' = Here(p), ~At(p, "returned"), ~At(p, "returned")',
           LandedInv(p), GotInv(p), call[p] # NoCall, UNCHANGED object,
           At(p, "taking")' => call[p].page \in Completed(p)
    PROVE  LandedInv(p)' /\ GotInv(p)'
<1>1. Merged(p)' = Merged(p) /\ Completed(p)' = Completed(p)
  BY DEF Here, Merged, Completed
<1>2. /\ call'[p].client = call[p].client /\ call'[p].page = call[p].page
      /\ call'[p].got = call[p].got
  BY DEF Here
<1> QED  BY <1>1, <1>2 DEF LandedInv, GotInv

LEMMA BeginPages ==
    ASSUME Inv, NEW p \in Calls, Begin(p)
    PROVE  LandedInv(p)' /\ GotInv(p)' /\ RecordInv(p)'
<1>1. TypeOK
  BY DEF Inv
<1>2. PICK c \in Clients : call'[p] = NewCall(c)
  BY <1>1, BeginEffect
<1>3. /\ call'[p].step = "fetching" /\ call'[p].page = 1 /\ call'[p].repeated = {}
      /\ call'[p].completed = {} /\ call'[p].got = Nothing /\ call'[p].client = c
  BY <1>2 DEF NewCall
<1>4. Completed(p)' = {}
  BY <1>3 DEF Completed
<1>5. Merged(p)' = {}
  <2>1. \A k \in 1..PageCount(c) : ~(k < 1)
    OBVIOUS
  <2> QED  BY <1>3, <2>1 DEF Merged, At
<1>6. recorded'[p] = <<>>
  BY <1>1 DEF Begin, TypeOK
<1>7. DOMAIN Nothing = {}
  BY DEF Nothing
<1>8. Gives(c, {}, Nothing)
  BY <1>7 DEF Gives
<1>9. LandedInv(p)' /\ GotInv(p)'
  BY <1>3, <1>4, <1>5, <1>8 DEF LandedInv, GotInv, At
<1>10. RecordInv(p)'
  <2>1. DOMAIN recorded'[p] = {}
    BY <1>6
  <2> QED  BY <2>1 DEF RecordInv, IsInjective, Range
<1> QED  BY <1>9, <1>10

\* The page just landed is completed.
LEMMA CallbackPages ==
    ASSUME Inv, NEW p \in Calls, LandedInv(p), GotInv(p), CallbackEnds(p)
    PROVE  LandedInv(p)' /\ GotInv(p)'
<1>1. TypeOK /\ UploadInv(p)
  BY DEF Inv
<1>2. /\ call[p] # NoCall /\ call[p].step = "recording" /\ call'[p] # NoCall
      /\ UNCHANGED object
  BY <1>1, CallbackEffect
<1>3. CASE call'[p].step = "failed" /\ Here(p)' = Here(p)
  BY <1>2, <1>3, SameHere DEF At
<1>4. CASE /\ upload[p] = "landed"
           /\ call'[p].step = "taking"
           /\ call'[p].completed = call[p].completed \cup {PageKey(p)}
           /\ call'[p].client = call[p].client /\ call'[p].page = call[p].page
           /\ call'[p].repeated = call[p].repeated /\ call'[p].got = call[p].got
  <2>1. Merged(p)' = Merged(p)
    BY <1>2, <1>4 DEF Merged, At
  <2>2. Completed(p)' = Completed(p) \cup {call[p].page}
    <3>1. PageKey(p)[1] = call[p].page
      BY DEF PageKey
    <3> QED  BY <1>4, <3>1 DEF Completed
  <2>3. object[PageUri(call[p].page)] = PageEvents(call[p].client, call[p].page)
    BY <1>1, <1>4 DEF UploadInv
  <2>4. \A k \in Completed(p)' : object[PageUri(k)] = PageEvents(call[p].client, k)
    BY <1>2, <2>2, <2>3 DEF LandedInv
  <2> QED  BY <1>2, <1>4, <2>1, <2>2, <2>4 DEF LandedInv, GotInv
<1> QED  BY <1>1, <1>3, <1>4, CallbackEffect

\* The page just taken is merged.
LEMMA TakePages ==
    ASSUME Inv, NEW p \in Calls, LandedInv(p), GotInv(p), Take(p)
    PROVE  LandedInv(p)' /\ GotInv(p)'
<1> DEFINE me == call[p]
           next == call'[p]
<1>1. TypeOK /\ CursorInv(p)
  BY DEF Inv
<1>2. /\ me # NoCall /\ me.step = "taking" /\ next # NoCall
      /\ UNCHANGED object
      /\ next.client = me.client /\ next.completed = me.completed
  BY TakeEffect
<1>3. /\ PageCount(me.client) \in Int /\ me.page \in 1..PageCount(me.client)
      /\ me \in Call
  BY <1>1, <1>2, PageOfCall
<1>4. CASE next.step = "failed" /\ Here(p)' = Here(p)
  BY <1>2, <1>4, SameHere DEF At
<1>5. CASE /\ next.got = Merge(me.got, PageEvents(me.client, me.page))
           /\ \/ /\ next.step = "fetching" /\ next.page = me.page
                 /\ next.repeated = me.repeated \cup {me.page}
              \/ /\ next.step = "fetching" /\ next.page = me.page + 1
                 /\ me.page < PageCount(me.client)
                 /\ next.repeated = me.repeated
              \/ /\ next.step = "returned" /\ next.page = me.page
                 /\ me.page = PageCount(me.client)
                 /\ next.repeated = me.repeated
  <2>1. me.repeated \subseteq 1..me.page
    BY <1>1, <1>2 DEF CursorInv
  <2>2. me.page \in Int /\ me.page + 1 \notin me.repeated
    BY <1>3, <2>1
  <2>3. ASSUME NEW k \in 1..PageCount(me.client)
        PROVE  k \in Merged(p)' <=> k \in Merged(p) \/ k = me.page
    <3>1. k \in Merged(p) <=> k < me.page \/ (k = me.page /\ k \in me.repeated)
      BY <1>2 DEF Merged, At
    <3>2. k \in Merged(p)' <=>
              k < next.page \/ (k = next.page /\ (k \in next.repeated \/ next.step = "returned"))
      BY <1>2 DEF Merged, At
    <3>3. CASE /\ next.step = "fetching" /\ next.page = me.page
               /\ next.repeated = me.repeated \cup {me.page}
      BY <3>1, <3>2, <3>3
    <3>4. CASE /\ next.step = "fetching" /\ next.page = me.page + 1
               /\ next.repeated = me.repeated
      <4>1. k < me.page + 1 <=> k < me.page \/ k = me.page
        BY <1>3
      <4> QED  BY <2>2, <3>1, <3>2, <3>4, <4>1
    <3>5. CASE /\ next.step = "returned" /\ next.page = me.page
               /\ next.repeated = me.repeated
      BY <3>1, <3>2, <3>5
    <3> QED  BY <1>5, <3>3, <3>4, <3>5
  <2>4. Merged(p) \subseteq 1..PageCount(me.client) /\ Merged(p)' \subseteq 1..PageCount(me.client)
    BY <1>2 DEF Merged
  <2>5. Merged(p)' = Merged(p) \cup {me.page}
    BY <1>3, <2>3, <2>4
  <2>6. \A k \in Merged(p) : k \in Int /\ k <= me.page
    BY <1>3 DEF Merged
  <2>7. Gives(me.client, Merged(p)', next.got)
    <3> HIDE DEF me, next
    <3>1. Gives(me.client, Merged(p), me.got)
      BY <1>2 DEF GotInv, me
    <3>2. Gives(me.client, Merged(p) \cup {me.page}, Merge(me.got, PageEvents(me.client, me.page)))
      BY <2>2, <2>6, <3>1, GivesMerge
    <3> QED  BY <1>5, <2>5, <3>2
  <2>8. Completed(p)' = Completed(p) /\ me.page \in Completed(p) /\ ~At(p, "taking")'
    BY <1>2, <1>5 DEF Completed, LandedInv, At
  <2> QED  BY <1>2, <2>5, <2>7, <2>8 DEF LandedInv, GotInv
<1> QED  BY <1>4, <1>5, TakeEffect

LEMMA PagesStep ==
    ASSUME Inv, PageInv, NEW p \in Calls, StepOf(p)
    PROVE  LandedInv(p)' /\ GotInv(p)'
<1>0. TypeOK /\ LandedInv(p) /\ GotInv(p) /\ CursorInv(p)
  BY DEF Inv, PageInv
<1>1. CASE Begin(p)
  BY <1>1, BeginPages
<1>2. CASE TimesOut(p)
  <2>1. UNCHANGED object
    BY <1>2 DEF TimesOut, rawVars
  <2> QED  BY <1>0, <1>2, <2>1, TimesOutEffect, SameHere DEF At
<1>3. CASE BeyondSnapshot(p) \/ ReceiveAgain(p)
  <2>1. PageKey(p) \in call[p].completed => call[p].page \in Completed(p)
    BY DEF PageKey, Completed
  <2> QED  BY <1>0, <1>3, <2>1, MoveEffect, SameHere DEF At
<1>4. CASE Receive(p)
  BY <1>0, <1>4, ReceiveEffect, SameHere DEF At
<1>5. CASE CallbackEnds(p)
  BY <1>0, <1>5, CallbackPages
<1>6. CASE Take(p)
  BY <1>0, <1>6, TakePages
<1>7. CASE UploadStep(p) /\ UNCHANGED pageVars
  <2> SUFFICES ASSUME call[p] # NoCall
               PROVE  LandedInv(p)' /\ GotInv(p)'
    BY <1>7 DEF pageVars, LandedInv, GotInv
  <2>1. Merged(p)' = Merged(p) /\ Completed(p)' = Completed(p) /\ UNCHANGED call
    BY <1>7 DEF pageVars, Merged, Completed, At
  <2>2. Kept
    BY <1>0, <1>7, UploadFrame
  <2>3. call[p].client \in Clients
    BY <1>0 DEF TypeOK, Call
  <2>4. \A k \in Completed(p) : k \in 1..PageCount(call[p].client)
    <3>1. ASSUME NEW key \in call[p].completed
          PROVE  key[1] \in 1..PageCount(call[p].client)
      <4>1. key[1] \in Nat \ {0} /\ key[1] <= PageCount(call[p].client)
        BY <1>0 DEF TypeOK, Call, Key, CursorInv
      <4>2. PageCount(call[p].client) \in Int
        BY <2>3, PageAssumption DEF PageCount
      <4> QED  BY <4>1, <4>2
    <3> QED  BY <3>1 DEF Completed
  <2>5. \A k \in Completed(p) : object'[PageUri(k)] = PageEvents(call[p].client, k)
    BY <1>0, <2>2, <2>3, <2>4, PageKept DEF LandedInv
  <2> QED  BY <1>0, <2>1, <2>5 DEF LandedInv, GotInv, At
<1>8. CASE Dies(p)
  <2>1. call[p].step # "returned"
    BY <1>8 DEF Dies, Running
  <2> QED  BY <1>0, <1>8, <2>1, DiesEffect, SameHere DEF At
<1> QED  BY <1>1, <1>2, <1>3, <1>4, <1>5, <1>6, <1>7, <1>8 DEF StepOf, CallStep

-----------------------------------------------------------------------------
(***************************************************************************)
(* What the callback was handed.                                           *)
(***************************************************************************)
LEMMA RecordReceived ==
    ASSUME Inv, NEW p \in Calls, RecordInv(p), Receive(p)
    PROVE  RecordInv(p)'
<1> DEFINE key == PageKey(p)
           old == recorded[p]
           new == recorded'[p]
<1>1. /\ call[p] # NoCall /\ call[p].step = "fetching" /\ call'[p].step = "recording"
      /\ Here(p)' = Here(p) /\ key \notin call[p].completed /\ new = Append(old, key)
  BY ReceiveEffect
<1>2. old \in Seq(Key) /\ IsInjective(old) /\ Range(old) \subseteq call[p].completed
  BY <1>1 DEF Inv, TypeOK, RecordInv, Running, At
<1>3. \A i \in DOMAIN old : old[i] \in call[p].completed
  BY <1>2 DEF Range
<1>4. /\ Len(old) \in Nat /\ DOMAIN old = 1..Len(old)
      /\ DOMAIN new = 1..(Len(old) + 1)
      /\ \A i \in 1..Len(old) : new[i] = old[i]
      /\ new[Len(old) + 1] = key
  <2>1. \E key2 : key2 = key
    OBVIOUS
  <2> HIDE DEF key
  <2> QED  BY <1>1, <1>2
<1>5. IsInjective(new)
  <2> SUFFICES ASSUME NEW a \in DOMAIN new, NEW b \in DOMAIN new, new[a] = new[b]
               PROVE  a = b
    BY DEF IsInjective
  <2> HIDE DEF key, old, new
  <2>1. CASE a \in 1..Len(old) /\ b \in 1..Len(old)
    BY <1>2, <1>4, <2>1 DEF IsInjective
  <2>2. CASE a = Len(old) + 1 /\ b \in 1..Len(old)
    BY <1>1, <1>3, <1>4, <2>2
  <2>3. CASE b = Len(old) + 1 /\ a \in 1..Len(old)
    BY <1>1, <1>3, <1>4, <2>3
  <2> QED  BY <1>4, <2>1, <2>2, <2>3
<1>6. Range(new) \subseteq call[p].completed \cup {key}
  <2> HIDE DEF key, old, new
  <2>1. ASSUME NEW i \in DOMAIN new
        PROVE  new[i] \in call[p].completed \cup {key}
    BY <1>3, <1>4
  <2> QED  BY <2>1 DEF Range
<1>7. call'[p].completed = call[p].completed /\ PageKey(p)' = key
  BY <1>1 DEF Here, PageKey
<1> QED  BY <1>1, <1>5, <1>6, <1>7 DEF RecordInv, At

LEMMA RecordStep ==
    ASSUME Inv, NEW p \in Calls, RecordInv(p), StepOf(p)
    PROVE  RecordInv(p)'
<1>0. TypeOK
  BY DEF Inv
<1> USE DEF RecordInv, Running, At
<1>1. CASE Begin(p)
  BY <1>1, BeginPages
<1>2. CASE TimesOut(p)
  <2>1. UNCHANGED recorded
    BY <1>2 DEF TimesOut
  <2> QED  BY <1>0, <1>2, <2>1, TimesOutEffect DEF Here
<1>3. CASE BeyondSnapshot(p) \/ ReceiveAgain(p)
  BY <1>0, <1>3, MoveEffect DEF Here
<1>4. CASE Receive(p)
  BY <1>4, RecordReceived
<1>5. CASE CallbackEnds(p)
  <2>1. UNCHANGED recorded
    BY <1>5 DEF CallbackEnds
  <2> QED  BY <1>0, <1>5, <2>1, CallbackEffect
<1>6. CASE Take(p)
  BY <1>6, TakeEffect
<1>7. CASE UploadStep(p) /\ UNCHANGED pageVars
  BY <1>7 DEF pageVars, PageKey
<1>8. CASE Dies(p)
  BY <1>8, DiesEffect
<1> QED  BY <1>1, <1>2, <1>3, <1>4, <1>5, <1>6, <1>7, <1>8 DEF StepOf, CallStep

LEMMA PageInvStep ==
    ASSUME Inv, PageInv, [Next]_vars
    PROVE  PageInv'
<1>1. CASE UNCHANGED vars
  BY <1>1 DEF vars, rawVars, pageVars, PageInv, LandedInv, GotInv, RecordInv, Merged,
              Completed, Running, At, PageKey
<1>2. ASSUME NEW p \in Calls, StepOf(p), NEW q \in Calls
      PROVE  LandedInv(q)' /\ GotInv(q)' /\ RecordInv(q)'
  <2>1. CASE q = p
    BY <1>2, <2>1, PagesStep, RecordStep DEF PageInv
  <2>2. CASE q # p
    <3>1. /\ SameCall(q) /\ Kept /\ TypeOK /\ CursorInv(q)
          /\ LandedInv(q) /\ GotInv(q) /\ RecordInv(q)
      BY <1>2, <2>2, Frame DEF Inv, PageInv
    <3>2. /\ Merged(q)' = Merged(q) /\ Completed(q)' = Completed(q)
          /\ call'[q] = call[q] /\ recorded'[q] = recorded[q]
      BY <3>1 DEF SameCall, Merged, Completed, At
    <3>3. GotInv(q)' /\ RecordInv(q)'
      BY <3>1, <3>2 DEF GotInv, RecordInv, Running, At, PageKey
    <3>4. ASSUME call[q] # NoCall, NEW k \in Completed(q)
          PROVE  object'[PageUri(k)] = PageEvents(call[q].client, k)
      <4>1. call[q] \in Call /\ call[q].client \in Clients
        BY <3>1, <3>4 DEF TypeOK, Call
      <4>2. PageCount(call[q].client) \in Int
        BY <4>1, PageAssumption DEF PageCount
      <4>3. k \in 1..PageCount(call[q].client)
        <5>1. PICK key \in call[q].completed : k = key[1]
          BY DEF Completed
        <5>2. key[1] \in Nat \ {0} /\ key[1] <= PageCount(call[q].client)
          BY <3>1, <3>4, <4>1 DEF Call, Key, CursorInv
        <5> QED  BY <4>2, <5>1, <5>2
      <4> QED  BY <3>1, <3>4, <4>1, <4>3, PageKept DEF LandedInv
    <3>5. LandedInv(q)'
      BY <3>1, <3>2, <3>4 DEF LandedInv, At
    <3> QED  BY <3>3, <3>5
  <2> QED  BY <2>1, <2>2
<1> QED  BY <1>1, <1>2 DEF PageInv, Next, StepOf

LEMMA PageInvCorrect == Spec => []PageInv
<1>1. Init => PageInv
  <2>1. DOMAIN <<>> = {}
    OBVIOUS
  <2> QED  BY <2>1 DEF Init, PageInv, LandedInv, GotInv, RecordInv, IsInjective
<1> QED  BY <1>1, InvCorrect, PageInvStep, PTL DEF Spec

-----------------------------------------------------------------------------
(***************************************************************************)
(* The properties.                                                         *)
(***************************************************************************)

\* In one call the callback is invoked once for each page and cursor, however
\* often the client delivers the page.
THEOREM RecordsOnce == Spec => []RecordedOnce
<1>1. PageInv => RecordedOnce
  BY DEF PageInv, RecordInv, RecordedOnce
<1> QED  BY <1>1, PageInvCorrect, PTL

\* Every event a call holds comes from a page that is an object of the bucket,
\* unchanged, whatever died and whoever else ingests the snapshot.
THEOREM TakesOnlyLanded == Spec => []TakenIsLanded
<1>1. ASSUME Inv, PageInv, NEW p \in Calls, call[p] # NoCall, NEW id \in DOMAIN call[p].got
      PROVE  \E key \in call[p].completed :
                 /\ object[PageUri(key[1])] = PageEvents(call[p].client, key[1])
                 /\ call[p].got[id] \in Range(object[PageUri(key[1])])
  <2>1. LandedInv(p) /\ GotInv(p) /\ call[p].client \in Clients
    BY <1>1 DEF PageInv, Inv, TypeOK, Call
  <2>2. PICK k \in Merged(p) :
            /\ id \in Ids(PageEvents(call[p].client, k))
            /\ call[p].got[id] = FirstOf(PageEvents(call[p].client, k), id)
    BY <1>1, <2>1 DEF GotInv, Gives
  <2>3. k \in 1..PageCount(call[p].client)
    BY DEF Merged
  <2>4. call[p].got[id] \in Range(PageEvents(call[p].client, k))
    BY <2>1, <2>2, <2>3, FirstOfPage
  <2>5. k \in Completed(p) /\ object[PageUri(k)] = PageEvents(call[p].client, k)
    BY <1>1, <2>1 DEF LandedInv
  <2> QED  BY <2>4, <2>5 DEF Completed
<1>2. Inv /\ PageInv => TakenIsLanded
  BY <1>1 DEF TakenIsLanded
<1> QED  BY <1>2, InvCorrect, PageInvCorrect, PTL

\* A call that returned has merged every page.
LEMMA ReturnedMergedAll ==
    ASSUME Inv, NEW p \in Calls, At(p, "returned")
    PROVE  /\ call[p] # NoCall /\ call[p].client \in Clients /\ call[p].got \in Results
           /\ Merged(p) = 1..PageCount(call[p].client)
<1>1. call[p] # NoCall
  BY DEF At, NoCall
<1>2. /\ call[p] \in Call /\ call[p].client \in Clients /\ call[p].got \in Results
      /\ call[p].page \in Int
  BY <1>1 DEF Inv, TypeOK, Call
<1>3. call[p].page = PageCount(call[p].client)
  BY <1>1 DEF Inv, CursorInv, At
<1>4. \A k \in 1..PageCount(call[p].client) : k < call[p].page \/ k = call[p].page
  BY <1>2, <1>3
<1> QED  BY <1>1, <1>2, <1>4 DEF Merged

\* Whatever timeouts, repeated pages and reversed pages there were, and however
\* many pages, a call returns what collect_unique_events makes of iter_pages.
THEOREM ReturnsExactlyTheSnapshot == Spec => []ReturnsTheSnapshot
<1>1. ASSUME Inv, PageInv, NEW p \in Calls, At(p, "returned")
      PROVE  call[p].got = CollectUniqueEvents(IterEvents(call[p].client))
  <2> DEFINE c == call[p].client
             collected == CollectUniqueEvents(IterEvents(c))
  <2>1. /\ call[p] # NoCall /\ c \in Clients /\ call[p].got \in Results
        /\ Merged(p) = 1..PageCount(c)
    BY <1>1, ReturnedMergedAll
  <2>2. PageCount(c) \in Nat \ {0}
    <3>1. call[p].page \in Nat \ {0} /\ call[p].page = PageCount(c)
      BY <1>1, <2>1 DEF Inv, TypeOK, Call, CursorInv, At
    <3> QED  BY <3>1
  <2>3. Gives(c, 1..PageCount(c), call[p].got) /\ Gives(c, 1..PageCount(c), collected)
    BY <1>1, <2>1, <2>2, CollectGives DEF PageInv, GotInv
  <2>4. /\ call[p].got = [id \in DOMAIN call[p].got |-> call[p].got[id]]
        /\ collected = [id \in DOMAIN collected |-> collected[id]]
    <3>1. call[p].got = [id \in DOMAIN call[p].got |-> call[p].got[id]]
      BY <2>1 DEF Results
    <3>2. collected = [id \in DOMAIN collected |-> collected[id]]
      BY DEF CollectUniqueEvents
    <3> QED  BY <3>1, <3>2
  <2>5. 1..PageCount(c) \subseteq Int
    OBVIOUS
  <2> HIDE DEF c, collected
  <2> QED  BY <2>3, <2>4, <2>5, GivesUnique DEF c, collected
<1>2. Inv /\ PageInv => ReturnsTheSnapshot
  BY <1>1 DEF ReturnsTheSnapshot
<1> QED  BY <1>2, InvCorrect, PageInvCorrect, PTL

\* Replays of equally many pages agree: there is one object for each page.
THEOREM ReplaysReturnTheSame == Spec => []ReplaysAgree
<1>1. ASSUME Inv, PageInv, NEW p \in Calls, NEW q \in Calls,
             At(p, "returned"), At(q, "returned"),
             PageCount(call[p].client) = PageCount(call[q].client)
      PROVE  call[p].got = call[q].got
  <2> DEFINE pages == 1..PageCount(call[p].client)
  <2>1. /\ LandedInv(p) /\ GotInv(p) /\ LandedInv(q) /\ GotInv(q)
    BY <1>1 DEF PageInv
  <2>2. /\ call[p] # NoCall /\ call[p].got \in Results /\ Merged(p) = pages
        /\ call[q] # NoCall /\ call[q].got \in Results /\ Merged(q) = pages
    BY <1>1, ReturnedMergedAll
  <2>3. \A k \in pages : PageEvents(call[p].client, k) = PageEvents(call[q].client, k)
    <3> HIDE DEF pages
    <3> QED  BY <2>1, <2>2 DEF LandedInv
  <2>4. /\ Gives(call[p].client, pages, call[p].got)
        /\ Gives(call[q].client, pages, call[q].got)
    BY <2>1, <2>2 DEF GotInv
  <2>5. pages \subseteq Int
    OBVIOUS
  <2>6. \A f \in Results : f = [id \in DOMAIN f |-> f[id]]
    BY DEF Results
  <2> HIDE DEF pages
  <2> QED  BY <2>2, <2>3, <2>4, <2>5, <2>6, GivesUnique
<1>2. Inv /\ PageInv => ReplaysAgree
  BY <1>1 DEF ReplaysAgree
<1> QED  BY <1>2, InvCorrect, PageInvCorrect, PTL

-----------------------------------------------------------------------------
(***************************************************************************)
(* No call is busy for ever: every step uses one up.                       *)
(***************************************************************************)
\* The members of a set up to a number can be counted, and are one fewer when
\* one is taken away.
LEMMA FewerLeft ==
    ASSUME NEW n \in Int, NEW S, NEW T
    PROVE  /\ Remaining(n, S, T) \in Nat
           /\ \A j \in 1..n : j \in S \ T =>
                  Remaining(n, S, T \cup {j}) = Remaining(n, S, T) - 1
<1> DEFINE A == {k \in 1..n : k \in S \ T}
<1>1. IsFiniteSet(A)
  <2>1. IsFiniteSet(1..n) /\ A \in SUBSET (1..n)
    BY FS_Interval
  <2> HIDE DEF A
  <2> QED  BY <2>1, FS_Subset
<1>2. Cardinality(A) \in Nat
  <2> HIDE DEF A
  <2> QED  BY <1>1, FS_CardinalityType
<1>3. ASSUME NEW j \in 1..n, j \in S \ T
      PROVE  Remaining(n, S, T \cup {j}) = Cardinality(A) - 1
  <2>1. {k \in 1..n : k \in S \ (T \cup {j})} = A \ {j} /\ j \in A
    BY <1>3
  <2> HIDE DEF A
  <2>2. Remaining(n, S, T \cup {j}) = Cardinality(A \ {j})
    BY <2>1 DEF Remaining
  <2> QED  BY <1>1, <2>1, <2>2, FS_RemoveElement
<1>4. Remaining(n, S, T) = Cardinality(A)
  BY DEF Remaining
<1> HIDE DEF A
<1> QED  BY <1>2, <1>3, <1>4

\* What is before a call is a number; a timeout, a repetition and the turn of a
\* page make it smaller.
LEMMA LeftShrinks ==
    ASSUME Inv, NEW p \in Calls, call[p] # NoCall, NEW next,
           next.client = call[p].client
    PROVE  LET me == call[p]
           IN  /\ Left(me) \in Nat
               /\ /\ next.timedOut = me.timedOut /\ next.repeated = me.repeated
                  /\ next.page = me.page
                  => Left(next) = Left(me)
               /\ /\ next.timedOut = me.timedOut /\ next.repeated = me.repeated
                  /\ next.page = me.page + 1
                  => Left(next) = Left(me) - 1
               /\ /\ me.page \in me.client.timeouts \ me.timedOut
                  /\ next.timedOut = me.timedOut \cup {me.page}
                  /\ next.repeated = me.repeated /\ next.page = me.page
                  => Left(next) = Left(me) - 1
               /\ /\ me.page \in me.client.repeats \ me.repeated
                  /\ next.repeated = me.repeated \cup {me.page}
                  /\ next.timedOut = me.timedOut /\ next.page = me.page
                  => Left(next) = Left(me) - 1
<1> DEFINE me == call[p]
           n == PageCount(me.client) + 1
           Waits(T) == Remaining(n, me.client.timeouts, T)
           Again(T) == Remaining(n, me.client.repeats, T)
<1>1. me.client \in Clients /\ me.page \in Nat /\ me.page >= 1
  BY DEF Inv, TypeOK, Call
<1>2. PageCount(me.client) \in Nat
  BY <1>1, PagesCounted
<1>3. n \in Nat /\ me.page \in 1..n
  BY <1>1, <1>2 DEF Inv, CursorInv
<1>4. /\ Left(me) = Waits(me.timedOut) + Again(me.repeated) + (n - me.page)
      /\ Left(next) = Waits(next.timedOut) + Again(next.repeated) + (n - next.page)
  BY DEF Left
<1>5. /\ Waits(me.timedOut) \in Nat
      /\ me.page \in me.client.timeouts \ me.timedOut =>
             Waits(me.timedOut \cup {me.page}) = Waits(me.timedOut) - 1
  <2> HIDE DEF n, me
  <2> QED  BY <1>3, FewerLeft
<1>6. /\ Again(me.repeated) \in Nat
      /\ me.page \in me.client.repeats \ me.repeated =>
             Again(me.repeated \cup {me.page}) = Again(me.repeated) - 1
  <2> HIDE DEF n, me
  <2> QED  BY <1>3, FewerLeft
<1> HIDE DEF me, n, Waits, Again
<1>7. Left(me) \in Nat
  BY <1>3, <1>4, <1>5, <1>6
<1>8. /\ next.timedOut = me.timedOut /\ next.repeated = me.repeated /\ next.page = me.page
      => Left(next) = Left(me)
  BY <1>4
<1>9. /\ next.timedOut = me.timedOut /\ next.repeated = me.repeated
      /\ next.page = me.page + 1
      => Left(next) = Left(me) - 1
  BY <1>1, <1>3, <1>4, <1>5, <1>6
<1>10. /\ me.page \in me.client.timeouts \ me.timedOut
       /\ next.timedOut = me.timedOut \cup {me.page}
       /\ next.repeated = me.repeated /\ next.page = me.page
       => Left(next) = Left(me) - 1
  BY <1>1, <1>3, <1>4, <1>5, <1>6
<1>11. /\ me.page \in me.client.repeats \ me.repeated
       /\ next.repeated = me.repeated \cup {me.page}
       /\ next.timedOut = me.timedOut /\ next.page = me.page
       => Left(next) = Left(me) - 1
  BY <1>1, <1>3, <1>4, <1>5, <1>6
<1> QED  BY <1>7, <1>8, <1>9, <1>10, <1>11 DEF me

\* The steps that change what is before the call, or the step of its page, by
\* what they do to the call.
LEMMA CallShrinks ==
    ASSUME Inv, NEW p \in Calls, call[p] # NoCall,
           \/ TimesOut(p) \/ BeyondSnapshot(p) \/ Receive(p) \/ ReceiveAgain(p)
           \/ CallbackEnds(p) \/ Take(p)
    PROVE  StepsLeft(p)' < StepsLeft(p)
<1> DEFINE me == call[p]
           next == call'[p]
<1>1. StepsLeft(p) = 7 * Left(me) + StepsOfPage(p)
  BY DEF StepsLeft
<1>2. StepsLeft(p)' = 7 * Left(next) + StepsOfPage(p)'
  BY DEF StepsLeft
<1>3. StepsOfPage(p)' \in Nat /\ StepsOfPage(p)' <= 6
  BY DEF StepsOfPage
<1>4. TypeOK /\ Left(me) \in Nat
  BY LeftShrinks DEF Inv
<1>5. CASE TimesOut(p)
  <2>1. /\ me.step = "fetching" /\ next.client = me.client
        /\ me.page \in me.client.timeouts \ me.timedOut
        /\ next.timedOut = me.timedOut \cup {me.page}
        /\ next.repeated = me.repeated /\ next.page = me.page
    BY <1>4, <1>5, TimesOutEffect DEF Here
  <2>2. Left(next) = Left(me) - 1
    BY <2>1, LeftShrinks
  <2>3. StepsOfPage(p) = 6
    BY <2>1 DEF StepsOfPage, At
  <2> QED  BY <1>1, <1>2, <1>3, <1>4, <2>2, <2>3
<1>6. CASE BeyondSnapshot(p) \/ ReceiveAgain(p)
  <2>1. /\ me.step = "fetching" /\ next.client = me.client
        /\ next.timedOut = me.timedOut /\ next.repeated = me.repeated
        /\ next.page = me.page /\ next.step \in {"failed", "taking"}
    BY <1>6, MoveEffect DEF Here
  <2>2. Left(next) = Left(me)
    BY <2>1, LeftShrinks
  <2>3. StepsOfPage(p) = 6 /\ StepsOfPage(p)' \in {0, 1}
    BY <2>1 DEF StepsOfPage, At
  <2> QED  BY <1>1, <1>2, <1>4, <2>2, <2>3
<1>7. CASE Receive(p)
  <2>1. /\ me.step = "fetching" /\ next.client = me.client
        /\ next.timedOut = me.timedOut /\ next.repeated = me.repeated
        /\ next.page = me.page /\ next.step = "recording"
    BY <1>7, ReceiveEffect DEF Here
  <2>2. Left(next) = Left(me)
    BY <2>1, LeftShrinks
  <2>3. StepsOfPage(p) = 6 /\ StepsOfPage(p)' \in 2..5
    BY <2>1 DEF StepsOfPage, At
  <2> QED  BY <1>1, <1>2, <1>4, <2>2, <2>3
<1>8. CASE CallbackEnds(p)
  <2>1. /\ me.step = "recording" /\ next.client = me.client
        /\ next.timedOut = me.timedOut /\ next.repeated = me.repeated
        /\ next.page = me.page /\ next.step \in {"failed", "taking"}
        /\ upload[p] \in {"landed", "conflict", "failed"}
    BY <1>4, <1>8, CallbackEffect DEF Here
  <2>2. Left(next) = Left(me)
    BY <2>1, LeftShrinks
  <2>3. StepsOfPage(p) = 2 /\ StepsOfPage(p)' \in {0, 1}
    BY <2>1 DEF StepsOfPage, At
  <2> QED  BY <1>1, <1>2, <1>4, <2>2, <2>3
<1>9. CASE Take(p)
  <2>1. me.step = "taking" /\ next.client = me.client /\ next.timedOut = me.timedOut
    BY <1>9, TakeEffect
  <2>2. StepsOfPage(p) = 1
    BY <2>1 DEF StepsOfPage, At
  <2>3. CASE /\ next.step \in {"failed", "returned"}
             /\ next.page = me.page /\ next.repeated = me.repeated
    <3>1. Left(next) = Left(me)
      BY <2>1, <2>3, LeftShrinks
    <3>2. StepsOfPage(p)' = 0
      BY <2>3 DEF StepsOfPage, At
    <3> QED  BY <1>1, <1>2, <1>4, <2>2, <3>1, <3>2
  <2>4. CASE /\ next.page = me.page /\ me.page \in me.client.repeats \ me.repeated
             /\ next.repeated = me.repeated \cup {me.page}
    <3>1. Left(next) = Left(me) - 1
      BY <2>1, <2>4, LeftShrinks
    <3> QED  BY <1>1, <1>2, <1>3, <1>4, <2>2, <3>1
  <2>5. CASE next.page = me.page + 1 /\ next.repeated = me.repeated
    <3>1. Left(next) = Left(me) - 1
      BY <2>1, <2>5, LeftShrinks
    <3> QED  BY <1>1, <1>2, <1>3, <1>4, <2>2, <3>1
  <2> QED  BY <1>9, <2>3, <2>4, <2>5, TakeEffect DEF Here
<1> QED  BY <1>5, <1>6, <1>7, <1>8, <1>9

\* A step of the upload brings it nearer to its end: an object that was created
\* stays, so a request repeated for a lost answer is refused.
LEMMA UploadShrinks ==
    ASSUME Inv, NEW p \in Calls, UploadStep(p), UNCHANGED pageVars
    PROVE  StepsLeft(p)' < StepsLeft(p)
<1>1. /\ call' = call /\ upload[p] \in {"sending", "refused"} /\ UNCHANGED item
      /\ TypeOK /\ p \in Uploaders
  BY UploadFrame, PageAssumption DEF Inv, pageVars
<1>2. call[p].step = "recording" /\ call[p] # NoCall /\ call'[p].step = "recording"
  BY <1>1 DEF Inv, UploadInv, At, NoCall
<1>3. Left(call[p]) \in Nat
  BY <1>2, LeftShrinks
<1>4. /\ StepsOfPage(p) = IF upload[p] = "sending" THEN (IF Absent(p) THEN 5 ELSE 4) ELSE 3
      /\ StepsOfPage(p)' = IF upload'[p] = "sending" THEN (IF Absent(p)' THEN 5 ELSE 4)
                            ELSE IF upload'[p] = "refused" THEN 3 ELSE 2
  BY <1>1, <1>2 DEF StepsOfPage, At
<1>5. StepsOfPage(p)' < StepsOfPage(p)
  <2>1. CASE Create(p)
    <3>1. item[p][1] \in Uris /\ item[p][2] \in Sums
      BY <1>1 DEF TypeOK, RawTypeOK
    <3>2. object'[item[p][1]] # NoObject
      BY <2>1, <3>1, <1>1, SumAssumption DEF Create, TypeOK, RawTypeOK
    <3>3. Absent(p) /\ ~Absent(p)'
      BY <2>1, <3>2, <1>1 DEF Create, Absent
    <3>4. upload[p] = "sending" /\ upload'[p] \in {"sending", "landed"}
      BY <2>1, <1>1 DEF Create, TypeOK, RawTypeOK
    <3> QED  BY <1>4, <3>3, <3>4
  <2>2. CASE Refuse(p)
    BY <1>1, <1>4, <2>2 DEF Refuse, TypeOK, RawTypeOK
  <2>3. CASE Compare(p)
    BY <1>1, <1>4, <2>3 DEF Compare, TypeOK, RawTypeOK
  <2>4. CASE UploadFails(p)
    BY <1>1, <1>4, <2>4 DEF UploadFails, TypeOK, RawTypeOK
  <2> QED  BY <2>1, <2>2, <2>3, <2>4 DEF UploadStep
<1>6. StepsOfPage(p) \in Nat /\ StepsOfPage(p)' \in Nat
  BY <1>4
<1> QED  BY <1>1, <1>3, <1>5, <1>6 DEF StepsLeft

\* Every step of a call uses one up of the finitely many it has: of its client's
\* timeouts and repetitions, of the pages, and of the steps of a page.
THEOREM NoEndlessCall == Spec => StepsRunOut
<1>1. ASSUME Inv
      PROVE  [\A p \in Calls : CallStep(p) => StepsLeft(p)' < StepsLeft(p)]_vars
  <2> SUFFICES ASSUME NEW p \in Calls, CallStep(p)
               PROVE  StepsLeft(p)' < StepsLeft(p)
    OBVIOUS
  <2>1. CASE UploadStep(p) /\ UNCHANGED pageVars
    BY <1>1, <2>1, UploadShrinks
  <2>2. CASE \/ TimesOut(p) \/ BeyondSnapshot(p) \/ Receive(p) \/ ReceiveAgain(p)
             \/ CallbackEnds(p) \/ Take(p)
    <3>1. call[p] # NoCall
      BY <2>2 DEF TimesOut, BeyondSnapshot, Receive, ReceiveAgain, Answers, CallbackEnds,
                  Take, At, NoCall
    <3> QED  BY <1>1, <2>2, <3>1, CallShrinks
  <2> QED  BY <2>1, <2>2 DEF CallStep
<1> QED  BY <1>1, InvCorrect, PTL DEF Spec, StepsRunOut

-----------------------------------------------------------------------------
\* An object is written once and only confirmed if it is what was uploaded,
\* whatever calls time out, die and land the same pages again.
THEOREM LandingIsWriteOnce == Spec => RegisterSpec
<1>1. Init => Register!Init
  BY RegisterInit DEF Init
<1>2. Inv /\ [Next]_vars => [Register!Next]_<<object, Told>>
  <2> SUFFICES ASSUME Inv, [Next]_vars PROVE [Register!Next]_<<object, Told>>
    OBVIOUS
  <2>1. RawTypeOK /\ Calls \subseteq Uploaders
    BY PageAssumption DEF Inv, TypeOK
  <2>2. ASSUME NEW p \in Calls, StepOf(p)
        PROVE  \/ UNCHANGED rawVars \/ Release(p) \/ UploadStep(p)
               \/ \E u, s : BeginUpload(p, u, s)
    BY <2>2 DEF StepOf, CallStep, Begin, TimesOut, BeyondSnapshot, Receive, ReceiveAgain,
                CallbackEnds, Take, Dies
  <2>3. ASSUME NEW p \in Calls, StepOf(p)
        PROVE  [Register!Next]_<<object, Told>>
    BY <2>1, <2>2, <2>3, RegisterStep
  <2>4. UNCHANGED vars => UNCHANGED <<object, Told>>
    BY DEF vars, rawVars, Told, Confirmed
  <2> QED  BY <2>3, <2>4 DEF Next, StepOf
<1> QED  BY <1>1, <1>2, InvCorrect, PTL DEF Spec, RegisterSpec, Register!Spec, Told
=============================================================================
