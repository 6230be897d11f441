-------------------------- MODULE UserFilesProofs ---------------------------
(***************************************************************************)
(* What is kept for the user: why the history of texts is in order and     *)
(* complete, and why a load of the configuration is never older than the   *)
(* file was when it began.                                                 *)
(***************************************************************************)
EXTENDS ConfigStore, ContextHistory, FiniteSetTheorems, TLAPS

(* The time, in seconds, a leaf that names no prover gives to each.        *)
USE SMTT(30), ZenonT(30)

(* A recorded entry has a text and was wanted. *)
RecordType ==
    {e \in [source : EntrySources, text : Seq(Nat), max : Nat] : e.text # <<>> /\ e.max > 0}

(* A write's stamp is after every stamp known before it. *)
LEMMA StampOrder ==
    /\ \A m \in Nat : m + 1 > m
    /\ \A k, m, n \in Nat : k <= m /\ n > m => k # n
  OBVIOUS

Below(S, T) == \A m \in S, n \in T : m < n

-----------------------------------------------------------------------------
(* What is in a text and in a list of entries. *)
LEMMA InAppend ==
    ASSUME NEW b \in Seq(Nat), NEW n \in Nat
    PROVE  /\ Append(b, n) \in Seq(Nat) /\ Append(b, n) # <<>>
           /\ In(Append(b, n)) = In(b) \cup {n}
           /\ Sorted(b) /\ (\A m \in In(b) : m < n) => Sorted(Append(b, n))
  <1>1. /\ Append(b, n) \in Seq(Nat) /\ DOMAIN b = 1..Len(b) /\ Len(b) \in Nat
        /\ DOMAIN Append(b, n) = 1..(Len(b) + 1)
    OBVIOUS
  <1>0. Append(b, n) # <<>>
    <2>1. Len(Append(b, n)) = Len(b) + 1 /\ Len(b) \in Nat /\ Len(<<>>) = 0
      OBVIOUS
    <2> QED
      BY <2>1
  <1>2. \A i \in 1..(Len(b) + 1) : Append(b, n)[i] = IF i = Len(b) + 1 THEN n ELSE b[i]
    OBVIOUS
  <1> DEFINE a == Append(b, n)
  <1> HIDE DEF a
  <1>3. In(a) = In(b) \cup {n}
    BY <1>1, <1>2 DEF In, a
  <1>4. Sorted(b) /\ (\A m \in In(b) : m < n) => Sorted(a)
    BY <1>1, <1>2 DEF Sorted, In, a
  <1> QED
    BY <1>0, <1>1, <1>3, <1>4 DEF a

LEMMA OneText ==
    ASSUME NEW n \in Nat
    PROVE  <<n>> \in Seq(Nat) /\ <<n>> # <<>> /\ In(<<n>>) = {n} /\ Sorted(<<n>>)
BY DEF In, Sorted

LEMMA NoTexts == In(<<>>) = {} /\ Sorted(<<>>) /\ TextsOf(<<>>) = {} /\ Increasing(<<>>)
BY DEF In, Sorted, TextsOf, Increasing

LEMMA OneEntry ==
    ASSUME NEW e
    PROVE  TextsOf(<<e>>) = In(e.text) /\ (Sorted(e.text) => Increasing(<<e>>))
BY DEF TextsOf, Increasing

LEMMA TextsConcat ==
    ASSUME NEW S, NEW a \in Seq(S), NEW b \in Seq(S)
    PROVE  TextsOf(a \o b) = TextsOf(a) \cup TextsOf(b)
  <1>1. /\ DOMAIN a = 1..Len(a) /\ DOMAIN b = 1..Len(b) /\ Len(a) \in Nat /\ Len(b) \in Nat
        /\ DOMAIN (a \o b) = 1..(Len(a) + Len(b))
    OBVIOUS
  <1>2. \A i \in 1..(Len(a) + Len(b)) : (a \o b)[i] = IF i <= Len(a) THEN a[i] ELSE b[i - Len(a)]
    OBVIOUS
  <1>3. \A i \in DOMAIN a : i \in DOMAIN (a \o b) /\ (a \o b)[i] = a[i]
    BY <1>1, <1>2
  <1>4. \A i \in DOMAIN b : Len(a) + i \in DOMAIN (a \o b) /\ (a \o b)[Len(a) + i] = b[i]
    BY <1>1, <1>2
  <1>5. \A i \in DOMAIN (a \o b) : \/ i \in DOMAIN a /\ (a \o b)[i] = a[i]
                                   \/ i - Len(a) \in DOMAIN b /\ (a \o b)[i] = b[i - Len(a)]
    BY <1>1, <1>2
  <1> QED
    BY <1>3, <1>4, <1>5, ZenonT(30) DEF TextsOf

LEMMA IncreasingConcat ==
    ASSUME NEW S, NEW a \in Seq(S), NEW b \in Seq(S), Increasing(a), Increasing(b),
           Below(TextsOf(a), TextsOf(b))
    PROVE  Increasing(a \o b)
  <1>1. /\ DOMAIN a = 1..Len(a) /\ DOMAIN b = 1..Len(b) /\ Len(a) \in Nat /\ Len(b) \in Nat
        /\ DOMAIN (a \o b) = 1..(Len(a) + Len(b))
    OBVIOUS
  <1>2. \A i \in 1..(Len(a) + Len(b)) : (a \o b)[i] = IF i <= Len(a) THEN a[i] ELSE b[i - Len(a)]
    OBVIOUS
  <1> DEFINE c == a \o b
  <1> HIDE DEF c
  <1>3. SUFFICES ASSUME NEW i \in DOMAIN c, NEW j \in DOMAIN c
                 PROVE  /\ Sorted(c[i].text)
                        /\ i < j => Below(In(c[i].text), In(c[j].text))
    BY DEF Increasing, Below, c
  <1>4. \A k \in DOMAIN c : \/ k \in DOMAIN a /\ k <= Len(a) /\ c[k] = a[k]
                            \/ k - Len(a) \in DOMAIN b /\ k > Len(a) /\ c[k] = b[k - Len(a)]
    BY <1>1, <1>2 DEF c
  <1>5. Sorted(c[i].text)
    BY <1>4 DEF Increasing
  <1>6. ASSUME i < j PROVE Below(In(c[i].text), In(c[j].text))
    <2>1. CASE i <= Len(a) /\ j <= Len(a)
      <3>1. i \in DOMAIN a /\ j \in DOMAIN a /\ c[i] = a[i] /\ c[j] = a[j]
        BY <1>1, <1>4, <2>1 DEF c
      <3> QED
        BY <1>6, <3>1 DEF Increasing, Below
    <2>2. CASE i <= Len(a) /\ j > Len(a)
      <3>1. i \in DOMAIN a /\ j - Len(a) \in DOMAIN b /\ c[i] = a[i] /\ c[j] = b[j - Len(a)]
        BY <1>1, <1>4, <2>2 DEF c
      <3>2. In(c[i].text) \subseteq TextsOf(a) /\ In(c[j].text) \subseteq TextsOf(b)
        BY <3>1 DEF TextsOf
      <3> QED
        BY <3>2 DEF Below
    <2>3. CASE i > Len(a) /\ j > Len(a)
      <3>1. /\ i - Len(a) \in DOMAIN b /\ j - Len(a) \in DOMAIN b /\ i - Len(a) < j - Len(a)
            /\ c[i] = b[i - Len(a)] /\ c[j] = b[j - Len(a)]
        BY <1>1, <1>4, <1>6, <2>3 DEF c
      <3> QED
        BY <3>1 DEF Increasing, Below
    <2> QED
      BY <1>1, <1>6, <2>1, <2>2, <2>3 DEF c
  <1> QED
    BY <1>5, <1>6

(* The last entries of a list come after the first ones. *)
LEMMA LastEntries ==
    ASSUME NEW S, NEW s \in Seq(S), NEW n \in 0..Len(s)
    PROVE  LET a == SubSeq(s, 1, n)
               b == SubSeq(s, n + 1, Len(s))
           IN  /\ a \in Seq(S) /\ b \in Seq(S) /\ Len(b) = Len(s) - n
               /\ TextsOf(s) = TextsOf(a) \cup TextsOf(b)
               /\ Increasing(s) => Increasing(b) /\ Below(TextsOf(a), TextsOf(b))
  <1> DEFINE a == SubSeq(s, 1, n)
             b == SubSeq(s, n + 1, Len(s))
  <1>1. /\ Len(s) \in Nat /\ DOMAIN s = 1..Len(s) /\ n \in Nat /\ n <= Len(s)
        /\ a \in Seq(S) /\ Len(a) = n /\ DOMAIN a = 1..n
        /\ b \in Seq(S) /\ Len(b) = Len(s) - n /\ DOMAIN b = 1..(Len(s) - n)
    OBVIOUS
  <1>2. \A i \in 1..n : a[i] = s[i]
    OBVIOUS
  <1>3. \A i \in 1..(Len(s) - n) : b[i] = s[n + i]
    OBVIOUS
  <1> HIDE DEF a, b
  <1>4. TextsOf(s) = TextsOf(a) \cup TextsOf(b)
    <2>1. \A i \in DOMAIN a : i \in DOMAIN s /\ a[i] = s[i]
      BY <1>1, <1>2
    <2>2. \A i \in DOMAIN b : n + i \in DOMAIN s /\ b[i] = s[n + i]
      BY <1>1, <1>3
    <2>3. \A i \in DOMAIN s : \/ i \in DOMAIN a /\ a[i] = s[i]
                              \/ i - n \in DOMAIN b /\ b[i - n] = s[i]
      BY <1>1, <1>2, <1>3
    <2> QED
      BY <2>1, <2>2, <2>3 DEF TextsOf
  <1>5. ASSUME Increasing(s) PROVE Increasing(b)
    <2>1. \A i, j \in DOMAIN b : /\ n + i \in DOMAIN s /\ n + j \in DOMAIN s /\ b[i] = s[n + i]
                                 /\ b[j] = s[n + j] /\ (i < j => n + i < n + j)
      BY <1>1, <1>3
    <2> QED
      BY <1>5, <2>1 DEF Increasing
  <1>6. ASSUME Increasing(s) PROVE Below(TextsOf(a), TextsOf(b))
    <2>1. \A i \in DOMAIN a, j \in DOMAIN b : /\ i \in DOMAIN s /\ n + j \in DOMAIN s /\ i < n + j
                                              /\ a[i] = s[i] /\ b[j] = s[n + j]
      BY <1>1, <1>2, <1>3
    <2> QED
      BY <1>6, <2>1 DEF Increasing, Below, TextsOf
  <1> QED
    BY <1>1, <1>4, <1>5, <1>6, ZenonT(30) DEF a, b

LEMMA FirstEntry ==
    ASSUME NEW S, NEW s \in Seq(S), s # <<>>
    PROVE  /\ Head(s) \in S /\ Tail(s) \in Seq(S)
           /\ TextsOf(s) = In(Head(s).text) \cup TextsOf(Tail(s))
           /\ Increasing(s) => /\ Sorted(Head(s).text) /\ Increasing(Tail(s))
                               /\ Below(In(Head(s).text), TextsOf(Tail(s)))
  <1>1. Len(s) \in Nat /\ Len(s) # 0 /\ DOMAIN s = 1..Len(s)
    OBVIOUS
  <1>2. Head(s) \in S /\ Tail(s) \in Seq(S) /\ Head(s) = s[1] /\ 1 \in DOMAIN s
    BY <1>1
  <1>3. DOMAIN Tail(s) = 1..(Len(s) - 1) /\ \A i \in 1..(Len(s) - 1) : Tail(s)[i] = s[i + 1]
    BY <1>1
  <1> DEFINE r == Tail(s)
  <1> HIDE DEF r
  <1>4. \A i \in DOMAIN r : i + 1 \in DOMAIN s /\ 1 < i + 1 /\ r[i] = s[i + 1]
    BY <1>1, <1>3 DEF r
  <1>5. \A i \in DOMAIN s : i = 1 \/ (i - 1 \in DOMAIN r /\ r[i - 1] = s[i])
    BY <1>1, <1>3 DEF r
  <1>6. TextsOf(s) = In(s[1].text) \cup TextsOf(r)
    BY <1>2, <1>4, <1>5 DEF TextsOf
  <1>7. ASSUME Increasing(s)
        PROVE  Sorted(s[1].text) /\ Increasing(r) /\ Below(In(s[1].text), TextsOf(r))
    <2>1. \A i, j \in DOMAIN r : i < j => i + 1 < j + 1
      BY <1>1, <1>3 DEF r
    <2>2. Increasing(r)
      BY <1>4, <1>7, <2>1 DEF Increasing
    <2>3. Sorted(s[1].text) /\ Below(In(s[1].text), TextsOf(r))
      BY <1>2, <1>4, <1>7 DEF Increasing, Below, TextsOf
    <2> QED
      BY <2>2, <2>3
  <1> QED
    BY <1>2, <1>6, <1>7 DEF r

LEMMA AppendedEntry ==
    ASSUME NEW S, NEW a \in Seq(S), NEW e \in S
    PROVE  /\ Append(a, e) \in Seq(S) /\ Append(a, e) # <<>>
           /\ TextsOf(Append(a, e)) = TextsOf(a) \cup In(e.text)
           /\ (Increasing(a) /\ Sorted(e.text) /\ Below(TextsOf(a), In(e.text)))
                => Increasing(Append(a, e))
  <1>1. Append(a, e) = a \o <<e>> /\ <<e>> \in Seq(S) /\ Append(a, e) \in Seq(S)
    OBVIOUS
  <1>2. Append(a, e) # <<>>
    <2>1. Len(Append(a, e)) = Len(a) + 1 /\ Len(a) \in Nat /\ Len(<<>>) = 0
      OBVIOUS
    <2> QED
      BY <2>1
  <1>3. TextsOf(a \o <<e>>) = TextsOf(a) \cup TextsOf(<<e>>)
    BY <1>1, TextsConcat, ZenonT(30)
  <1>4. Increasing(a) /\ Sorted(e.text) /\ Below(TextsOf(a), In(e.text)) => Increasing(a \o <<e>>)
    BY <1>1, IncreasingConcat, OneEntry, ZenonT(30)
  <1> QED
    BY <1>1, <1>2, <1>3, <1>4, OneEntry

-----------------------------------------------------------------------------
(* The addon's side of the history. *)
SideType == [buffer : Seq(Nat), ic : Contexts \cup {NoContext}, timer : BOOLEAN,
             pending : Seq(RecordType), lost : SUBSET Nat]

(* Queue and buffer hold what was put in last, up to text t. *)
Side(h, t) ==
    /\ h \in SideType
    /\ Increasing(h.pending) /\ Sorted(h.buffer) /\ Below(TextsOf(h.pending), In(h.buffer))
    /\ \A n \in TextsOf(h.pending) \cup In(h.buffer) :
         n <= t /\ Below(TextsOf(lines) \cup TextsOf(InHand), {n})
    /\ \A n \in TextsOf(lines) \cup TextsOf(InHand) : n <= t

(* The texts that it has or has given up. *)
Accounted(h) == TextsOf(h.pending) \cup In(h.buffer) \cup h.lost

(* The loop drops no more entries than there are. *)
LEMMA DroppedBound ==
    ASSUME NEW p \in Seq(RecordType), NEW e
    PROVE  Dropped(p, e) \in 0 .. Len(p)
  <1> DEFINE all == 0 .. Len(p) - 1
             some == {n \in all : ~Fits(After(p, n), e)}
  <1>1. Len(p) \in Nat /\ 0 \in Int /\ Len(p) - 1 \in Int
    OBVIOUS
  <1>2. IsFiniteSet(all) /\ Cardinality(all) = IF 0 > Len(p) - 1 THEN 0 ELSE Len(p) - 1 - 0 + 1
    BY <1>1, FS_Interval
  <1>3. Cardinality(all) = Len(p)
    BY <1>1, <1>2
  <1>4. some \in SUBSET all
    OBVIOUS
  <1> HIDE DEF all
  <1>5. IsFiniteSet(some) /\ Cardinality(some) <= Cardinality(all) /\ Cardinality(some) \in Nat
    <2>1. IsFiniteSet(some) /\ Cardinality(some) <= Cardinality(all)
      BY <1>2, <1>4, FS_Subset
    <2> QED
      BY <2>1, FS_CardinalityType
  <1>6. Dropped(p, e) = Cardinality(some)
    BY DEF Dropped, all
  <1> QED
    BY <1>1, <1>3, <1>5, <1>6

(* A queue that is full loses its oldest entries, or refuses the new one,  *)
(* and says so. *)
LEMMA EnqueueKeeps ==
    ASSUME NEW h \in SideType, NEW e \in RecordType, Increasing(h.pending), Sorted(e.text),
           Below(TextsOf(h.pending), In(e.text)), \A n \in TextsOf(h.pending) : n \in Nat
    PROVE  LET g == Enqueue(h, e)
           IN  /\ g \in SideType /\ g.buffer = h.buffer /\ g.ic = h.ic /\ g.timer = h.timer
               /\ Increasing(g.pending)
               /\ TextsOf(g.pending) \subseteq TextsOf(h.pending) \cup In(e.text)
               /\ h.lost \subseteq g.lost
               /\ TextsOf(h.pending) \cup In(e.text) \subseteq TextsOf(g.pending) \cup g.lost
  <1> DEFINE p == h.pending
             n == Dropped(p, e)
             a == SubSeq(p, 1, n)
             b == SubSeq(p, n + 1, Len(p))
             g == Enqueue(h, e)
  <1>1. p \in Seq(RecordType) /\ Len(p) \in Nat
    BY DEF SideType
  <1>2. CASE Bytes(<<e>>) > MaxPendingBytes
    <2>1. g = [h EXCEPT !.lost = @ \cup In(e.text)]
      BY <1>2 DEF Enqueue
    <2>2. In(e.text) \subseteq Nat
      BY DEF RecordType, In
    <2> HIDE DEF g, p
    <2>3. /\ g \in SideType /\ g.buffer = h.buffer /\ g.ic = h.ic /\ g.timer = h.timer
          /\ g.pending = h.pending /\ g.lost = h.lost \cup In(e.text)
      BY <2>1, <2>2, ZenonT(30) DEF SideType
    <2> QED
      BY <2>3, ZenonT(30) DEF g
  <1>3. CASE ~(Bytes(<<e>>) > MaxPendingBytes)
    <2>1. g = [h EXCEPT !.pending = Append(b, e), !.lost = @ \cup TextsOf(a)]
      BY <1>3 DEF Enqueue, After
    <2>2. n \in 0 .. Len(p)
      BY <1>1, DroppedBound
    <2> HIDE DEF n, p
    <2>3. /\ a \in Seq(RecordType) /\ b \in Seq(RecordType)
          /\ TextsOf(p) = TextsOf(a) \cup TextsOf(b)
          /\ Increasing(p) => Increasing(b)
      BY <1>1, <2>2, LastEntries
    <2> HIDE DEF a, b, g
    <2>4. /\ Append(b, e) \in Seq(RecordType)
          /\ TextsOf(Append(b, e)) = TextsOf(b) \cup In(e.text)
          /\ (Increasing(b) /\ Sorted(e.text) /\ Below(TextsOf(b), In(e.text)))
               => Increasing(Append(b, e))
      BY <2>3, AppendedEntry
    <2>5. /\ g.buffer = h.buffer /\ g.ic = h.ic /\ g.timer = h.timer /\ g.pending = Append(b, e)
          /\ g.lost = h.lost \cup TextsOf(a)
      BY <2>1 DEF SideType
    <2>6. TextsOf(a) \subseteq Nat
      BY <2>3 DEF p
    <2>7. g \in SideType
      BY <2>1, <2>4, <2>6, ZenonT(30) DEF SideType
    <2>8. Increasing(g.pending)
      BY <2>3, <2>4, <2>5 DEF Below, p
    <2> QED
      BY <2>3, <2>4, <2>5, <2>7, <2>8, ZenonT(30) DEF g, p
  <1> QED
    BY <1>2, <1>3, ZenonT(30)

LEMMA TextsAreNumbers ==
    ASSUME NEW h \in SideType
    PROVE  TextsOf(h.pending) \subseteq Nat /\ In(h.buffer) \subseteq Nat
  <1>1. h.buffer \in Seq(Nat) /\ h.pending \in Seq(RecordType)
    BY DEF SideType
  <1>2. \A i \in DOMAIN h.pending : h.pending[i].text \in Seq(Nat)
    BY <1>1 DEF RecordType
  <1>3. \A x \in Seq(Nat) : In(x) \subseteq Nat
    BY DEF In
  <1> QED
    BY <1>1, <1>2, <1>3 DEF TextsOf

LEMMA SideLater ==
    ASSUME NEW h, NEW t \in Nat, NEW n \in Nat, t <= n, Side(h, t),
           TextsOf(lines) \cup TextsOf(InHand) \subseteq Nat
    PROVE  Side(h, n)
  <1>1. TextsOf(h.pending) \cup In(h.buffer) \subseteq Nat
    BY TextsAreNumbers DEF Side
  <1>2. \A m \in Nat : m <= t => m <= n
    OBVIOUS
  <1> QED
    BY <1>1, <1>2 DEF Side

(* flushContextBuffer turns the buffer into the last entry of the queue. *)
LEMMA FlushKeeps ==
    ASSUME NEW h, NEW t \in Nat, Side(h, t), maxLines \in Nat, maxLines # 0 \/ h.buffer = <<>>
    PROVE  LET g == flushContextBuffer(h)
           IN  Side(g, t) /\ g.buffer = <<>> /\ Accounted(h) \subseteq Accounted(g)
  <1> DEFINE g == flushContextBuffer(h)
  <1>0. h \in SideType
    BY DEF Side
  <1>1. CASE h.buffer = <<>>
    <2>1. g = [h EXCEPT !.ic = NoContext]
      BY <1>1 DEF flushContextBuffer
    <2> HIDE DEF g
    <2>2. /\ g \in SideType /\ g.buffer = h.buffer /\ g.pending = h.pending /\ g.lost = h.lost
      BY <1>0, <2>1 DEF SideType
    <2> QED
      BY <1>1, <2>2, ZenonT(30) DEF Side, Accounted, g
  <1>2. CASE h.buffer # <<>>
    <2> DEFINE e == Entry("user", h.buffer, maxLines)
               q == Enqueue(h, e)
    <2>1. maxLines # 0 /\ g = [q EXCEPT !.buffer = <<>>, !.ic = NoContext, !.timer = FALSE]
      BY <1>2, ZenonT(30) DEF flushContextBuffer
    <2>2. e \in RecordType /\ e.text = h.buffer
      BY <1>0, <1>2, <2>1 DEF RecordType, Entry, EntrySources, SideType
    <2> HIDE DEF e
    <2>3. /\ q \in SideType /\ Increasing(q.pending)
          /\ TextsOf(q.pending) \subseteq TextsOf(h.pending) \cup In(h.buffer)
          /\ h.lost \subseteq q.lost
          /\ TextsOf(h.pending) \cup In(h.buffer) \subseteq TextsOf(q.pending) \cup q.lost
      BY <1>0, <2>2, EnqueueKeeps, TextsAreNumbers, ZenonT(30) DEF Side
    <2> HIDE DEF q, g
    <2>4. <<>> \in Seq(Nat)
      OBVIOUS
    <2>5. g \in SideType /\ g.buffer = <<>> /\ g.pending = q.pending /\ g.lost = q.lost
      BY <2>1, <2>3, <2>4, ZenonT(30) DEF SideType
    <2>6. In(g.buffer) = {} /\ Sorted(g.buffer)
      BY <2>5, NoTexts, ZenonT(30)
    <2>7. Side(g, t)
      BY <2>3, <2>5, <2>6, ZenonT(30) DEF Side, Below
    <2>8. Accounted(h) \subseteq Accounted(g)
      BY <2>3, <2>5 DEF Accounted
    <2> QED
      BY <2>5, <2>7, <2>8, ZenonT(30) DEF g
  <1> QED
    BY <1>1, <1>2

(* appendContextEntry puts a text behind all others. *)
LEMMA AppendEntryKeeps ==
    ASSUME NEW h, NEW t \in Nat, Side(h, t), maxLines \in Nat \ {0}, NEW n \in Nat, n > t,
           NEW source \in EntrySources, TextsOf(lines) \cup TextsOf(InHand) \subseteq Nat
    PROVE  LET g == appendContextEntry(h, n, source)
           IN  Side(g, n) /\ g.buffer = <<>> /\ Accounted(h) \cup {n} \subseteq Accounted(g)
  <1> DEFINE f == IF h.buffer # <<>> THEN flushContextBuffer(h) ELSE h
             e == Entry(source, <<n>>, maxLines)
             g == appendContextEntry(h, n, source)
  <1>1. g = Enqueue(f, e)
    BY DEF appendContextEntry
  <1>2. Side(f, t) /\ f.buffer = <<>> /\ Accounted(h) \subseteq Accounted(f)
    BY FlushKeeps
  <1>3. e \in RecordType /\ e.text = <<n>>
    BY OneText DEF RecordType, Entry
  <1> HIDE DEF f, e, g
  <1>4. f \in SideType /\ TextsOf(f.pending) \subseteq Nat
    BY <1>2, TextsAreNumbers DEF Side
  <1>5. In(e.text) = {n} /\ Sorted(e.text)
    BY <1>3, OneText
  <1>6. \A m \in Nat : m <= t => m < n /\ m <= n
    OBVIOUS
  <1>7. Below(TextsOf(f.pending), {n})
    BY <1>2, <1>4, <1>6 DEF Side, Below
  <1>8. Below(TextsOf(lines) \cup TextsOf(InHand), {n})
    BY <1>2, <1>6 DEF Side, Below
  <1>9. /\ g \in SideType /\ g.buffer = f.buffer /\ Increasing(g.pending)
        /\ TextsOf(g.pending) \subseteq TextsOf(f.pending) \cup {n}
        /\ f.lost \subseteq g.lost
        /\ TextsOf(f.pending) \cup {n} \subseteq TextsOf(g.pending) \cup g.lost
    BY <1>1, <1>2, <1>3, <1>4, <1>5, <1>7, EnqueueKeeps, ZenonT(30) DEF Side
  <1>10. In(g.buffer) = {} /\ Sorted(g.buffer)
    BY <1>2, <1>9, NoTexts
  <1>11. \A k \in TextsOf(g.pending) : k <= n /\ Below(TextsOf(lines) \cup TextsOf(InHand), {k})
    <2> TAKE k \in TextsOf(g.pending)
    <2>1. CASE k = n
      BY <1>8, <2>1
    <2>2. CASE k \in TextsOf(f.pending)
      BY <1>2, <1>4, <1>6, <2>2 DEF Side, Below
    <2> QED
      BY <1>9, <2>1, <2>2
  <1>12. \A k \in TextsOf(lines) \cup TextsOf(InHand) : k <= n
    BY <1>2, <1>6 DEF Side
  <1>13. Side(g, n)
    BY <1>9, <1>10, <1>11, <1>12 DEF Side, Below
  <1>14. Accounted(h) \cup {n} \subseteq Accounted(g)
    BY <1>2, <1>9 DEF Accounted
  <1> QED
    BY <1>2, <1>9, <1>13, <1>14 DEF g

(* accumulateContextBuffer joins it to the buffer. *)
LEMMA AccumulateKeeps ==
    ASSUME NEW h, NEW t \in Nat, Side(h, t), maxLines \in Nat \ {0}, NEW n \in Nat, n > t,
           NEW ic \in Contexts, NEW ends \in BOOLEAN,
           TextsOf(lines) \cup TextsOf(InHand) \subseteq Nat
    PROVE  LET g == accumulateContextBuffer(h, n, ic, ends)
           IN  Side(g, n) /\ Accounted(h) \cup {n} \subseteq Accounted(g)
  <1> DEFINE f == IF ic # h.ic /\ h.buffer # <<>> THEN flushContextBuffer(h) ELSE h
             j == [f EXCEPT !.buffer = Append(@, n), !.ic = ic]
             g == accumulateContextBuffer(h, n, ic, ends)
  <1>1. g = IF ends THEN flushContextBuffer(j) ELSE [j EXCEPT !.timer = TRUE]
    BY DEF accumulateContextBuffer
  <1>2. Side(f, t) /\ Accounted(h) \subseteq Accounted(f)
    BY FlushKeeps
  <1> HIDE DEF f, g
  <1>3. f \in SideType /\ TextsOf(f.pending) \subseteq Nat /\ In(f.buffer) \subseteq Nat
        /\ f.buffer \in Seq(Nat)
    BY <1>2, TextsAreNumbers, ZenonT(30) DEF Side, SideType
  <1>4. \A m \in Nat : m <= t => m < n /\ m <= n
    OBVIOUS
  <1>5. /\ Append(f.buffer, n) \in Seq(Nat)
        /\ In(Append(f.buffer, n)) = In(f.buffer) \cup {n}
        /\ Sorted(f.buffer) /\ (\A m \in In(f.buffer) : m < n) => Sorted(Append(f.buffer, n))
    BY <1>3, InAppend
  <1>6. /\ j \in SideType /\ j.buffer = Append(f.buffer, n) /\ j.pending = f.pending
        /\ j.lost = f.lost
    BY <1>3, <1>5, ZenonT(30) DEF SideType
  <1> HIDE DEF j
  <1>7. Sorted(j.buffer)
    BY <1>2, <1>3, <1>4, <1>5, <1>6, ZenonT(30) DEF Side
  <1>8. Below(TextsOf(j.pending), In(j.buffer))
    <2>1. \A m \in TextsOf(f.pending) : m < n
      BY <1>2, <1>3, <1>4, ZenonT(30) DEF Side
    <2>2. \A m \in TextsOf(f.pending), k \in In(f.buffer) : m < k
      BY <1>2 DEF Side, Below
    <2> QED
      BY <1>5, <1>6, <2>1, <2>2 DEF Below
  <1>9. \A k \in TextsOf(j.pending) \cup In(j.buffer) :
          k <= n /\ Below(TextsOf(lines) \cup TextsOf(InHand), {k})
    <2>1. \A m \in TextsOf(lines) \cup TextsOf(InHand) : m < n
      BY <1>2, <1>4 DEF Side
    <2>2. \A k \in TextsOf(f.pending) \cup In(f.buffer) :
            k <= n /\ Below(TextsOf(lines) \cup TextsOf(InHand), {k})
      BY <1>2, <1>3, <1>4, ZenonT(30) DEF Side
    <2>3. n <= n /\ Below(TextsOf(lines) \cup TextsOf(InHand), {n})
      BY <2>1 DEF Below
    <2> QED
      BY <1>5, <1>6, <2>2, <2>3, ZenonT(30)
  <1>10. Side(j, n)
    BY <1>2, <1>4, <1>6, <1>7, <1>8, <1>9, ZenonT(30) DEF Side
  <1>11. Accounted(h) \cup {n} \subseteq Accounted(j)
    BY <1>2, <1>5, <1>6, ZenonT(30) DEF Accounted
  <1>12. CASE ends
    BY <1>1, <1>10, <1>11, <1>12, FlushKeeps DEF g
  <1>13. CASE ~ends
    <2>1. g = [j EXCEPT !.timer = TRUE]
      BY <1>1, <1>13
    <2>2. g \in SideType /\ g.buffer = j.buffer /\ g.pending = j.pending /\ g.lost = j.lost
      BY <1>6, <2>1, ZenonT(30) DEF SideType
    <2>3. Side(g, n) /\ Accounted(g) = Accounted(j)
      BY <1>10, <2>2, ZenonT(30) DEF Side, Accounted
    <2> QED
      BY <1>11, <2>3 DEF g
  <1> QED
    BY <1>12, <1>13

-----------------------------------------------------------------------------
(* What holds of the addon's side, its writer and the file between two     *)
(* steps.  Queue and buffer are empty when nobody is there to write them.  *)
HistoryTypes ==
    /\ addon \in {"running", "stopping", "down"} /\ maxLines \in Nat
    /\ buffer \in Seq(Nat) /\ bufferIc \in Contexts \cup {NoContext} /\ timer \in BOOLEAN
    /\ pending \in Seq(RecordType)
    /\ writer \in {"none", "waiting", "writing", "rotating"}
    /\ writer \in {"writing", "rotating"} => task \in RecordType
    /\ lines \in Seq(RecordType) /\ texts \in Nat /\ unsaved \subseteq Nat /\ suppressed = 0

HistoryInv ==
    /\ HistoryTypes
    /\ Side(Here, texts)
    /\ Increasing(lines) /\ Increasing(InHand) /\ Below(TextsOf(lines), TextsOf(InHand))
    /\ HistoryComplete
    /\ writer = "none" => pending = <<>>
    /\ maxLines = 0 \/ addon # "running" => buffer = <<>>
    /\ addon = "down" => writer = "none"

LEMMA RecordedAreNumbers ==
    ASSUME NEW s \in Seq(RecordType)
    PROVE  TextsOf(s) \subseteq Nat
  <1>1. \A i \in DOMAIN s : s[i].text \in Seq(Nat)
    BY DEF RecordType
  <1>2. \A x \in Seq(Nat) : In(x) \subseteq Nat
    BY DEF In
  <1> QED
    BY <1>1, <1>2 DEF TextsOf

LEMMA WrittenAreNumbers ==
    ASSUME HistoryTypes
    PROVE  InHand \in Seq(RecordType) /\ TextsOf(lines) \cup TextsOf(InHand) \subseteq Nat
  <1>1. InHand \in Seq(RecordType)
    BY DEF HistoryTypes, InHand
  <1> QED
    BY <1>1, RecordedAreNumbers DEF HistoryTypes

LEMMA LostMore ==
    ASSUME NEW h, NEW t \in Nat, Side(h, t), NEW X \in SUBSET Nat
    PROVE  LET g == [h EXCEPT !.lost = @ \cup X]
           IN  Side(g, t) /\ g.buffer = h.buffer /\ Accounted(g) = Accounted(h) \cup X
  <1> DEFINE g == [h EXCEPT !.lost = @ \cup X]
  <1>1. h \in SideType
    BY DEF Side
  <1>2. g \in SideType /\ g.buffer = h.buffer /\ g.pending = h.pending /\ g.lost = h.lost \cup X
    BY <1>1, ZenonT(30) DEF SideType
  <1> QED
    BY <1>2 DEF Side, Accounted

(* A handler's record becomes the addon's state. *)
LEMMA BecomesKeeps ==
    ASSUME HistoryInv, NEW h, NEW t \in Nat, texts <= t, Side(h, t),
           Accounted(Here) \subseteq Accounted(h), texts + 1 .. t \subseteq Accounted(h),
           Becomes(h), texts' = t, suppressed' = 0, maxLines' \in Nat,
           addon' \in {"running", "stopping"},
           maxLines' = 0 \/ addon' # "running" => h.buffer = <<>>
    PROVE  HistoryInv'
  <1>1. h \in SideType /\ HistoryTypes
    BY ZenonT(30) DEF Side, HistoryInv
  <1>2. HistoryTypes'
    <2>1. buffer' \in Seq(Nat) /\ bufferIc' \in Contexts \cup {NoContext} /\ timer' \in BOOLEAN
          /\ pending' \in Seq(RecordType)
      BY <1>1 DEF Becomes, SideType
    <2>2. unsaved' \subseteq Nat
      BY <1>1, ZenonT(30) DEF Becomes, SideType, HistoryTypes
    <2>3. writer' \in {"none", "waiting", "writing", "rotating"}
          /\ (writer' \in {"writing", "rotating"} => task' \in RecordType)
      BY <1>1 DEF Becomes, HistoryTypes
    <2> QED
      BY <1>1, <2>1, <2>2, <2>3 DEF Becomes, HistoryTypes
  <1>3. InHand' = InHand /\ lines' = lines
    BY DEF Becomes, InHand
  <1>4. Here' \in SideType /\ Here'.buffer = h.buffer /\ Here'.pending = h.pending
    BY <1>2, ZenonT(30) DEF Becomes, Here, SideType, HistoryTypes
  <1>5. Side(Here', t)
    BY <1>4, ZenonT(30) DEF Side
  <1>6. Side(Here, texts)'
    BY <1>3, <1>5, ZenonT(30) DEF Side
  <1>7. /\ Increasing(lines)' /\ Increasing(InHand)' /\ Below(TextsOf(lines), TextsOf(InHand))'
    BY <1>3 DEF HistoryInv, Increasing, Below, TextsOf
  <1>8. HistoryComplete'
    <2> DEFINE kept == TextsOf(lines)
               queued == TextsOf(InHand) \cup TextsOf(pending) \cup In(buffer)
               later == TextsOf(InHand) \cup TextsOf(h.pending) \cup In(h.buffer)
    <2>1. kept' = kept /\ queued' = later
      BY <1>3 DEF Becomes, TextsOf
    <2>2. \A n \in 1 .. t : n \in 1 .. texts \/ n \in texts + 1 .. t
      BY <1>1 DEF HistoryTypes
    <2>3. \A n \in 1 .. t \ (unsaved' \cup later) : n \in 1 .. texts \ (unsaved \cup queued)
      BY <2>2, ZenonT(30) DEF Accounted, Becomes, Here
    <2>4. \A n \in 1 .. t \ (unsaved' \cup kept \cup later) :
            n \in 1 .. texts \ (unsaved \cup kept \cup queued)
      BY <2>3
    <2> HIDE DEF kept, queued, later
    <2>5. /\ \A n \in 1 .. texts \ (unsaved \cup kept \cup queued) : \A k \in kept : n < k
          /\ kept = {} => 1 .. texts \subseteq unsaved \cup queued
      BY ZenonT(30) DEF HistoryInv, HistoryComplete, kept, queued
    <2>6. \A n \in 1 .. t \ (unsaved' \cup kept \cup later) : \A k \in kept : n < k
      BY <2>4, <2>5
    <2>7. kept = {} => 1 .. t \subseteq unsaved' \cup later
      BY <2>3, <2>5
    <2> QED
      BY <2>1, <2>6, <2>7 DEF HistoryComplete, kept, queued
  <1>9. writer' = "none" => pending' = <<>>
    BY DEF Becomes, HistoryInv
  <1>10. (maxLines' = 0 \/ addon' # "running" => buffer' = <<>>) /\ addon' # "down"
    BY DEF Becomes
  <1> QED
    BY <1>2, <1>6, <1>7, <1>8, <1>9, <1>10, ZenonT(30) DEF HistoryInv

LEMMA UserCommitsKeeps ==
    ASSUME HistoryInv, NEW ic \in Contexts, NEW ends \in BOOLEAN, UserCommits(ic, ends)
    PROVE  HistoryInv'
  <1> DEFINE n == texts + 1
             h == onCommitString(Here, n, ic, ends, 0)
             X == IF maxLines = 0 THEN {n} ELSE {}
             g == [h EXCEPT !.lost = @ \cup X]
  <1>1. /\ Side(Here, texts) /\ texts \in Nat /\ maxLines \in Nat /\ suppressed = 0
        /\ addon = "running"
        /\ TextsOf(lines) \cup TextsOf(InHand) \subseteq Nat
        /\ maxLines = 0 => Here.buffer = <<>>
    BY WrittenAreNumbers DEF HistoryInv, HistoryTypes, UserCommits, Here
  <1>2. texts' = n /\ Becomes(g) /\ suppressed' = 0 /\ maxLines' = maxLines /\ addon' = addon
    BY <1>1 DEF UserCommits
  <1>3. n \in Nat /\ n # 0 /\ n > texts /\ texts <= n /\ n .. n = {n} /\ X \in SUBSET Nat
    BY <1>1
  <1>4. Side(h, n) /\ Accounted(Here) \cup {n} \subseteq Accounted(h) \cup X
        /\ (maxLines = 0 => h.buffer = <<>>)
    <2>1. CASE maxLines = 0
      <3>1. h = Here
        BY <2>1 DEF onCommitString
      <3>2. Side(Here, n)
        BY <1>1, <1>3, SideLater
      <3> QED
        BY <1>1, <2>1, <3>1, <3>2
    <2>2. CASE maxLines # 0
      <3>1. h = accumulateContextBuffer(Here, n, ic, ends)
        BY <1>3, <2>2 DEF onCommitString
      <3> HIDE DEF h, n
      <3>2. Side(h, n) /\ Accounted(Here) \cup {n} \subseteq Accounted(h)
        BY <1>1, <1>3, <2>2, <3>1, AccumulateKeeps
      <3> QED
        BY <2>2, <3>2
    <2> QED
      BY <2>1, <2>2
  <1> HIDE DEF h, X
  <1>5. Side(g, n) /\ g.buffer = h.buffer /\ Accounted(g) = Accounted(h) \cup X
    BY <1>3, <1>4, LostMore, ZenonT(30)
  <1> HIDE DEF g
  <1>6. Accounted(Here) \subseteq Accounted(g) /\ texts + 1 .. n \subseteq Accounted(g)
    BY <1>3, <1>4, <1>5
  <1>7. n \in Nat /\ texts <= n /\ texts' = n
    BY <1>2, <1>3
  <1> HIDE DEF n
  <1> QED
    BY <1>1, <1>2, <1>4, <1>5, <1>6, <1>7, BecomesKeeps

(* The spoken text of a result goes behind all others, or is given up. *)
LEMMA HeardKeeps ==
    ASSUME NEW h, NEW t \in Nat, Side(h, t), maxLines \in Nat, maxLines = 0 => h.buffer = <<>>,
           NEW n \in Nat, n > t, NEW spoken \in BOOLEAN, TextsOf(lines) \cup TextsOf(InHand) \subseteq Nat
    PROVE  LET g == Heard(h, n, spoken)
           IN  /\ Side(g, n) /\ Accounted(h) \cup {n} \subseteq Accounted(g)
               /\ maxLines = 0 => g.buffer = <<>>
  <1> DEFINE asr == IF spoken THEN appendContextEntry(h, n, "asr") ELSE h
             X == IF maxLines = 0 \/ ~spoken THEN {n} ELSE {}
             g == [asr EXCEPT !.lost = @ \cup X]
  <1>1. X \in SUBSET Nat /\ t <= n
    OBVIOUS
  <1>2. Side(asr, n) /\ Accounted(h) \cup {n} \subseteq Accounted(asr) \cup X
        /\ (maxLines = 0 => asr.buffer = <<>>)
    <2>1. CASE maxLines = 0 \/ ~spoken
      <3>1. asr = h /\ X = {n}
        BY <2>1 DEF appendContextEntry
      <3>2. Side(h, n)
        BY <1>1, SideLater
      <3> QED
        BY <3>1, <3>2
    <2>2. CASE maxLines # 0 /\ spoken
      <3>1. asr = appendContextEntry(h, n, "asr")
        BY <2>2
      <3> HIDE DEF asr
      <3>2. Side(asr, n) /\ Accounted(h) \cup {n} \subseteq Accounted(asr)
        BY <2>2, <3>1, AppendEntryKeeps DEF EntrySources
      <3> QED
        BY <2>2, <3>2
    <2> QED
      BY <2>1, <2>2
  <1> HIDE DEF asr, X
  <1>3. Side(g, n) /\ g.buffer = asr.buffer /\ Accounted(g) = Accounted(asr) \cup X
    BY <1>1, <1>2, LostMore, ZenonT(30)
  <1>4. Heard(h, n, spoken) = g
    BY DEF Heard, asr, X
  <1> HIDE DEF g
  <1> QED
    BY <1>2, <1>3, <1>4

(* So does the text that is committed, with what became of it. *)
LEMMA CommittedKeeps ==
    ASSUME NEW h, NEW t \in Nat, Side(h, t), maxLines \in Nat, maxLines = 0 => h.buffer = <<>>,
           NEW n \in Nat, NEW m \in Nat, n > t, m = n + 1, NEW ic \in Contexts,
           NEW rewritten \in BOOLEAN, NEW changed \in BOOLEAN, NEW ends \in BOOLEAN,
           TextsOf(lines) \cup TextsOf(InHand) \subseteq Nat
    PROVE  LET g == Committed(h, n, ic, rewritten, changed, ends)
           IN  /\ Side(g, m) /\ Accounted(h) \cup {n, m} \subseteq Accounted(g)
               /\ maxLines = 0 => g.buffer = <<>>
  <1> DEFINE llm == IF rewritten THEN appendContextEntry(h, n, "llm") ELSE h
             done == onCommitString(llm, IF changed THEN m ELSE n, ic, ends, n)
             X == IF maxLines = 0 \/ ~rewritten THEN {n} ELSE {}
             Y == IF maxLines = 0 \/ ~changed THEN {m} ELSE {}
             g == [done EXCEPT !.lost = @ \cup (X \cup Y)]
  <1>1. X \cup Y \in SUBSET Nat /\ t <= n /\ t <= m /\ n <= m /\ m > n /\ n # m
    OBVIOUS
  <1>2. Side(llm, n) /\ Accounted(h) \cup {n} \subseteq Accounted(llm) \cup X
        /\ (maxLines = 0 => llm.buffer = <<>>)
    <2>1. CASE maxLines = 0 \/ ~rewritten
      <3>1. llm = h /\ X = {n}
        BY <2>1 DEF appendContextEntry
      <3>2. Side(h, n)
        BY <1>1, SideLater
      <3> QED
        BY <3>1, <3>2
    <2>2. CASE maxLines # 0 /\ rewritten
      <3>1. llm = appendContextEntry(h, n, "llm")
        BY <2>2
      <3> HIDE DEF llm
      <3>2. Side(llm, n) /\ Accounted(h) \cup {n} \subseteq Accounted(llm)
        BY <2>2, <3>1, AppendEntryKeeps DEF EntrySources
      <3> QED
        BY <2>2, <3>2
    <2> QED
      BY <2>1, <2>2
  <1> HIDE DEF llm, X
  <1>3. Side(done, m) /\ Accounted(llm) \cup {m} \subseteq Accounted(done) \cup Y
        /\ (maxLines = 0 => done.buffer = <<>>)
    <2>1. CASE maxLines = 0 \/ ~changed
      <3>1. done = llm /\ Y = {m}
        BY <2>1 DEF onCommitString
      <3>2. Side(llm, m)
        BY <1>1, <1>2, SideLater
      <3> QED
        BY <1>2, <3>1, <3>2
    <2>2. CASE maxLines # 0 /\ changed
      <3>1. done = accumulateContextBuffer(llm, m, ic, ends)
        BY <1>1, <2>2 DEF onCommitString
      <3> HIDE DEF done
      <3>2. Side(done, m) /\ Accounted(llm) \cup {m} \subseteq Accounted(done)
        BY <1>1, <1>2, <2>2, <3>1, AccumulateKeeps, ZenonT(30)
      <3> QED
        BY <2>2, <3>2
    <2> QED
      BY <2>1, <2>2
  <1>4. Committed(h, n, ic, rewritten, changed, ends) = g
    <2>1. g = [done EXCEPT !.lost = @ \cup X \cup Y]
      BY ZenonT(30)
    <2> QED
      BY <2>1 DEF Committed, llm, X
  <1> HIDE DEF done, Y
  <1>5. Side(g, m) /\ g.buffer = done.buffer /\ Accounted(g) = Accounted(done) \cup (X \cup Y)
    BY <1>1, <1>3, LostMore, ZenonT(30)
  <1> HIDE DEF g
  <1> QED
    BY <1>2, <1>3, <1>4, <1>5

(* A result is shown in its menu. *)
LEMMA ResultShownKeeps ==
    ASSUME HistoryInv, NEW spoken \in BOOLEAN, ResultShown(spoken)
    PROVE  HistoryInv'
  <1> DEFINE one == texts + 1
             heard == Heard(Here, one, spoken)
  <1>1. /\ Side(Here, texts) /\ texts \in Nat /\ maxLines \in Nat /\ suppressed = 0
        /\ TextsOf(lines) \cup TextsOf(InHand) \subseteq Nat
        /\ maxLines = 0 => Here.buffer = <<>>
    BY WrittenAreNumbers DEF HistoryInv, HistoryTypes, Here
  <1>2. /\ addon' = "running" /\ maxLines' = maxLines /\ suppressed' = 0
        /\ texts' = one /\ Becomes(heard)
    BY <1>1 DEF ResultShown
  <1>3. one \in Nat /\ one > texts /\ texts <= one /\ texts + 1 .. one = {one}
    BY <1>1
  <1> HIDE DEF one, heard
  <1>4. /\ Side(heard, one) /\ Accounted(Here) \cup {one} \subseteq Accounted(heard)
        /\ maxLines = 0 => heard.buffer = <<>>
    BY <1>1, <1>3, HeardKeeps DEF heard
  <1> QED
    BY <1>1, <1>2, <1>3, <1>4, BecomesKeeps

(* A result is committed, at once or from its menu. *)
LEMMA ResultKeeps ==
    ASSUME HistoryInv, NEW ic \in Contexts, NEW spoken \in BOOLEAN, NEW rewritten \in BOOLEAN,
           NEW changed \in BOOLEAN, NEW ends \in BOOLEAN,
           \/ ResultCommitted(ic, spoken, rewritten, changed, ends)
           \/ selectResultCandidate(ic, rewritten, changed, ends)
    PROVE  HistoryInv'
  <1> DEFINE here == Here
             one == texts + 1
             two == texts + 2
             all == texts + 3
             heard == Heard(here, one, spoken)
             both == Committed(heard, two, ic, rewritten, changed, ends)
             chosen == Committed(here, one, ic, rewritten, changed, ends)
  <1>1. /\ Side(here, texts) /\ texts \in Nat /\ maxLines \in Nat
        /\ TextsOf(lines) \cup TextsOf(InHand) \subseteq Nat
        /\ maxLines = 0 => here.buffer = <<>>
    BY WrittenAreNumbers DEF HistoryInv, HistoryTypes, Here
  <1>2. /\ addon' = "running" /\ maxLines' = maxLines /\ suppressed' = 0
        /\ \/ texts' = all /\ Becomes(both)
           \/ texts' = two /\ Becomes(chosen)
    BY DEF ResultCommitted, selectResultCandidate
  <1>3. /\ one \in Nat /\ two \in Nat /\ all \in Nat /\ one > texts /\ two > one
        /\ two = one + 1 /\ all = two + 1 /\ texts <= two /\ texts <= all
        /\ texts + 1 .. two = {one, two} /\ texts + 1 .. all = {one, two, all}
    BY <1>1
  <1> HIDE DEF here, one, two, all, heard, both, chosen
  <1>4. /\ Side(heard, one) /\ Accounted(here) \cup {one} \subseteq Accounted(heard)
        /\ maxLines = 0 => heard.buffer = <<>>
    BY <1>1, <1>3, HeardKeeps DEF heard
  <1>5. /\ Side(chosen, two) /\ Accounted(here) \cup {one, two} \subseteq Accounted(chosen)
        /\ maxLines = 0 => chosen.buffer = <<>>
    <2>1. texts \in Nat /\ one \in Nat /\ two \in Nat /\ one > texts /\ two = one + 1
      BY <1>1, <1>3
    <2> QED
      BY <1>1, <2>1, CommittedKeeps DEF chosen
  <1>6. /\ Side(both, all) /\ Accounted(heard) \cup {two, all} \subseteq Accounted(both)
        /\ maxLines = 0 => both.buffer = <<>>
    BY <1>1, <1>3, <1>4, CommittedKeeps DEF both
  <1>7. CASE texts' = two /\ Becomes(chosen)
    BY <1>1, <1>2, <1>3, <1>5, <1>7, BecomesKeeps DEF here
  <1>8. CASE texts' = all /\ Becomes(both)
    BY <1>1, <1>2, <1>3, <1>4, <1>6, <1>8, BecomesKeeps DEF here
  <1> QED
    BY <1>2, <1>7, <1>8

(* The buffer goes to the queue, by the timer, with its input context or   *)
(* with the addon. *)
LEMMA FlushingKeeps ==
    ASSUME HistoryInv,
           \/ FlushTimer
           \/ \E ic \in Contexts : ContextDestroyed(ic)
           \/ Destroy
    PROVE  HistoryInv'
  <1> DEFINE f == flushContextBuffer(Here)
             g == [f EXCEPT !.timer = FALSE]
  <1>1. /\ Side(Here, texts) /\ texts \in Nat /\ maxLines \in Nat /\ suppressed = 0
        /\ addon = "running" /\ (maxLines # 0 \/ Here.buffer = <<>>)
    BY DEF HistoryInv, HistoryTypes, FlushTimer, ContextDestroyed, Destroy, Here
  <1>2. /\ Becomes(f) \/ Becomes(g)
        /\ texts' = texts /\ suppressed' = 0 /\ maxLines' = maxLines
        /\ addon' \in {"running", "stopping"}
    BY <1>1 DEF FlushTimer, ContextDestroyed, Destroy
  <1>3. Side(f, texts) /\ f.buffer = <<>> /\ Accounted(Here) \subseteq Accounted(f)
    BY <1>1, FlushKeeps
  <1>4. texts + 1 .. texts = {} /\ texts <= texts
    BY <1>1
  <1> HIDE DEF f
  <1>5. f \in SideType
    BY <1>3 DEF Side
  <1>6. g \in SideType /\ g.buffer = f.buffer /\ g.pending = f.pending /\ g.lost = f.lost
    BY <1>5, ZenonT(30) DEF SideType
  <1> HIDE DEF g
  <1>7. Side(g, texts) /\ Accounted(g) = Accounted(f)
    BY <1>3, <1>6, ZenonT(30) DEF Side, Accounted
  <1>8. CASE Becomes(f)
    BY <1>1, <1>2, <1>3, <1>4, <1>8, BecomesKeeps
  <1>9. CASE Becomes(g)
    BY <1>1, <1>2, <1>3, <1>4, <1>6, <1>7, <1>9, BecomesKeeps
  <1> QED
    BY <1>2, <1>8, <1>9

LEMMA ReloadKeeps ==
    ASSUME HistoryInv, NEW n \in LineCounts, reloadSceneConfig(n)
    PROVE  HistoryInv'
  <1> DEFINE g == [Here EXCEPT !.buffer = <<>>, !.ic = NoContext, !.timer = FALSE,
                               !.lost = In(buffer)]
  <1>1. Side(Here, texts) /\ texts \in Nat /\ Here \in SideType
    BY ZenonT(30) DEF HistoryInv, HistoryTypes, Side
  <1>2. /\ texts' = texts /\ suppressed' = 0 /\ maxLines' = n /\ n \in Nat /\ addon' = "running"
    BY CountsAreNatural DEF reloadSceneConfig, HistoryInv, HistoryTypes
  <1>3. texts + 1 .. texts = {} /\ texts <= texts
    BY <1>1
  <1>4. CASE n # 0
    <2>1. Becomes(Here)
      BY <1>4 DEF reloadSceneConfig
    <2> QED
      BY <1>1, <1>2, <1>3, <1>4, <2>1, BecomesKeeps
  <1>5. CASE n = 0
    <2>1. Becomes(g)
      BY <1>5 DEF reloadSceneConfig
    <2>2. In(buffer) \subseteq Nat /\ Here.buffer = buffer
      BY <1>1, TextsAreNumbers DEF Here
    <2>3. <<>> \in Seq(Nat) /\ In(<<>>) = {} /\ Sorted(<<>>)
      BY NoTexts
    <2>4. g \in SideType /\ g.buffer = <<>> /\ g.pending = Here.pending /\ g.lost = In(buffer)
      BY <1>1, <2>2, <2>3, ZenonT(30) DEF SideType
    <2> HIDE DEF g
    <2>5. Side(g, texts)
      BY <1>1, <2>3, <2>4 DEF Side, Below
    <2>6. Accounted(Here) \subseteq Accounted(g)
      BY <2>2, <2>3, <2>4, ZenonT(30) DEF Accounted, Here
    <2> QED
      BY <1>1, <1>2, <1>3, <2>1, <2>4, <2>5, <2>6, BecomesKeeps
  <1> QED
    BY <1>4, <1>5

(* A text that is nowhere is older than what was written. *)
LEMMA MissingIsOlder ==
    ASSUME HistoryInv,
           NEW n \in 1 .. texts \ (unsaved \cup TextsOf(lines) \cup TextsOf(InHand)
                                      \cup TextsOf(pending) \cup In(buffer))
    PROVE  TextsOf(lines) # {} /\ \A k \in TextsOf(lines) \cup TextsOf(InHand) : n < k
  <1>1. HistoryTypes /\ n \in Nat
    BY DEF HistoryInv, HistoryTypes
  <1>2. TextsOf(lines) \cup TextsOf(InHand) \subseteq Nat
    BY <1>1, WrittenAreNumbers
  <1>3. TextsOf(lines) # {} /\ \A k \in TextsOf(lines) : n < k
    BY DEF HistoryInv, HistoryComplete
  <1>4. \A j \in TextsOf(lines), k \in TextsOf(InHand) : j < k
    BY DEF HistoryInv, Below
  <1> QED
    BY <1>1, <1>2, <1>3, <1>4

(* Texts move towards the file, and the oldest, D, out of it. *)
LEMMA MovedKeeps ==
    ASSUME HistoryInv, HistoryTypes', NEW D, texts' = texts, unsaved \subseteq unsaved',
           Increasing(pending'), Sorted(buffer'), Increasing(lines'), Increasing(InHand'),
           TextsOf(lines') \subseteq TextsOf(lines) \cup TextsOf(InHand),
           TextsOf(InHand') \subseteq TextsOf(InHand) \cup TextsOf(pending),
           TextsOf(pending') \subseteq TextsOf(pending), In(buffer') \subseteq In(buffer),
           Below(TextsOf(lines'), TextsOf(InHand')), Below(TextsOf(InHand'), TextsOf(pending')),
           Below(TextsOf(lines'), TextsOf(pending') \cup In(buffer')),
           TextsOf(lines) \cup TextsOf(InHand) \cup TextsOf(pending) \cup In(buffer)
             \subseteq unsaved' \cup TextsOf(lines') \cup TextsOf(InHand') \cup TextsOf(pending')
                         \cup In(buffer') \cup D,
           Below(D, TextsOf(lines')), TextsOf(lines') = {} => TextsOf(lines) = {} /\ D = {},
           writer' = "none" => pending' = <<>>,
           maxLines' = 0 \/ addon' # "running" => buffer' = <<>>,
           addon' = "down" => writer' = "none"
    PROVE  HistoryInv'
  <1>1. /\ Side(Here, texts) /\ Here.pending = pending /\ Here.buffer = buffer
        /\ Here'.pending = pending' /\ Here'.buffer = buffer'
    BY ZenonT(30) DEF HistoryInv, Here
  <1>2. Here' \in SideType
    BY ZenonT(30) DEF Here, HistoryTypes, SideType
  <1>3. Side(Here, texts)'
    <2>1. Below(TextsOf(pending'), In(buffer'))
      BY <1>1, ZenonT(30) DEF Side, Below
    <2>2. Below(TextsOf(InHand'), In(buffer'))
      BY <1>1, ZenonT(30) DEF Side, Below
    <2>3. \A n \in TextsOf(pending') \cup In(buffer') :
            n <= texts /\ Below(TextsOf(lines') \cup TextsOf(InHand'), {n})
      BY <1>1, <2>2, ZenonT(30) DEF Side, Below
    <2>4. \A n \in TextsOf(lines') \cup TextsOf(InHand') : n <= texts
      BY <1>1, ZenonT(30) DEF Side
    <2>5. (TextsOf(lines) \cup TextsOf(InHand))' = TextsOf(lines') \cup TextsOf(InHand')
      OBVIOUS
    <2>6. Increasing(Here'.pending) /\ Sorted(Here'.buffer)
          /\ Below(TextsOf(Here'.pending), In(Here'.buffer))
      BY <1>1, <2>1, ZenonT(30)
    <2> HIDE DEF Here
    <2> QED
      BY <1>1, <1>2, <2>3, <2>4, <2>6, ZenonT(30) DEF Side
  <1>4. Increasing(lines)' /\ Increasing(InHand)' /\ Below(TextsOf(lines), TextsOf(InHand))'
    OBVIOUS
  <1>5. HistoryComplete'
    <2> DEFINE old == unsaved \cup TextsOf(lines) \cup TextsOf(InHand) \cup TextsOf(pending)
                        \cup In(buffer)
               now == unsaved' \cup TextsOf(lines') \cup TextsOf(InHand') \cup TextsOf(pending')
                        \cup In(buffer')
    <2>1. old \subseteq now \cup D
      OBVIOUS
    <2>2. \A n \in 1 .. texts \ now : n \in D \/ n \in 1 .. texts \ old
      BY <2>1
    <2>3. \A n \in 1 .. texts \ old :
            TextsOf(lines) # {} /\ \A k \in TextsOf(lines) \cup TextsOf(InHand) : n < k
      BY MissingIsOlder, ZenonT(30)
    <2> HIDE DEF old
    <2>4. \A n \in 1 .. texts \ now : \A k \in TextsOf(lines') : n < k
      BY <2>2, <2>3 DEF Below
    <2>5. TextsOf(lines') = {} => 1 .. texts \subseteq now
      BY <2>2, <2>3, ZenonT(30)
    <2>6. addon' = "down" => TextsOf(InHand') \cup TextsOf(pending') \cup In(buffer') = {}
      <3>1. addon' = "down" => InHand' = <<>> /\ pending' = <<>> /\ buffer' = <<>>
        BY DEF InHand
      <3> QED
        BY <3>1, NoTexts
    <2> QED
      BY <2>4, <2>5, <2>6, ZenonT(30) DEF HistoryComplete
  <1> QED
    BY <1>3, <1>4, <1>5 DEF HistoryInv

LEMMA JoinedKeeps ==
    ASSUME HistoryInv, Joined
    PROVE  HistoryInv'
  <1>1. HistoryTypes'
    BY DEF HistoryInv, HistoryTypes, Joined
  <1>2. /\ texts' = texts /\ unsaved' = unsaved /\ lines' = lines /\ pending' = pending
        /\ buffer' = buffer
        /\ InHand' = InHand /\ writer' = "none" /\ pending = <<>> /\ buffer = <<>>
    BY DEF HistoryInv, Joined, InHand
  <1>3. Increasing(pending) /\ Sorted(buffer) /\ TextsOf(pending) = {} /\ In(buffer) = {}
    BY <1>2, NoTexts
  <1>4. Increasing(lines) /\ Increasing(InHand) /\ Below(TextsOf(lines), TextsOf(InHand))
    BY DEF HistoryInv
  <1> QED
    BY <1>1, <1>2, <1>3, <1>4, MovedKeeps DEF Below

LEMMA DiesKeeps ==
    ASSUME HistoryInv, InputMethodDies
    PROVE  HistoryInv'
  <1>1. In(buffer) \cup TextsOf(pending) \cup TextsOf(InHand) \subseteq Nat
    <2>1. Here \in SideType /\ Here.buffer = buffer /\ Here.pending = pending /\ HistoryTypes
      BY ZenonT(30) DEF HistoryInv, Side, Here
    <2> QED
      BY <2>1, TextsAreNumbers, WrittenAreNumbers
  <1>2. TextsOf(InHand) = IF writer = "writing" THEN In(task.text) ELSE {}
    BY OneEntry, NoTexts, ZenonT(30) DEF InHand
  <1>3. /\ texts' = texts /\ lines' = lines /\ pending' = <<>> /\ buffer' = <<>> /\ InHand' = <<>>
        /\ writer' = "none" /\ addon' = "running"
        /\ unsaved' = unsaved \cup In(buffer) \cup TextsOf(pending) \cup TextsOf(InHand)
    BY <1>2 DEF InputMethodDies, Fresh, InHand
  <1>4. HistoryTypes'
    <2>1. unsaved' \subseteq Nat
      BY <1>1, <1>3, ZenonT(30) DEF HistoryInv, HistoryTypes
    <2>2. timer' \in BOOLEAN /\ bufferIc' \in Contexts \cup {NoContext} /\ suppressed' = 0
          /\ maxLines' = maxLines
      BY ZenonT(30) DEF InputMethodDies, Fresh
    <2>3. <<>> \in Seq(Nat) /\ <<>> \in Seq(RecordType)
      OBVIOUS
    <2> QED
      BY <1>3, <2>1, <2>2, <2>3 DEF HistoryInv, HistoryTypes
  <1>5. Increasing(pending') /\ Sorted(buffer') /\ Increasing(InHand') /\ TextsOf(pending') = {}
        /\ In(buffer') = {} /\ TextsOf(InHand') = {}
    BY <1>3, NoTexts
  <1>6. Increasing(lines)
    BY DEF HistoryInv
  <1> QED
    BY <1>3, <1>4, <1>5, <1>6, MovedKeeps DEF Below

LEMMA RunTakesKeeps ==
    ASSUME HistoryInv, RunTakes
    PROVE  HistoryInv'
  <1>1. /\ Increasing(lines) /\ Increasing(pending) /\ Sorted(buffer)
        /\ Below(TextsOf(pending), In(buffer))
        /\ Below(TextsOf(lines) \cup TextsOf(InHand), TextsOf(pending) \cup In(buffer))
    BY ZenonT(30) DEF HistoryInv, Side, Here, Below
  <1>2. InHand = <<>> /\ TextsOf(InHand) = {}
    BY NoTexts DEF RunTakes, InHand
  <1>3. /\ texts' = texts /\ unsaved' = unsaved /\ lines' = lines /\ buffer' = buffer
        /\ addon' = addon
        /\ maxLines' = maxLines /\ addon # "down"
        /\ maxLines' = 0 \/ addon' # "running" => buffer' = <<>>
    BY DEF HistoryInv, RunTakes
  <1>4. CASE pending = <<>>
    <2>1. pending' = <<>> /\ InHand' = <<>> /\ writer' = "none"
      BY <1>4 DEF RunTakes, InHand
    <2>2. HistoryTypes'
      BY <1>4, <2>1 DEF HistoryInv, HistoryTypes, RunTakes
    <2>3. TextsOf(pending') = {} /\ TextsOf(InHand') = {} /\ Increasing(pending')
          /\ Increasing(InHand')
          /\ TextsOf(pending) = {}
      BY <1>4, <2>1, NoTexts
    <2> QED
      BY <1>1, <1>2, <1>3, <2>1, <2>2, <2>3, MovedKeeps, ZenonT(30) DEF Below
  <1>5. CASE pending # <<>>
    <2>1. pending' = Tail(pending) /\ task' = Head(pending) /\ writer' = "writing"
          /\ InHand' = <<Head(pending)>>
      BY <1>5 DEF RunTakes, InHand
    <2>2. pending \in Seq(RecordType)
      BY DEF HistoryInv, HistoryTypes
    <2>3. /\ Head(pending) \in RecordType /\ Tail(pending) \in Seq(RecordType)
          /\ TextsOf(pending) = In(Head(pending).text) \cup TextsOf(Tail(pending))
          /\ Sorted(Head(pending).text) /\ Increasing(Tail(pending))
          /\ Below(In(Head(pending).text), TextsOf(Tail(pending)))
      BY <1>1, <1>5, <2>2, FirstEntry
    <2>4. HistoryTypes'
      BY <2>1, <2>3 DEF HistoryInv, HistoryTypes, RunTakes
    <2>5. TextsOf(InHand') = In(Head(pending).text) /\ Increasing(InHand')
      BY <2>1, <2>3, OneEntry
    <2>6. TextsOf(pending') = TextsOf(Tail(pending)) /\ Increasing(pending') /\ writer' # "none"
      BY <2>1, <2>3
    <2> QED
      BY <1>1, <1>2, <1>3, <2>3, <2>4, <2>5, <2>6, MovedKeeps, ZenonT(30) DEF Below
  <1> QED
    BY <1>4, <1>5

LEMMA PersistFailsKeeps ==
    ASSUME HistoryInv, PersistFails
    PROVE  HistoryInv'
  <1>1. /\ Increasing(lines) /\ Increasing(pending) /\ Sorted(buffer)
        /\ Below(TextsOf(lines), TextsOf(pending) \cup In(buffer))
    BY ZenonT(30) DEF HistoryInv, Side, Here, Below
  <1>2. TextsOf(InHand) = In(task.text) /\ TextsOf(InHand) \subseteq Nat
    <2>1. InHand = <<task>> /\ HistoryTypes
      BY DEF HistoryInv, PersistFails, InHand
    <2> QED
      BY <2>1, OneEntry, WrittenAreNumbers
  <1>3. /\ texts' = texts /\ unsaved' = unsaved \cup TextsOf(InHand) /\ lines' = lines
        /\ buffer' = buffer
        /\ pending' = pending /\ addon' = addon /\ addon # "down" /\ InHand' = <<>>
        /\ writer' = "waiting"
        /\ maxLines' = 0 \/ addon' # "running" => buffer' = <<>>
    BY <1>2 DEF HistoryInv, PersistFails, InHand
  <1>4. HistoryTypes'
    BY <1>2, <1>3, ZenonT(30) DEF HistoryInv, HistoryTypes, PersistFails
  <1>5. TextsOf(InHand') = {} /\ Increasing(InHand')
    BY <1>3, NoTexts
  <1> QED
    BY <1>1, <1>3, <1>4, <1>5, MovedKeeps DEF Below

LEMMA PersistAppendsKeeps ==
    ASSUME HistoryInv, PersistAppends
    PROVE  HistoryInv'
  <1>1. /\ Increasing(lines) /\ Increasing(pending) /\ Sorted(buffer) /\ Increasing(InHand)
        /\ Below(TextsOf(lines) \cup TextsOf(InHand), TextsOf(pending) \cup In(buffer))
        /\ Below(TextsOf(lines), TextsOf(InHand))
    BY ZenonT(30) DEF HistoryInv, Side, Here, Below
  <1>2. InHand = <<task>> /\ task \in RecordType /\ lines \in Seq(RecordType)
    BY DEF HistoryInv, HistoryTypes, PersistAppends, InHand
  <1>3. TextsOf(InHand) = In(task.text) /\ Sorted(task.text)
    <2>1. 1 \in DOMAIN InHand /\ InHand[1] = task
      BY <1>2
    <2> QED
      BY <1>1, <1>2, <2>1, OneEntry, ZenonT(30) DEF Increasing
  <1>4. /\ texts' = texts /\ unsaved' = unsaved /\ lines' = Append(lines, task) /\ buffer' = buffer
        /\ pending' = pending /\ task' = task /\ addon' = addon /\ addon # "down"
        /\ InHand' = <<>> /\ writer' \in {"waiting", "rotating"}
        /\ maxLines' = 0 \/ addon' # "running" => buffer' = <<>>
    BY DEF HistoryInv, PersistAppends, InHand
  <1>5. /\ lines' \in Seq(RecordType) /\ TextsOf(lines') = TextsOf(lines) \cup TextsOf(InHand)
        /\ Increasing(lines')
    <2>1. Below(TextsOf(lines), In(task.text))
      BY <1>1, <1>3
    <2>2. /\ Append(lines, task) \in Seq(RecordType)
          /\ TextsOf(Append(lines, task)) = TextsOf(lines) \cup In(task.text)
      BY <1>2, AppendedEntry
    <2>3. Increasing(Append(lines, task))
      BY <1>1, <1>2, <1>3, <2>1, AppendedEntry
    <2> QED
      BY <1>3, <1>4, <2>2, <2>3
  <1>6. HistoryTypes'
    BY <1>2, <1>4, <1>5 DEF HistoryInv, HistoryTypes, PersistAppends
  <1>7. TextsOf(InHand') = {} /\ Increasing(InHand')
    BY <1>4, NoTexts
  <1> QED
    BY <1>1, <1>4, <1>5, <1>6, <1>7, MovedKeeps, ZenonT(30) DEF Below

LEMMA PersistRotatesKeeps ==
    ASSUME HistoryInv, PersistRotates
    PROVE  HistoryInv'
  <1>1. /\ Increasing(lines) /\ Increasing(pending) /\ Sorted(buffer)
        /\ Below(TextsOf(lines), TextsOf(pending) \cup In(buffer))
    BY ZenonT(30) DEF HistoryInv, Side, Here, Below
  <1>2. InHand = <<>> /\ TextsOf(InHand) = {} /\ task \in RecordType /\ lines \in Seq(RecordType)
    BY NoTexts DEF HistoryInv, HistoryTypes, PersistRotates, InHand
  <1>3. /\ texts' = texts /\ unsaved' = unsaved /\ buffer' = buffer
        /\ pending' = pending /\ task' = task /\ addon' = addon /\ addon # "down"
        /\ InHand' = <<>> /\ writer' = "waiting"
        /\ maxLines' = 0 \/ addon' # "running" => buffer' = <<>>
    BY DEF HistoryInv, PersistRotates, InHand
  <1>4. TextsOf(InHand') = {} /\ Increasing(InHand')
    BY <1>3, NoTexts
  <1> DEFINE n == Len(lines) - task.max
             a == SubSeq(lines, 1, n)
             b == SubSeq(lines, n + 1, Len(lines))
  <1>5. \E D : /\ lines' \in Seq(RecordType) /\ Increasing(lines')
               /\ TextsOf(lines) = D \cup TextsOf(lines') /\ Below(D, TextsOf(lines'))
               /\ TextsOf(lines') = {} => TextsOf(lines) = {} /\ D = {}
    <2>1. CASE lines' = lines
      BY <1>1, <1>2, <2>1 DEF Below
    <2>2. CASE lines' # lines
      <3>1. lines' = b /\ Len(lines) > task.max
        BY <2>2, ZenonT(30) DEF PersistRotates
      <3>2. task.max \in Nat /\ task.max > 0 /\ Len(lines) \in Nat
        BY <1>2 DEF RecordType
      <3>3. n \in 0 .. Len(lines) /\ Len(lines) - n = task.max
        BY <3>1, <3>2
      <3> HIDE DEF n
      <3>4. /\ b \in Seq(RecordType) /\ Len(b) = task.max
            /\ TextsOf(lines) = TextsOf(a) \cup TextsOf(b)
            /\ Increasing(b) /\ Below(TextsOf(a), TextsOf(b))
        BY <1>1, <1>2, <3>3, LastEntries
      <3> HIDE DEF a, b
      <3>5. TextsOf(b) # {}
        <4>1. 1 \in DOMAIN b /\ b[1] \in RecordType
          BY <3>2, <3>4
        <4>2. b[1].text \in Seq(Nat) /\ b[1].text # <<>>
          BY <4>1 DEF RecordType
        <4>3. 1 \in DOMAIN b[1].text
          <5> DEFINE x == b[1].text
          <5>1. x \in Seq(Nat) /\ x # <<>>
            BY <4>2
          <5> HIDE DEF x
          <5>2. 1 \in DOMAIN x
            BY <5>1
          <5> QED
            BY <5>2 DEF x
        <4> QED
          <5>1. b[1].text[1] \in In(b[1].text)
            BY <4>3 DEF In
          <5>2. In(b[1].text) \subseteq TextsOf(b)
            BY <4>1 DEF TextsOf
          <5> QED
            BY <5>1, <5>2
      <3> QED
        BY <3>1, <3>4, <3>5
    <2> QED
      BY <2>1, <2>2
  <1>6. PICK D : /\ lines' \in Seq(RecordType) /\ Increasing(lines')
                 /\ TextsOf(lines) = D \cup TextsOf(lines') /\ Below(D, TextsOf(lines'))
                 /\ TextsOf(lines') = {} => TextsOf(lines) = {} /\ D = {}
    BY <1>5
  <1>7. HistoryTypes'
    BY <1>2, <1>3, <1>6 DEF HistoryInv, HistoryTypes, PersistRotates
  <1> QED
    BY <1>1, <1>2, <1>3, <1>4, <1>6, <1>7, MovedKeeps, ZenonT(30) DEF Below

-----------------------------------------------------------------------------
LEMMA HistoryStarts == HistoryInit => HistoryInv
  <1> SUFFICES ASSUME HistoryInit
               PROVE  HistoryInv
    OBVIOUS
  <1>1. /\ addon = "running" /\ maxLines \in Nat /\ buffer = <<>> /\ pending = <<>>
        /\ writer = "none"
        /\ lines = <<>> /\ texts = 0 /\ unsaved = {} /\ InHand = <<>>
    BY CountsAreNatural DEF HistoryInit, InHand
  <1>2. HistoryTypes
    <2>1. <<>> \in Seq(Nat) /\ <<>> \in Seq(RecordType)
      OBVIOUS
    <2>2. timer \in BOOLEAN /\ bufferIc \in Contexts \cup {NoContext} /\ suppressed = 0
      BY ZenonT(30) DEF HistoryInit
    <2> QED
      BY <1>1, <2>1, <2>2 DEF HistoryTypes
  <1>3. /\ In(buffer) = {} /\ Sorted(buffer) /\ TextsOf(pending) = {} /\ Increasing(pending)
        /\ TextsOf(lines) = {} /\ Increasing(lines) /\ TextsOf(InHand) = {} /\ Increasing(InHand)
    BY <1>1, NoTexts
  <1>4. Here \in SideType /\ Here.buffer = buffer /\ Here.pending = pending
    BY <1>2, ZenonT(30) DEF Here, HistoryTypes, SideType
  <1>5. Side(Here, texts)
    BY <1>3, <1>4 DEF Side, Below
  <1>6. HistoryComplete
    BY <1>1, <1>3 DEF HistoryComplete
  <1> QED
    BY <1>1, <1>2, <1>3, <1>5, <1>6 DEF HistoryInv, Below

LEMMA HistorySteps == HistoryInv /\ [HistoryNext]_historyVars => HistoryInv'
  <1> SUFFICES ASSUME HistoryInv, [HistoryNext]_historyVars
               PROVE  HistoryInv'
    OBVIOUS
  <1>1. ASSUME NEW ic \in Contexts, NEW ends \in BOOLEAN, UserCommits(ic, ends)
        PROVE  HistoryInv'
    BY <1>1, UserCommitsKeeps
  <1>2. ASSUME NEW ic \in Contexts, NEW spoken \in BOOLEAN, NEW rewritten \in BOOLEAN,
               NEW changed \in BOOLEAN, NEW ends \in BOOLEAN,
               \/ ResultCommitted(ic, spoken, rewritten, changed, ends)
               \/ selectResultCandidate(ic, rewritten, changed, ends)
        PROVE  HistoryInv'
    BY <1>2, ResultKeeps
  <1>3. CASE FlushTimer \/ (\E ic \in Contexts : ContextDestroyed(ic)) \/ Destroy
    BY <1>3, FlushingKeeps
  <1>4. ASSUME NEW n \in LineCounts, reloadSceneConfig(n)
        PROVE  HistoryInv'
    BY <1>4, ReloadKeeps
  <1>5. CASE Joined \/ InputMethodDies
    BY <1>5, JoinedKeeps, DiesKeeps
  <1>6. CASE Writer
    BY <1>6, RunTakesKeeps, PersistFailsKeeps, PersistAppendsKeeps, PersistRotatesKeeps
       DEF Writer
  <1>7. CASE hideResultMenu \/ UNCHANGED historyVars
    <2>1. /\ HistoryTypes' = HistoryTypes /\ Here' = Here /\ InHand' = InHand /\ lines' = lines
          /\ texts' = texts
          /\ unsaved' = unsaved /\ buffer' = buffer /\ pending' = pending /\ writer' = writer
          /\ maxLines' = maxLines /\ addon' = addon
      BY <1>7, ZenonT(30) DEF hideResultMenu, historyVars, HistoryTypes, Here, InHand
    <2> QED
      BY <2>1, ZenonT(30) DEF HistoryInv, Side, HistoryComplete
  <1>8. CASE \E ic \in Contexts, rewritten, changed, ends \in BOOLEAN :
                /\ ends => changed
                /\ \/ \E spoken \in BOOLEAN : ResultCommitted(ic, spoken, rewritten, changed, ends)
                   \/ selectResultCandidate(ic, rewritten, changed, ends)
    <2> PICK ic \in Contexts, rewritten \in BOOLEAN, changed \in BOOLEAN, ends \in BOOLEAN :
              \/ \E spoken \in BOOLEAN : ResultCommitted(ic, spoken, rewritten, changed, ends)
              \/ selectResultCandidate(ic, rewritten, changed, ends)
      BY <1>8, ZenonT(30)
    <2>1. CASE \E spoken \in BOOLEAN : ResultCommitted(ic, spoken, rewritten, changed, ends)
      BY <1>2, <2>1, ZenonT(30)
    <2>2. CASE selectResultCandidate(ic, rewritten, changed, ends)
      BY <1>2, <2>2, TRUE \in BOOLEAN, ZenonT(30)
    <2> QED
      BY <2>1, <2>2
  <1>9. CASE \E spoken \in BOOLEAN : ResultShown(spoken)
    <2> PICK spoken \in BOOLEAN : ResultShown(spoken)
      BY <1>9
    <2> QED
      BY ResultShownKeeps
  <1> QED
    BY <1>1, <1>3, <1>4, <1>5, <1>6, <1>7, <1>8, <1>9, ZenonT(30) DEF HistoryNext

(* Parts in order are in order when read one after another. *)
LEMMA HistoryOrdered == HistoryInv => HistoryIsFaithful
  <1> SUFFICES ASSUME HistoryInv
               PROVE  HistoryIsFaithful
    OBVIOUS
  <1> DEFINE e == Entry("user", buffer, maxLines)
             S == RecordType \cup {e}
  <1>1. /\ Increasing(lines) /\ Increasing(InHand) /\ Increasing(pending) /\ Sorted(buffer)
        /\ Below(TextsOf(lines), TextsOf(InHand)) /\ Below(TextsOf(pending), In(buffer))
        /\ Below(TextsOf(lines) \cup TextsOf(InHand), TextsOf(pending) \cup In(buffer))
    BY ZenonT(30) DEF HistoryInv, Side, Here, Below
  <1>2. e.text = buffer
    BY DEF Entry
  <1> HIDE DEF e
  <1>3. lines \in Seq(S) /\ InHand \in Seq(S) /\ pending \in Seq(S) /\ <<e>> \in Seq(S)
    BY WrittenAreNumbers DEF HistoryInv, HistoryTypes
  <1>4. TextsOf(<<e>>) = In(buffer) /\ Increasing(<<e>>)
    BY <1>1, <1>2, OneEntry
  <1> HIDE DEF S
  <1>5. /\ lines \o InHand \in Seq(S) /\ Increasing(lines \o InHand)
        /\ TextsOf(lines \o InHand) = TextsOf(lines) \cup TextsOf(InHand)
    BY <1>1, <1>3, TextsConcat, IncreasingConcat
  <1> DEFINE w == lines \o InHand
  <1>6. w \in Seq(S) /\ Increasing(w) /\ TextsOf(w) = TextsOf(lines) \cup TextsOf(InHand)
    BY <1>5
  <1> HIDE DEF w
  <1>7. Below(TextsOf(w), TextsOf(pending)) /\ Below(TextsOf(w), In(buffer))
    BY <1>1, <1>6 DEF Below
  <1>8. /\ w \o pending \in Seq(S) /\ Increasing(w \o pending)
        /\ TextsOf(w \o pending) = TextsOf(w) \cup TextsOf(pending)
    <2>1. w \o pending \in Seq(S)
      BY <1>3, <1>6
    <2>2. TextsOf(w \o pending) = TextsOf(w) \cup TextsOf(pending)
      BY <1>3, <1>6, TextsConcat
    <2>3. Increasing(w \o pending)
      BY <1>1, <1>3, <1>6, <1>7, IncreasingConcat, ZenonT(30)
    <2> QED
      BY <2>1, <2>2, <2>3
  <1>9. Below(TextsOf(w \o pending), TextsOf(<<e>>))
    BY <1>1, <1>4, <1>7, <1>8 DEF Below
  <1>10. Increasing((w \o pending) \o <<e>>)
    BY <1>3, <1>4, <1>8, <1>9, IncreasingConcat, ZenonT(30)
  <1>11. HistoryInOrder
    BY <1>10 DEF HistoryInOrder, w, e
  <1> QED
    BY <1>11 DEF HistoryIsFaithful, HistoryInv

(* The history holds what was committed, in that order, and all of it.     *)
(* File, entry being written, queue and buffer, read one after another,    *)
(* are in the order of the commits for any number of texts, input          *)
(* contexts, kills and failed writes and any size of the queue, and a text *)
(* in none of them was dropped for a cause the code knows.                 *)
THEOREM HistoryFaithful == HistorySpec => []HistoryIsFaithful
  <1>1. HistoryInit => HistoryInv
    BY HistoryStarts
  <1>2. HistoryInv /\ [HistoryNext]_historyVars => HistoryInv'
    BY HistorySteps
  <1>3. HistoryInv => HistoryIsFaithful
    BY HistoryOrdered
  <1> QED
    BY <1>1, <1>2, <1>3, PTL DEF HistorySpec

-----------------------------------------------------------------------------
(* Every thread belongs to a process. *)
ThreadsPlaced == ProcessOf \in [Threads -> Processes]

FileType == [stamp : Nat, has : SUBSET Nat, ok : BOOLEAN]
CacheType == [valid : BOOLEAN, stamp : Nat, has : SUBSET Nat]

StoreTypes ==
    /\ file \in FileType
    /\ cache \in [Processes -> CacheType]
    /\ pc \in [Threads -> Places]
    /\ base \in [Threads -> SUBSET Nat]
    /\ stamp \in [Threads -> Nat]
    /\ mine \in [Threads -> Nat]
    /\ seen \in [Threads -> SUBSET SUBSET Nat]

(* No stamp is newer than the file's. *)
StampsKnown ==
    /\ \A p \in Processes : cache[p].stamp <= file.stamp
    /\ \A t \in Threads : stamp[t] <= file.stamp /\ mine[t] <= file.stamp

(* What is cached under the stamp of the file is what the file holds. *)
CacheTells ==
    \A p \in Processes : p \notin crossed /\ cache[p].valid /\ cache[p].stamp = file.stamp =>
        cache[p].has = Contents(file)

(* A save that nobody overtook finds its own file. *)
OwnWrite ==
    \A t \in Threads : pc[t] = "remember" /\ mine[t] = file.stamp => base[t] = Contents(file)

(* A load that has not read the file yet counts what is in it now. *)
ReadSees == \A t \in Threads : pc[t] = "read" => Contents(file) \in seen[t]

StoreInv == StoreTypes /\ StampsKnown /\ CacheTells /\ OwnWrite /\ ReadSees /\ LoadIsFresh

(* What a load compares with the file: nothing in a process that just      *)
(* started, else the cache, which is as old as its stamp says.             *)
LEMMA KnownCache ==
    ASSUME ThreadsPlaced, StoreInv, NEW p \in Processes, NEW STATE known,
           known = IF p \in OneShot THEN NoCache ELSE cache[p]
    PROVE  /\ known \in CacheType /\ known.stamp <= file.stamp
           /\ p \notin crossed /\ CacheHit(known) => known.has = Contents(file)
  <1>1. CASE p \in OneShot
    <2>1. NoCache \in CacheType /\ NoCache.stamp = 0 /\ ~NoCache.valid
      BY DEF NoCache, CacheType
    <2>2. file.stamp \in Nat
      BY DEF StoreInv, StoreTypes, FileType
    <2> QED
      BY <1>1, <2>1, <2>2 DEF CacheHit
  <1>2. CASE p \notin OneShot
    BY <1>2 DEF StoreInv, StoreTypes, StampsKnown, CacheTells, CacheHit
  <1> QED
    BY <1>1, <1>2

LEMMA LoadStatKeeps ==
    ASSUME ThreadsPlaced, StoreInv, NEW t \in Threads, LoadStat(t)
    PROVE  StoreInv'
  <1> DEFINE p == ProcessOf[t]
             known == IF p \in OneShot THEN NoCache ELSE cache[p]
  <1>p. p \in Processes
    BY DEF ThreadsPlaced
  <1>k. /\ known \in CacheType /\ known.stamp <= file.stamp
        /\ p \notin crossed /\ CacheHit(known) => known.has = Contents(file)
    BY <1>p, KnownCache
  <1>s. /\ pc[t] = "idle" /\ file' = file /\ mine' = mine /\ crossed' = crossed
        /\ seen' = [seen EXCEPT ![t] = {Contents(file)}]
        /\ cache' = [cache EXCEPT ![p] = known]
        /\ \/ /\ CacheHit(known) /\ pc' = [pc EXCEPT ![t] = "holds"]
              /\ base' = [base EXCEPT ![t] = known.has] /\ stamp' = stamp
              /\ excused' = IF p \in crossed THEN excused \cup {t} ELSE excused \ {t}
           \/ /\ stamp' = [stamp EXCEPT ![t] = file.stamp] /\ pc' = [pc EXCEPT ![t] = "read"]
              /\ excused' = excused \ {t} /\ base' = base
    BY DEF LoadStat
  <1> HIDE DEF p, known
  <1>c. Contents(file)' = Contents(file) /\ Contents(file) \in SUBSET Nat
    BY <1>s DEF Contents, StoreInv, StoreTypes, FileType
  <1>1. StoreTypes'
    BY <1>p, <1>k, <1>s, <1>c DEF StoreInv, StoreTypes, FileType, CacheType, Places
  <1>2. StampsKnown'
    BY <1>p, <1>k, <1>s DEF StoreInv, StoreTypes, StampsKnown, FileType
  <1>3. CacheTells'
    <2> SUFFICES ASSUME NEW q \in Processes,
                        q \notin crossed', cache'[q].valid, cache'[q].stamp = file'.stamp
                 PROVE  cache'[q].has = Contents(file)
      BY <1>c DEF CacheTells
    <2>1. CASE q = p
      BY <2>1, <1>p, <1>k, <1>s DEF CacheHit, StoreInv, StoreTypes
    <2>2. CASE q # p
      BY <2>2, <1>s DEF StoreInv, StoreTypes, CacheTells
    <2> QED
      BY <2>1, <2>2
  <1>4. OwnWrite'
    BY <1>s, <1>c DEF StoreInv, StoreTypes, OwnWrite
  <1>5. ReadSees'
    BY <1>s, <1>c DEF StoreInv, StoreTypes, ReadSees
  <1>6. LoadIsFresh'
    <2> SUFFICES ASSUME NEW u \in Threads, pc'[u] = "holds", u \notin excused'
                 PROVE  base'[u] \in seen'[u]
      BY DEF LoadIsFresh
    <2>1. CASE u = t
      BY <2>1, <1>k, <1>s DEF StoreInv, StoreTypes
    <2>2. CASE u # t
      BY <2>2, <1>s DEF StoreInv, StoreTypes, LoadIsFresh
    <2> QED
      BY <2>1, <2>2
  <1> QED
    BY <1>1, <1>2, <1>3, <1>4, <1>5, <1>6 DEF StoreInv

LEMMA LoadReadKeeps ==
    ASSUME ThreadsPlaced, StoreInv, NEW t \in Threads, LoadRead(t)
    PROVE  StoreInv'
  <1> DEFINE p == ProcessOf[t]
             entry == IF file.ok THEN [valid |-> TRUE, stamp |-> stamp[t], has |-> file.has] ELSE NoCache
  <1>p. p \in Processes
    BY DEF ThreadsPlaced
  <1>s. /\ pc[t] = "read" /\ file' = file /\ mine' = mine /\ seen' = seen /\ excused' = excused
        /\ base' = [base EXCEPT ![t] = Contents(file)]
        /\ cache' = [cache EXCEPT ![p] = entry] /\ crossed' = crossed \ {p}
        /\ stamp' = [stamp EXCEPT ![t] = 0] /\ pc' = [pc EXCEPT ![t] = "holds"]
    BY DEF LoadRead
  <1>k. /\ entry \in CacheType /\ entry.stamp <= file.stamp
        /\ entry.valid => entry.has = Contents(file)
    BY DEF StoreInv, StoreTypes, FileType, CacheType, StampsKnown, Contents, NoCache
  <1> HIDE DEF p, entry
  <1>c. Contents(file)' = Contents(file) /\ Contents(file) \in SUBSET Nat
    BY <1>s DEF Contents, StoreInv, StoreTypes, FileType
  <1>1. StoreTypes'
    BY <1>p, <1>k, <1>s, <1>c DEF StoreInv, StoreTypes, FileType, Places
  <1>2. StampsKnown'
    BY <1>p, <1>k, <1>s DEF StoreInv, StoreTypes, StampsKnown, FileType
  <1>3. CacheTells'
    BY <1>p, <1>k, <1>s, <1>c DEF StoreInv, StoreTypes, CacheTells
  <1>4. OwnWrite'
    BY <1>s, <1>c DEF StoreInv, StoreTypes, OwnWrite
  <1>5. ReadSees'
    BY <1>s, <1>c DEF StoreInv, StoreTypes, ReadSees
  <1>6. LoadIsFresh'
    BY <1>s DEF StoreInv, StoreTypes, LoadIsFresh, ReadSees
  <1> QED
    BY <1>1, <1>2, <1>3, <1>4, <1>5, <1>6 DEF StoreInv

(* The end of a handler frees its thread and touches no other. *)
LEMMA DropKeeps ==
    ASSUME StoreInv, NEW t \in Threads, Drop(t)
    PROVE  StoreInv'
  <1>s. /\ pc' = [pc EXCEPT ![t] = "idle"] /\ base' = [base EXCEPT ![t] = {}]
        /\ mine' = [mine EXCEPT ![t] = 0] /\ seen' = [seen EXCEPT ![t] = {}]
        /\ excused' = excused \ {t}
        /\ file' = file /\ cache' = cache /\ stamp' = stamp /\ crossed' = crossed
    BY DEF Drop, Done
  <1>c. Contents(file)' = Contents(file)
    BY <1>s DEF Contents
  <1>1. StoreTypes'
    BY <1>s DEF StoreInv, StoreTypes, FileType, Places
  <1>2. StampsKnown'
    BY <1>s DEF StoreInv, StoreTypes, StampsKnown, FileType
  <1>3. CacheTells'
    BY <1>s, <1>c DEF StoreInv, CacheTells
  <1>4. OwnWrite'
    BY <1>s, <1>c DEF StoreInv, StoreTypes, OwnWrite
  <1>5. ReadSees'
    BY <1>s, <1>c DEF StoreInv, StoreTypes, ReadSees
  <1>6. LoadIsFresh'
    BY <1>s DEF StoreInv, StoreTypes, LoadIsFresh
  <1> QED
    BY <1>1, <1>2, <1>3, <1>4, <1>5, <1>6 DEF StoreInv

(* A write gives the file a stamp that nobody knows, so no cache and no    *)
(* save of anyone else is about it, and every load in progress sees it.    *)
LEMMA WriteKeeps ==
    ASSUME StoreInv, NEW has \in SUBSET Nat, NEW ok \in BOOLEAN,
           Write([stamp |-> file.stamp + 1, has |-> has, ok |-> ok]),
           cache' = cache, stamp' = stamp, crossed' = crossed, excused' = excused
    PROVE  /\ file' \in FileType /\ seen' \in [Threads -> SUBSET SUBSET Nat]
           /\ Contents(file') = IF ok THEN has ELSE {}
           /\ file'.stamp = file.stamp + 1
           /\ CacheTells'
           /\ \A t \in Threads : seen[t] \subseteq seen'[t]
           /\ \A t \in Threads : pc[t] = "read" => Contents(file') \in seen'[t]
  <1> DEFINE f == [stamp |-> file.stamp + 1, has |-> has, ok |-> ok]
  <1>0. file.stamp \in Nat
    BY DEF StoreInv, StoreTypes, FileType
  <1>1. f \in FileType /\ f.stamp = file.stamp + 1 /\ f.has = has /\ f.ok = ok
    BY <1>0 DEF FileType
  <1>2. Contents(f) \in SUBSET Nat /\ Contents(f) = IF ok THEN has ELSE {}
    BY <1>1 DEF Contents
  <1>3. /\ file' = f
        /\ seen' = [t \in Threads |-> IF pc[t] = "read" THEN seen[t] \cup {Contents(f)} ELSE seen[t]]
    BY DEF Write
  <1> HIDE DEF f
  <1>4. seen' \in [Threads -> SUBSET SUBSET Nat]
    BY <1>2, <1>3, ZenonT(30) DEF StoreInv, StoreTypes
  <1>5. CacheTells'
    <2> SUFFICES ASSUME NEW p \in Processes, cache[p].stamp = file'.stamp PROVE FALSE
      BY DEF CacheTells
    <2>1. cache[p].stamp \in Nat /\ cache[p].stamp <= file.stamp
      BY DEF StoreInv, StoreTypes, StampsKnown, CacheType
    <2>2. cache[p].stamp = file.stamp + 1
      BY <1>1, <1>3
    <2> QED
      BY <1>0, <2>1, <2>2
  <1> QED
    BY <1>1, <1>2, <1>3, <1>4, <1>5, ZenonT(30)

LEMMA SaveRenameKeeps ==
    ASSUME StoreInv, NEW t \in Threads, SaveRename(t)
    PROVE  StoreInv'
  <1> DEFINE n == file.stamp + 1
             has == base[t] \cup {n}
  <1>0. file.stamp \in Nat /\ n \in Nat /\ has \in SUBSET Nat
    BY DEF StoreInv, StoreTypes, FileType
  <1>s. /\ pc[t] = "holds"
        /\ base' = [base EXCEPT ![t] = has] /\ mine' = [mine EXCEPT ![t] = n]
        /\ pc' = [pc EXCEPT ![t] = "remember"]
        /\ cache' = cache /\ stamp' = stamp /\ crossed' = crossed /\ excused' = excused
        /\ Write([stamp |-> n, has |-> has, ok |-> TRUE])
    BY DEF SaveRename
  <1>w. /\ file' \in FileType /\ seen' \in [Threads -> SUBSET SUBSET Nat]
        /\ Contents(file') = has /\ file'.stamp = n
        /\ CacheTells'
        /\ \A u \in Threads : seen[u] \subseteq seen'[u]
        /\ \A u \in Threads : pc[u] = "read" => Contents(file') \in seen'[u]
    BY <1>0, <1>s, WriteKeeps, ZenonT(30)
  <1>n. n > file.stamp
    BY <1>0, StampOrder, ZenonT(30)
  <1> HIDE DEF n, has
  <1>1. StoreTypes'
    BY <1>0, <1>s, <1>w, ZenonT(30) DEF StoreInv, StoreTypes, Places
  <1>2. StampsKnown'
    <2>1. \A p \in Processes : cache[p].stamp \in Nat /\ cache[p].stamp <= file.stamp
      BY DEF StoreInv, StoreTypes, StampsKnown, CacheType
    <2>2. \A u \in Threads : /\ stamp[u] \in Nat /\ stamp[u] <= file.stamp
                             /\ mine[u] \in Nat /\ mine[u] <= file.stamp
      BY DEF StoreInv, StoreTypes, StampsKnown
    <2>3. \A u \in Threads : mine'[u] = IF u = t THEN n ELSE mine[u]
      BY <1>s DEF StoreInv, StoreTypes
    <2> QED
      BY <1>0, <1>n, <1>s, <1>w, <2>1, <2>2, <2>3 DEF StampsKnown
  <1>4. OwnWrite'
    <2> SUFFICES ASSUME NEW u \in Threads, pc'[u] = "remember", mine'[u] = file'.stamp
                 PROVE  base'[u] = Contents(file')
      BY DEF OwnWrite
    <2>1. u = t
      <3>1. mine[u] \in Nat /\ mine[u] <= file.stamp
        BY DEF StoreInv, StoreTypes, StampsKnown
      <3>2. mine[u] # n
        BY <1>0, <1>n, <3>1, StampOrder, ZenonT(30)
      <3>3. u # t => mine'[u] = mine[u]
        BY <1>s DEF StoreInv, StoreTypes
      <3> QED
        BY <3>2, <3>3, <1>w
    <2> QED
      BY <2>1, <1>s, <1>w DEF StoreInv, StoreTypes
  <1>5. ReadSees'
    BY <1>s, <1>w DEF StoreInv, StoreTypes, ReadSees
  <1>6. LoadIsFresh'
    BY <1>s, <1>w DEF StoreInv, StoreTypes, LoadIsFresh
  <1> QED
    BY <1>1, <1>2, <1>w, <1>4, <1>5, <1>6 DEF StoreInv

LEMMA EditorKeeps ==
    ASSUME StoreInv, NEW ok \in BOOLEAN, Editor(ok)
    PROVE  StoreInv'
  <1> DEFINE n == file.stamp + 1
             has == file.has \cup {n}
  <1>0. file.stamp \in Nat /\ n \in Nat /\ has \in SUBSET Nat
    BY DEF StoreInv, StoreTypes, FileType
  <1>s. /\ pc' = pc /\ base' = base /\ mine' = mine
        /\ cache' = cache /\ stamp' = stamp /\ crossed' = crossed /\ excused' = excused
        /\ Write([stamp |-> n, has |-> has, ok |-> ok])
    BY DEF Editor
  <1>w. /\ file' \in FileType /\ seen' \in [Threads -> SUBSET SUBSET Nat]
        /\ file'.stamp = n
        /\ CacheTells'
        /\ \A u \in Threads : seen[u] \subseteq seen'[u]
        /\ \A u \in Threads : pc[u] = "read" => Contents(file') \in seen'[u]
    BY <1>0, <1>s, WriteKeeps
  <1>n. n > file.stamp
    BY <1>0, StampOrder, ZenonT(30)
  <1> HIDE DEF n, has
  <1>1. StoreTypes'
    BY <1>0, <1>s, <1>w DEF StoreInv, StoreTypes
  <1>k. \A u \in Threads : /\ stamp[u] \in Nat /\ stamp[u] <= file.stamp
                           /\ mine[u] \in Nat /\ mine[u] <= file.stamp
    BY DEF StoreInv, StoreTypes, StampsKnown
  <1>2. StampsKnown'
    <2>1. \A p \in Processes : cache[p].stamp \in Nat /\ cache[p].stamp <= file.stamp
      BY DEF StoreInv, StoreTypes, StampsKnown, CacheType
    <2> QED
      BY <1>0, <1>n, <1>s, <1>w, <1>k, <2>1 DEF StampsKnown
  <1>4. OwnWrite'
    BY <1>0, <1>n, <1>s, <1>w, <1>k DEF OwnWrite
  <1>5. ReadSees'
    BY <1>s, <1>w DEF ReadSees
  <1>6. LoadIsFresh'
    BY <1>s, <1>w DEF StoreInv, LoadIsFresh
  <1> QED
    BY <1>1, <1>2, <1>w, <1>4, <1>5, <1>6 DEF StoreInv

LEMMA SaveRememberKeeps ==
    ASSUME ThreadsPlaced, StoreInv, NEW t \in Threads, SaveRemember(t)
    PROVE  StoreInv'
  <1> DEFINE p == ProcessOf[t]
             entry == [valid |-> TRUE, stamp |-> file.stamp, has |-> base[t]]
  <1>p. p \in Processes
    BY DEF ThreadsPlaced
  <1>s. /\ pc[t] = "remember"
        /\ cache' = [cache EXCEPT ![p] = entry]
        /\ crossed' = IF file.stamp = mine[t] THEN crossed \ {p} ELSE crossed \cup {p}
        /\ pc' = [pc EXCEPT ![t] = "idle"] /\ base' = [base EXCEPT ![t] = {}]
        /\ mine' = [mine EXCEPT ![t] = 0] /\ seen' = [seen EXCEPT ![t] = {}]
        /\ excused' = excused \ {t}
        /\ file' = file /\ stamp' = stamp
    BY DEF SaveRemember, Done
  <1>k. /\ file.stamp \in Nat /\ entry \in CacheType /\ entry.stamp = file.stamp /\ entry.has = base[t]
    BY DEF StoreInv, StoreTypes, FileType, CacheType
  <1> HIDE DEF p, entry
  <1>c. Contents(file)' = Contents(file)
    BY <1>s DEF Contents
  <1>1. StoreTypes'
    BY <1>p, <1>k, <1>s DEF StoreInv, StoreTypes, FileType, Places
  <1>2. StampsKnown'
    BY <1>p, <1>k, <1>s DEF StoreInv, StoreTypes, StampsKnown
  <1>3. CacheTells'
    <2> SUFFICES ASSUME NEW q \in Processes,
                        q \notin crossed', cache'[q].valid, cache'[q].stamp = file'.stamp
                 PROVE  cache'[q].has = Contents(file)
      BY <1>c DEF CacheTells
    <2>1. CASE q = p
      <3>1. file.stamp = mine[t]
        BY <2>1, <1>s
      <3>2. base[t] = Contents(file)
        BY <3>1, <1>s DEF StoreInv, OwnWrite
      <3> QED
        BY <2>1, <3>2, <1>p, <1>k, <1>s DEF StoreInv, StoreTypes
    <2>2. CASE q # p
      BY <2>2, <1>s DEF StoreInv, StoreTypes, CacheTells
    <2> QED
      BY <2>1, <2>2
  <1>4. OwnWrite'
    BY <1>s, <1>c DEF StoreInv, StoreTypes, OwnWrite
  <1>5. ReadSees'
    BY <1>s, <1>c DEF StoreInv, StoreTypes, ReadSees
  <1>6. LoadIsFresh'
    BY <1>s DEF StoreInv, StoreTypes, LoadIsFresh
  <1> QED
    BY <1>1, <1>2, <1>3, <1>4, <1>5, <1>6 DEF StoreInv

(* StoreInv is inductive. *)
THEOREM StoreInvariant == ASSUME ThreadsPlaced PROVE Spec => []StoreInv
  <1>1. Init => StoreInv
    <2> SUFFICES ASSUME Init PROVE StoreInv
      OBVIOUS
    <2>1. NoCache \in CacheType /\ NoCache.stamp = 0 /\ ~NoCache.valid
      BY DEF NoCache, CacheType
    <2>2. file \in FileType /\ file.stamp = 0
      BY DEF Init, FileType
    <2>3. StoreTypes
      BY <2>1, <2>2 DEF Init, StoreTypes, Places
    <2>4. StampsKnown /\ CacheTells
      BY <2>1, <2>2 DEF Init, StampsKnown, CacheTells
    <2>5. OwnWrite /\ ReadSees /\ LoadIsFresh
      BY DEF Init, OwnWrite, ReadSees, LoadIsFresh
    <2> QED
      BY <2>3, <2>4, <2>5 DEF StoreInv
  <1>2. StoreInv /\ [Next]_vars => StoreInv'
    <2> SUFFICES ASSUME StoreInv, [Next]_vars PROVE StoreInv'
      OBVIOUS
    <2>1. ASSUME NEW t \in Threads, LoadStat(t) PROVE StoreInv'
      BY <2>1, LoadStatKeeps
    <2>2. ASSUME NEW t \in Threads, LoadRead(t) PROVE StoreInv'
      BY <2>2, LoadReadKeeps
    <2>3. ASSUME NEW t \in Threads, Drop(t) PROVE StoreInv'
      BY <2>3, DropKeeps
    <2>4. ASSUME NEW t \in Threads, SaveRename(t) PROVE StoreInv'
      BY <2>4, SaveRenameKeeps
    <2>5. ASSUME NEW t \in Threads, SaveRemember(t) PROVE StoreInv'
      BY <2>5, SaveRememberKeeps
    <2>6. ASSUME NEW ok \in BOOLEAN, Editor(ok) PROVE StoreInv'
      BY <2>6, EditorKeeps
    <2>7. CASE UNCHANGED vars
      BY <2>7 DEF vars, StoreInv, StoreTypes, StampsKnown, CacheTells, OwnWrite, ReadSees,
                  LoadIsFresh, Contents
    <2> QED
      BY <2>1, <2>2, <2>3, <2>4, <2>5, <2>6, <2>7 DEF Next
  <1> QED
    BY <1>1, <1>2, PTL DEF Spec

(* Every load returns a configuration that the file held while it ran,     *)
(* however the saves of other threads and processes and of an editor fall  *)
(* between its steps.  The mutex and the manager's lock play no part: a    *)
(* write gives the file a stamp no cache can have, so a cache that matches *)
(* was filled from this very file.                                         *)
THEOREM LoadsAreFresh == ASSUME ThreadsPlaced PROVE Spec => []LoadIsFresh
  BY StoreInvariant, PTL DEF StoreInv
=============================================================================
