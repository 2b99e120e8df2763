--------------------------- MODULE InformerProofs ---------------------------
(***************************************************************************)
(* What the operators on histories keep and return.                        *)
(***************************************************************************)
EXTENDS Informer, SequenceTheorems, TLAPS

\* A history starts with what the cache holds and ends with what the API server
\* holds; both are versions.
LEMMA HistoryFacts ==
    ASSUME NEW S, NEW h \in History(S)
    PROVE  /\ Len(h) \in Nat \ {0}
           /\ DOMAIN h = 1 .. Len(h)
           /\ Versions(h) \subseteq S
           /\ Cached(h) \in Versions(h)
           /\ Actual(h) \in Versions(h)
           /\ Cached(h) \in S
           /\ Actual(h) \in S
<1>1. h \in Seq(S) /\ h # <<>>
  BY DEF History
<1>2. Len(h) \in Nat \ {0} /\ DOMAIN h = 1 .. Len(h)
  BY <1>1, EmptySeq, LenProperties
<1>3. \A i \in 1 .. Len(h) : h[i] \in S
  BY <1>1, ElementOfSeq
<1>4. 1 \in 1 .. Len(h) /\ Len(h) \in 1 .. Len(h)
  BY <1>2
<1> QED
  BY <1>2, <1>3, <1>4 DEF Versions, Cached, Actual

\* A commit adds at most its own version, which the API server then holds.
LEMMA CommitFacts ==
    ASSUME NEW S, NEW h \in History(S), NEW s \in S
    PROVE  /\ Commit(h, s) \in History(S)
           /\ Actual(Commit(h, s)) = s
           /\ Versions(Commit(h, s)) \subseteq Versions(h) \cup {s}
<1>1. CASE s = Actual(h)
  BY <1>1 DEF Commit
<1>2. CASE s # Actual(h)
  <2>1. h \in Seq(S) /\ Commit(h, s) = Append(h, s)
    BY <1>2 DEF Commit, History
  <2>2. /\ Append(h, s) \in Seq(S)
        /\ Append(h, s) # <<>>
        /\ Len(Append(h, s)) = Len(h) + 1
        /\ \A i \in 1 .. Len(h) : Append(h, s)[i] = h[i]
        /\ Append(h, s)[Len(h) + 1] = s
    BY <2>1, AppendProperties
  <2>3. /\ Len(h) \in Nat /\ DOMAIN h = 1 .. Len(h)
        /\ DOMAIN Append(h, s) = 1 .. Len(h) + 1
    BY <2>1, <2>2, LenProperties
  <2>4. \A i \in 1 .. Len(h) + 1 : i \in 1 .. Len(h) \/ i = Len(h) + 1
    BY <2>3
  <2>5. Versions(Append(h, s)) \subseteq Versions(h) \cup {s}
    BY <2>2, <2>3, <2>4 DEF Versions
  <2> QED
    BY <2>1, <2>2, <2>5 DEF History, Actual
<1> QED
  BY <1>1, <1>2

\* The history of an informer that is behind has a tail.
LEMMA TailFacts ==
    ASSUME NEW S, NEW h \in History(S), ~Synced(h)
    PROVE  /\ h \in Seq(S) /\ Len(h) \in Nat /\ Len(h) > 1
           /\ Tail(h) \in Seq(S)
           /\ Len(Tail(h)) = Len(h) - 1
           /\ \A i \in 1 .. Len(Tail(h)) : Tail(h)[i] = h[i + 1]
           /\ DOMAIN Tail(h) = 1 .. Len(h) - 1 /\ DOMAIN h = 1 .. Len(h)
<1>1. h \in Seq(S) /\ h # <<>> /\ Len(h) \in Nat /\ Len(h) > 1
  <2>1. Len(h) \in Nat \ {0}
    BY HistoryFacts
  <2>2. h \in Seq(S) /\ h # <<>> /\ Len(h) # 1
    BY DEF History, Synced
  <2> QED
    BY <2>1, <2>2
<1>2. /\ Tail(h) \in Seq(S)
      /\ Len(Tail(h)) = Len(h) - 1
      /\ \A i \in 1 .. Len(Tail(h)) : Tail(h)[i] = h[i + 1]
  BY <1>1, HeadTailProperties
<1>3. DOMAIN Tail(h) = 1 .. Len(h) - 1 /\ DOMAIN h = 1 .. Len(h)
  BY <1>1, <1>2, LenProperties
<1> QED
  BY <1>1, <1>2, <1>3

\* A delivery forgets the oldest version and changes nothing else.
LEMMA DeliverFacts ==
    ASSUME NEW S, NEW h \in History(S), ~Synced(h)
    PROVE  /\ Deliver(h) \in History(S)
           /\ Actual(Deliver(h)) = Actual(h)
           /\ Versions(Deliver(h)) \subseteq Versions(h)
<1>1. /\ h \in Seq(S) /\ Len(h) \in Nat /\ Len(h) > 1
      /\ Tail(h) \in Seq(S)
      /\ Len(Tail(h)) = Len(h) - 1
      /\ \A i \in 1 .. Len(Tail(h)) : Tail(h)[i] = h[i + 1]
      /\ DOMAIN Tail(h) = 1 .. Len(h) - 1 /\ DOMAIN h = 1 .. Len(h)
  BY TailFacts
<1>2. Tail(h) # <<>>
  <2>1. \A n \in Nat : n > 1 => n - 1 # 0
    OBVIOUS
  <2>2. Len(Tail(h)) # 0
    BY <1>1, <2>1, Zenon
  <2>3. Len(<<>>) = 0
    BY EmptySeq
  <2> QED
    BY <2>2, <2>3
<1>3. Versions(Tail(h)) \subseteq Versions(h)
  BY <1>1 DEF Versions
<1>4. Tail(h)[Len(Tail(h))] = h[Len(h)]
  BY <1>1
<1> QED
  BY <1>1, <1>2, <1>3, <1>4 DEF Deliver, History, Actual

\* A restart keeps what the API server holds and nothing else.
LEMMA RelistFacts ==
    ASSUME NEW S, NEW h \in History(S)
    PROVE  /\ Relist(h) \in History(S)
           /\ Actual(Relist(h)) = Actual(h)
           /\ Versions(Relist(h)) \subseteq Versions(h)
<1>1. Actual(h) \in S /\ Actual(h) \in Versions(h)
  BY HistoryFacts
<1>2. /\ <<Actual(h)>> \in Seq(S) /\ <<Actual(h)>> # <<>>
      /\ Len(<<Actual(h)>>) = 1 /\ <<Actual(h)>>[1] = Actual(h)
      /\ DOMAIN <<Actual(h)>> = {1}
  BY <1>1
<1>3. Versions(<<Actual(h)>>) = {Actual(h)}
  BY <1>2 DEF Versions
<1>4. Actual(<<Actual(h)>>) = Actual(h)
  BY <1>2 DEF Actual
<1> QED
  BY <1>1, <1>2, <1>3, <1>4 DEF Relist, History

(***************************************************************************)
(* An object is quiet when no event about it is on its way: whatever is    *)
(* still to be read of it is what the cache holds already.                 *)
(***************************************************************************)
Quiet(h, n) == \A s \in Versions(h) : s[n] = Cached(h)[n]

\* Of a quiet object the cache holds what the API server holds; in an informer
\* that has seen every version, all objects are quiet.
LEMMA QuietFacts ==
    ASSUME NEW S, NEW h \in History(S), NEW n
    PROVE  /\ Quiet(h, n) => Actual(h)[n] = Cached(h)[n]
           /\ Synced(h) => Quiet(h, n) /\ Actual(h) = Cached(h)
<1>1. Actual(h) \in Versions(h) /\ DOMAIN h = 1 .. Len(h)
  BY HistoryFacts
<1>2. Synced(h) => Versions(h) = {Cached(h)} /\ Actual(h) = Cached(h)
  BY <1>1 DEF Synced, Versions, Cached, Actual
<1> QED
  BY <1>1, <1>2 DEF Quiet

\* A history that has grown is the same to a reader, and may hold more.
Grown(h, g) == Cached(g) = Cached(h) /\ Versions(h) \subseteq Versions(g)

\* Commits make histories grow.
LEMMA CommitGrows ==
    ASSUME NEW S, NEW h \in History(S), NEW s
    PROVE  /\ Grown(h, Commit(h, s))
           /\ s \in Versions(Commit(h, s))
<1>1. Actual(h) \in Versions(h) /\ Len(h) \in Nat \ {0}
  BY HistoryFacts
<1>2. CASE s = Actual(h)
  BY <1>1, <1>2 DEF Commit, Grown
<1>3. CASE s # Actual(h)
  <2>1. h \in Seq(S) /\ Commit(h, s) = Append(h, s)
    BY <1>3 DEF Commit, History
  <2>2. h \in Seq(S \cup {s})
    BY <2>1, SeqMonotonic
  <2>3. /\ Append(h, s) \in Seq(S \cup {s})
        /\ Len(Append(h, s)) = Len(h) + 1
        /\ \A i \in 1 .. Len(h) : Append(h, s)[i] = h[i]
        /\ Append(h, s)[Len(h) + 1] = s
    BY <2>2, AppendProperties
  <2>4. /\ DOMAIN h = 1 .. Len(h)
        /\ DOMAIN Append(h, s) = 1 .. Len(h) + 1
    BY <2>1, <2>3, LenProperties
  <2>5. Cached(Append(h, s)) = Cached(h)
    BY <1>1, <2>3 DEF Cached
  <2>6. \A v \in Versions(h) \cup {s} : v \in Versions(Append(h, s))
    BY <1>1, <2>3, <2>4 DEF Versions
  <2> QED
    BY <2>1, <2>5, <2>6 DEF Grown
<1> QED
  BY <1>2, <1>3

\* Nothing gets quiet by growing.
LEMMA QuietGrown ==
    ASSUME NEW h, NEW g, NEW n, Grown(h, g), Quiet(g, n)
    PROVE  Quiet(h, n)
  BY DEF Grown, Quiet

\* A delivery that does not concern an object leaves it quiet or not, as it was.
LEMMA QuietDeliver ==
    ASSUME NEW S, NEW h \in History(S), ~Synced(h),
           NEW n \in DOMAIN Cached(h), n \notin Changed(h)
    PROVE  /\ Cached(Deliver(h))[n] = Cached(h)[n]
           /\ Quiet(Deliver(h), n) => Quiet(h, n)
<1>1. /\ h \in Seq(S) /\ Len(h) \in Nat /\ Len(h) > 1
      /\ Tail(h) \in Seq(S)
      /\ Len(Tail(h)) = Len(h) - 1
      /\ \A i \in 1 .. Len(Tail(h)) : Tail(h)[i] = h[i + 1]
      /\ DOMAIN Tail(h) = 1 .. Len(h) - 1 /\ DOMAIN h = 1 .. Len(h)
  BY TailFacts
<1>2. Cached(Tail(h)) = h[2] /\ h[2][n] = h[1][n]
  BY <1>1 DEF Cached, Changed
<1>3. ASSUME Quiet(Tail(h), n), NEW i \in DOMAIN h
      PROVE  h[i][n] = h[1][n]
  <2>1. CASE i = 1
    BY <2>1
  <2>2. CASE i # 1
    <3>1. i - 1 \in DOMAIN Tail(h) /\ Tail(h)[i - 1] = h[i]
      BY <1>1, <2>2
    <3> QED
      BY <1>2, <1>3, <3>1 DEF Quiet, Versions
  <2> QED
    BY <2>1, <2>2
<1> QED
  BY <1>2, <1>3 DEF Quiet, Versions, Cached, Deliver

(***************************************************************************)
(* The order of the versions.                                              *)
(***************************************************************************)
Before(h, s, t) == \E i, j \in DOMAIN h : i < j /\ s = h[i] /\ t = h[j]

\* The cache holds the oldest version and the API server the newest.
LEMMA BeforeFacts ==
    ASSUME NEW S, NEW h \in History(S)
    PROVE  /\ \A s, t : Before(h, s, t) => s \in Versions(h) /\ t \in Versions(h)
           /\ \A s \in Versions(h) : s = Cached(h) \/ Before(h, Cached(h), s)
           /\ \A s \in Versions(h) : s = Actual(h) \/ Before(h, s, Actual(h))
<1>1. Len(h) \in Nat \ {0} /\ DOMAIN h = 1 .. Len(h)
  BY HistoryFacts
<1>2. \A s, t : Before(h, s, t) => s \in Versions(h) /\ t \in Versions(h)
  BY DEF Before, Versions
<1>3. ASSUME NEW i \in DOMAIN h
      PROVE  /\ h[i] = h[1] \/ Before(h, h[1], h[i])
             /\ h[i] = h[Len(h)] \/ Before(h, h[i], h[Len(h)])
  <2>1. i = 1 \/ 1 < i
    BY <1>1
  <2>2. i = Len(h) \/ i < Len(h)
    BY <1>1
  <2>3. 1 \in DOMAIN h /\ Len(h) \in DOMAIN h
    BY <1>1
  <2> QED
    BY <2>1, <2>2, <2>3 DEF Before
<1> QED
  BY <1>2, <1>3 DEF Versions, Cached, Actual

\* A commit puts its version after all others.
LEMMA CommitBefore ==
    ASSUME NEW S, NEW h \in History(S), NEW v \in S
    PROVE  \A s, t : Before(Commit(h, v), s, t)
                       => Before(h, s, t) \/ (s \in Versions(h) /\ t = v)
<1>1. CASE v = Actual(h)
  BY <1>1 DEF Commit
<1>2. CASE v # Actual(h)
  <2>1. h \in Seq(S) /\ Commit(h, v) = Append(h, v)
    BY <1>2 DEF Commit, History
  <2>2. /\ Append(h, v) \in Seq(S)
        /\ Len(Append(h, v)) = Len(h) + 1
        /\ \A i \in 1 .. Len(h) : Append(h, v)[i] = h[i]
        /\ Append(h, v)[Len(h) + 1] = v
    BY <2>1, AppendProperties
  <2>3. /\ Len(h) \in Nat /\ DOMAIN h = 1 .. Len(h)
        /\ DOMAIN Append(h, v) = 1 .. Len(h) + 1
    BY <2>1, <2>2, LenProperties
  <2> SUFFICES ASSUME NEW i \in 1 .. Len(h) + 1, NEW j \in 1 .. Len(h) + 1,
                      i < j
               PROVE  \/ Before(h, Append(h, v)[i], Append(h, v)[j])
                      \/ Append(h, v)[i] \in Versions(h) /\ Append(h, v)[j] = v
    BY <2>1, <2>3 DEF Before
  <2>4. i \in 1 .. Len(h) /\ Append(h, v)[i] = h[i]
    BY <2>2, <2>3
  <2>5. CASE j \in 1 .. Len(h)
    BY <2>2, <2>3, <2>4, <2>5 DEF Before
  <2>6. CASE j = Len(h) + 1
    BY <2>2, <2>3, <2>4, <2>6 DEF Versions
  <2> QED
    BY <2>3, <2>5, <2>6
<1> QED
  BY <1>1, <1>2

\* Deliveries and restarts put no version before another.
LEMMA ReadBefore ==
    ASSUME NEW S, NEW h \in History(S)
    PROVE  /\ ~Synced(h) =>
                \A s, t : Before(Deliver(h), s, t) => Before(h, s, t)
           /\ \A s, t : ~Before(Relist(h), s, t)
<1>1. ASSUME ~Synced(h), NEW s, NEW t, Before(Deliver(h), s, t)
      PROVE  Before(h, s, t)
  <2>1. /\ Len(h) \in Nat /\ Len(h) > 1
        /\ Len(Tail(h)) = Len(h) - 1
        /\ \A i \in 1 .. Len(Tail(h)) : Tail(h)[i] = h[i + 1]
        /\ DOMAIN Tail(h) = 1 .. Len(h) - 1 /\ DOMAIN h = 1 .. Len(h)
    BY <1>1, TailFacts
  <2>2. PICK i \in DOMAIN Tail(h), j \in DOMAIN Tail(h) :
          i < j /\ s = Tail(h)[i] /\ t = Tail(h)[j]
    BY <1>1 DEF Before, Deliver
  <2>3. /\ i + 1 \in DOMAIN h /\ j + 1 \in DOMAIN h /\ i + 1 < j + 1
        /\ s = h[i + 1] /\ t = h[j + 1]
    BY <2>1, <2>2
  <2> QED
    BY <2>3 DEF Before
<1>2. \A s, t : ~Before(Relist(h), s, t)
  <2>1. DOMAIN Relist(h) = {1}
    BY DEF Relist
  <2> QED
    BY <2>1 DEF Before
<1> QED
  BY <1>1, <1>2

=============================================================================
