---------------------------- MODULE RoutingProofs ----------------------------
(***************************************************************************)
(* Proofs about Routing, for any number of services, channels and pushes,  *)
(* any capacity of a channel and any meta of the clients' own.             *)
(***************************************************************************)
EXTENDS Routing, Lemmas

\* The metas of the packets that Push is given, with what it adds.
DispatchedMeta(to) == AddMeta(AddMeta(<< >>, DestChannels, to), DestServer, Gateway)

ReturnedMeta(c, user) ==
    AddMeta(AddMeta(AddMeta(user, DestServer, Gateway), DestChannels, <<c>>),
            DestServer, Gateway)

Lists == Addresses \cup {<<c>> : c \in Channels}

Pushed(s) ==
    {[from |-> s, id |-> n, to |-> to, user |-> << >>, meta |-> DispatchedMeta(to)] :
        n \in 1..MaxPushes[s], to \in Addresses}
    \cup
    {[from |-> s, id |-> n, to |-> <<c>>, user |-> user, meta |-> ReturnedMeta(c, user)] :
        n \in 1..MaxPushes[s], c \in Channels, user \in UserMetas}

Stripped(p) == [p EXCEPT !.meta = DelMeta(DelMeta(p.meta, DestServer), DestChannels)]

\* What the read loops push.
Given == {Stripped(p) : p \in UNION {Pushed(s) : s \in Services}}

Distinct(to) == \A i, j \in 1..Len(to) : to[i] = to[j] => i = j

\* What Append returns.
LEMMA AppendFacts ==
    ASSUME NEW S, NEW s \in Seq(S), NEW e \in S
    PROVE  /\ Append(s, e) \in Seq(S)
           /\ Len(Append(s, e)) = Len(s) + 1
           /\ \A i \in 1..(Len(s) + 1) :
                Append(s, e)[i] = IF i = Len(s) + 1 THEN e ELSE s[i]
OBVIOUS

-----------------------------------------------------------------------------
(* DelMeta. *)

\* The equation that the loop of DelMeta solves.
Loops(meta, key, slice) ==
    slice = [i \in 0..Len(meta) |->
                IF i = 0 THEN [array |-> meta, len |-> Len(meta)]
                ELSE IF slice[i - 1].array[i].key = key THEN Deleted(slice[i - 1], i)
                ELSE slice[i - 1]]

\* Whatever solves it is what the loop computes.
LEMMA SlicesAre ==
    ASSUME NEW meta, NEW key, Len(meta) \in Nat, NEW slice, Loops(meta, key, slice)
    PROVE  \A i \in 0..Len(meta) : Slices(meta, key)[i] = slice[i]
<1> DEFINE all == Slices(meta, key)
           B == {i \in Nat : i <= Len(meta) => all[i] = slice[i]}
<1>1. Loops(meta, key, all)
  <2>1. all = CHOOSE s : Loops(meta, key, s)
    BY DEF Slices, Loops
  <2>2. QED
    BY <2>1
<1> HIDE DEF all
<1>2. 0 \in B
  BY <1>1 DEF Loops
<1>3. ASSUME NEW n \in Nat, n \in B PROVE n + 1 \in B
  <2> SUFFICES ASSUME n + 1 <= Len(meta) PROVE all[n + 1] = slice[n + 1]
    BY <1>3
  <2>1. all[n] = slice[n] /\ n + 1 \in 0..Len(meta) /\ n + 1 # 0 /\ (n + 1) - 1 = n
    BY <1>3
  <2>2. all[n + 1] = IF all[n].array[n + 1].key = key
                     THEN Deleted(all[n], n + 1) ELSE all[n]
    BY <1>1, <2>1 DEF Loops
  <2>3. slice[n + 1] = IF slice[n].array[n + 1].key = key
                       THEN Deleted(slice[n], n + 1) ELSE slice[n]
    BY <2>1 DEF Loops
  <2>4. QED
    BY <2>1, <2>2, <2>3
<1>4. Nat \subseteq B
  <2> HIDE DEF B
  <2> QED
    BY <1>2, <1>3, NatSetInduction
<1>5. QED
  BY <1>4 DEF all

\* A key that is not there leaves the meta as it is.
LEMMA DelAbsent ==
    ASSUME NEW S, NEW meta \in Seq(S), NEW key, \A i \in 1..Len(meta) : meta[i].key # key
    PROVE  DelMeta(meta, key) = meta
<1> DEFINE start == [array |-> meta, len |-> Len(meta)]
           g == [i \in 0..Len(meta) |-> start]
<1>1. Len(meta) \in Nat
  BY LenProperties
<1>2. Loops(meta, key, g)
  BY <1>1 DEF Loops
<1>3. Slices(meta, key)[Len(meta)] = start
  <2>1. Slices(meta, key)[Len(meta)] = g[Len(meta)]
    <3> HIDE DEF g
    <3> QED
      BY <1>1, <1>2, SlicesAre
  <2>2. QED
    BY <1>1, <2>1
<1>4. SubSeq(meta, 1, Len(meta)) = meta
  BY SubSeqFull
<1>5. QED
  BY <1>3, <1>4 DEF DelMeta

\* A key that is there once is taken out, and what is behind it moves up.
LEMMA DelOnce ==
    ASSUME NEW S, NEW meta \in Seq(S), NEW key, NEW k \in 1..Len(meta),
           \A i \in 1..Len(meta) : meta[i].key = key <=> i = k
    PROVE  /\ DelMeta(meta, key) \in Seq(S)
           /\ Len(DelMeta(meta, key)) = Len(meta) - 1
           /\ \A i \in 1..(Len(meta) - 1) :
                DelMeta(meta, key)[i] = meta[IF i < k THEN i ELSE i + 1]
<1> DEFINE n == Len(meta)
           start == [array |-> meta, len |-> n]
           end == Deleted(start, k)
           g == [i \in 0..n |-> IF i < k THEN start ELSE end]
<1>1. n \in Nat /\ DOMAIN meta = 1..n /\ \A i \in 1..n : meta[i] \in S
  BY LenProperties, ElementOfSeq
<1>2. /\ end.len = n - 1
      /\ \A j \in 1..n : end.array[j] = meta[IF k <= j /\ j < n THEN j + 1 ELSE j]
  BY <1>1 DEF Deleted
<1>3. Loops(meta, key, g)
  <2>1. ASSUME NEW i \in 0..n, i # 0
        PROVE  g[i] = IF g[i - 1].array[i].key = key THEN Deleted(g[i - 1], i) ELSE g[i - 1]
    <3>1. i \in 1..n /\ i - 1 \in 0..n
      BY <1>1, <2>1
    <3>2. CASE i < k
      BY <1>1, <3>1, <3>2
    <3>3. CASE i = k
      BY <1>1, <3>1, <3>3
    <3>4. CASE i > k
      <4>1. g[i - 1] = end /\ g[i] = end
        BY <3>1, <3>4
      <4>2. end.array[i].key # key
        BY <1>1, <1>2, <3>1, <3>4
      <4>3. QED
        BY <4>1, <4>2
    <3>5. QED
      BY <3>1, <3>2, <3>3, <3>4
  <2>2. g[0] = start
    BY <1>1
  <2>3. g = [i \in 0..n |-> g[i]]
    OBVIOUS
  <2> HIDE DEF g
  <2>4. QED
    BY <2>1, <2>2, <2>3 DEF Loops
<1>4. Slices(meta, key)[n] = end
  <2>1. Slices(meta, key)[n] = g[n]
    <3> HIDE DEF g
    <3> QED
      BY <1>1, <1>3, SlicesAre
  <2>2. g[n] = end
    BY <1>1
  <2>3. QED
    BY <2>1, <2>2
<1>5. \A j \in 1..(n - 1) : end.array[j] \in S /\ end.array[j] = meta[IF j < k THEN j ELSE j + 1]
  BY <1>1, <1>2
<1>6. DelMeta(meta, key) = SubSeq(end.array, 1, n - 1)
  BY <1>2, <1>4 DEF DelMeta
<1> HIDE DEF end
<1>7. /\ SubSeq(end.array, 1, n - 1) \in Seq(S)
      /\ Len(SubSeq(end.array, 1, n - 1)) = n - 1
      /\ \A i \in 1..(n - 1) : SubSeq(end.array, 1, n - 1)[i] = end.array[i]
  <2>1. 1 \in Int /\ n - 1 \in Int /\ n >= 1
    BY <1>1
  <2>2. /\ SubSeq(end.array, 1, n - 1) \in Seq(S)
        /\ Len(SubSeq(end.array, 1, n - 1)) = IF 1 <= n - 1 THEN (n - 1) - 1 + 1 ELSE 0
        /\ \A i \in 1..((n - 1) - 1 + 1) : SubSeq(end.array, 1, n - 1)[i] = end.array[1 + i - 1]
    BY <1>5, <2>1, SubSeqProperties
  <2>3. (n - 1) - 1 + 1 = n - 1 /\ (IF 1 <= n - 1 THEN (n - 1) - 1 + 1 ELSE 0) = n - 1
    BY <1>1, <2>1
  <2>4. \A i \in 1..(n - 1) : 1 + i - 1 = i
    BY <1>1
  <2>5. QED
    BY <2>2, <2>3, <2>4
<1>8. QED
  BY <1>5, <1>6, <1>7

\* The meta of an error reply: that of the client, and three entries behind it.
LEMMA ReturnedFacts ==
    ASSUME NEW c \in Channels, NEW user \in UserMetas
    PROVE  LET n == Len(user)
               meta == ReturnedMeta(c, user)
           IN /\ n \in Nat /\ user \in Seq(ToSet(user))
              /\ \A i \in 1..n : user[i].key \notin {DestServer, DestChannels}
              /\ Len(meta) = n + 3 /\ DOMAIN meta = 1..(n + 3)
              /\ \A i \in 1..n : meta[i] = user[i]
              /\ meta[n + 1] = [key |-> DestServer, value |-> Gateway]
              /\ meta[n + 2] = [key |-> DestChannels, value |-> <<c>>]
              /\ meta[n + 3] = [key |-> DestServer, value |-> Gateway]
<1> DEFINE n == Len(user)
           server == [key |-> DestServer, value |-> Gateway]
           channels == [key |-> DestChannels, value |-> <<c>>]
           S == ToSet(user) \cup {server, channels}
           one == Append(user, server)
           two == Append(one, channels)
           all == Append(two, server)
<1>1. /\ n \in Nat /\ user \in Seq(ToSet(user))
      /\ \A i \in 1..n : user[i].key \notin {DestServer, DestChannels}
  BY UserMetaAssumption, LenProperties
<1>2. user \in Seq(S)
  <2>1. \A i \in 1..n : user[i] \in S
    BY <1>1, ElementOfSeq
  <2>2. QED
    BY <1>1, <2>1
<1>3. /\ one \in Seq(S) /\ Len(one) = n + 1
      /\ \A i \in 1..(n + 1) : one[i] = IF i = n + 1 THEN server ELSE user[i]
  BY <1>2, AppendFacts
<1>4. /\ two \in Seq(S) /\ Len(two) = n + 2
      /\ \A i \in 1..(n + 2) : two[i] = IF i = n + 2 THEN channels ELSE one[i]
  BY <1>1, <1>3, AppendFacts
<1>5. /\ all \in Seq(S) /\ Len(all) = n + 3
      /\ \A i \in 1..(n + 3) : all[i] = IF i = n + 3 THEN server ELSE two[i]
  BY <1>1, <1>4, AppendFacts
<1>6. ReturnedMeta(c, user) = all
  BY DEF ReturnedMeta, AddMeta
<1> HIDE DEF one, two, all, server, channels, S
<1>7. \A i \in 1..n : i \in 1..(n + 1) /\ i \in 1..(n + 2) /\ i \in 1..(n + 3)
                       /\ i # n + 1 /\ i # n + 2 /\ i # n + 3
  BY <1>1
<1>8. /\ n + 1 \in 1..(n + 1) /\ n + 1 \in 1..(n + 2) /\ n + 1 \in 1..(n + 3)
      /\ n + 2 \in 1..(n + 2) /\ n + 2 \in 1..(n + 3) /\ n + 3 \in 1..(n + 3)
      /\ n + 1 # n + 2 /\ n + 1 # n + 3 /\ n + 2 # n + 3
  BY <1>1
<1>9. QED
  BY <1>1, <1>3, <1>4, <1>5, <1>6, <1>7, <1>8, LenProperties DEF server, channels

\* The meta of an error reply has the server key twice, and the loop that takes
\* it out cuts off the channels key with it: the entry that moves up from
\* behind is met again at the end of the array.
LEMMA DelReturned ==
    ASSUME NEW c \in Channels, NEW user \in UserMetas
    PROVE  DelMeta(ReturnedMeta(c, user), DestServer) = user
<1> DEFINE n == Len(user)
           server == [key |-> DestServer, value |-> Gateway]
           channels == [key |-> DestChannels, value |-> <<c>>]
           meta == ReturnedMeta(c, user)
           start == [array |-> meta, len |-> n + 3]
           once == Deleted(start, n + 1)
           twice == Deleted(once, n + 2)
           end == Deleted(twice, n + 3)
           g == [i \in 0..(n + 3) |-> IF i <= n THEN start ELSE IF i = n + 1 THEN once
                                      ELSE IF i = n + 2 THEN twice ELSE end]
<1>0. DestServer # DestChannels
  BY DEF DestServer, DestChannels
<1>1. /\ n \in Nat /\ user \in Seq(ToSet(user))
      /\ \A i \in 1..n : user[i].key # DestServer
  BY ReturnedFacts
<1>2. /\ Len(meta) = n + 3 /\ DOMAIN meta = 1..(n + 3)
      /\ \A i \in 1..n : meta[i] = user[i]
      /\ meta[n + 1] = server /\ meta[n + 2] = channels /\ meta[n + 3] = server
  BY ReturnedFacts
<1>3. /\ once.len = n + 2
      /\ DOMAIN once.array = 1..(n + 3)
      /\ \A i \in 1..n : once.array[i] = user[i]
      /\ once.array[n + 1] = channels /\ once.array[n + 2] = server
      /\ once.array[n + 3] = server
  <2> HIDE DEF meta, server, channels
  <2> QED
    BY <1>1, <1>2 DEF Deleted
<1>4. /\ twice.len = n + 1
      /\ DOMAIN twice.array = 1..(n + 3)
      /\ \A i \in 1..(n + 3) : twice.array[i] = once.array[i]
  <2> HIDE DEF once
  <2> QED
    BY <1>1, <1>3 DEF Deleted
<1>5. /\ end.len = n
      /\ \A i \in 1..n : end.array[i] = user[i]
  <2> HIDE DEF once, twice
  <2> QED
    BY <1>1, <1>3, <1>4 DEF Deleted
<1>6. Loops(meta, DestServer, g)
  <2> HIDE DEF meta, once, twice, end
  <2>1. g[0] = start
    BY <1>1
  <2>2. ASSUME NEW i \in 0..(n + 3), i # 0
        PROVE  g[i] = IF g[i - 1].array[i].key = DestServer THEN Deleted(g[i - 1], i)
                      ELSE g[i - 1]
    <3>1. CASE i <= n
      <4>1. g[i - 1] = start /\ g[i] = start /\ i \in 1..n
        BY <1>1, <2>2, <3>1
      <4>2. start.array[i].key # DestServer
        BY <1>1, <1>2, <4>1
      <4>3. QED
        BY <4>1, <4>2
    <3>2. CASE i = n + 1
      <4>1. g[i - 1] = start /\ g[i] = once
        BY <1>1, <3>2
      <4>2. start.array[i].key = DestServer
        BY <1>2, <3>2
      <4>3. QED
        BY <3>2, <4>1, <4>2 DEF once
    <3>3. CASE i = n + 2
      <4>1. g[i - 1] = once /\ g[i] = twice
        BY <1>1, <3>3
      <4>2. once.array[i].key = DestServer
        BY <1>3, <3>3
      <4>3. QED
        BY <3>3, <4>1, <4>2 DEF twice
    <3>4. CASE i = n + 3
      <4>1. g[i - 1] = twice /\ g[i] = end
        BY <1>1, <3>4
      <4>2. twice.array[i] = once.array[n + 3]
        BY <1>1, <1>4, <3>4
      <4>3. twice.array[i].key = DestServer
        BY <1>3, <4>2
      <4>4. QED
        BY <3>4, <4>1, <4>3 DEF end
    <3>5. QED
      BY <1>1, <2>2, <3>1, <3>2, <3>3, <3>4
  <2>3. g = [i \in 0..(n + 3) |-> g[i]]
    OBVIOUS
  <2> HIDE DEF g
  <2>4. QED
    BY <1>2, <2>1, <2>2, <2>3 DEF Loops
<1>7. Slices(meta, DestServer)[n + 3] = end
  <2> HIDE DEF meta, end
  <2>1. g[n + 3] = end
    BY <1>1
  <2> HIDE DEF g
  <2>2. QED
    BY <1>1, <1>2, <1>6, <2>1, SlicesAre
<1>8. DelMeta(meta, DestServer) = SubSeq(end.array, 1, n)
  <2> HIDE DEF meta, end
  <2> QED
    BY <1>2, <1>5, <1>7 DEF DelMeta
<1>9. SubSeq(end.array, 1, n) = user
  <2> HIDE DEF end
  <2>1. \A i \in 1..n : end.array[i] \in ToSet(user)
    BY <1>1, <1>5, ElementOfSeq
  <2>2. 1 \in Int /\ n \in Int
    BY <1>1
  <2>3. /\ SubSeq(end.array, 1, n) \in Seq(ToSet(user))
        /\ Len(SubSeq(end.array, 1, n)) = IF 1 <= n THEN n - 1 + 1 ELSE 0
        /\ \A i \in 1..(n - 1 + 1) : SubSeq(end.array, 1, n)[i] = end.array[1 + i - 1]
    BY <2>1, <2>2, SubSeqProperties
  <2>4. Len(SubSeq(end.array, 1, n)) = n
    BY <1>1, <2>3
  <2>5. \A i \in 1..n : SubSeq(end.array, 1, n)[i] = user[i]
    BY <1>1, <1>5, <2>3
  <2>6. QED
    BY <1>1, <2>3, <2>4, <2>5, SeqEqual
<1>10. QED
  BY <1>8, <1>9

-----------------------------------------------------------------------------
(* Lemmas about sequences and metas. *)

\* What Head and Tail of a list that is not empty return.
LEMMA TailFacts ==
    ASSUME NEW S, NEW s \in Seq(S), s # << >>
    PROVE  /\ Len(s) \in Nat \ {0}
           /\ Head(s) = s[1] /\ Head(s) \in S
           /\ Tail(s) \in Seq(S) /\ Len(Tail(s)) = Len(s) - 1
           /\ \A i \in 1..(Len(s) - 1) : Tail(s)[i] = s[i + 1]
BY HeadTailProperties, EmptySeq

\* A channel that is given one more holds one more.
LEMMA HeldPush ==
    ASSUME NEW S, NEW a \in Seq(S), NEW b \in Seq(S), NEW e \in S
    PROVE  a \o Append(b, e) = Append(a \o b, e)
<1>1. a \o b \in Seq(S) /\ Len(a \o b) = Len(a) + Len(b)
  BY ConcatProperties
<1>2. Append(b, e) \in Seq(S) /\ Len(Append(b, e)) = Len(b) + 1
  BY AppendFacts
<1>3. a \o Append(b, e) \in Seq(S) /\ Len(a \o Append(b, e)) = Len(a) + Len(b) + 1
  BY <1>2, ConcatProperties, LenProperties
<1>4. Append(a \o b, e) \in Seq(S) /\ Len(Append(a \o b, e)) = Len(a) + Len(b) + 1
  BY <1>1, AppendFacts
<1>5. ASSUME NEW i \in 1..(Len(a) + Len(b) + 1)
      PROVE  (a \o Append(b, e))[i] = Append(a \o b, e)[i]
  <2>1. Len(a) \in Nat /\ Len(b) \in Nat
    BY LenProperties
  <2>2. (a \o Append(b, e))[i] = IF i <= Len(a) THEN a[i] ELSE Append(b, e)[i - Len(a)]
    BY <1>2, <2>1, ConcatProperties
  <2>3. i <= Len(a) + Len(b) => (a \o b)[i] = IF i <= Len(a) THEN a[i] ELSE b[i - Len(a)]
    BY <2>1, ConcatProperties
  <2>4. CASE i = Len(a) + Len(b) + 1
    BY <1>1, <2>1, <2>2, <2>4, AppendFacts
  <2>5. CASE i <= Len(a) + Len(b)
    <3>1. Append(a \o b, e)[i] = (a \o b)[i]
      BY <1>1, <2>1, <2>5, AppendFacts
    <3>2. i > Len(a) => Append(b, e)[i - Len(a)] = b[i - Len(a)]
      BY <2>1, <2>5, AppendFacts
    <3>3. QED
      BY <2>1, <2>2, <2>3, <2>5, <3>1, <3>2
  <2>6. QED
    BY <2>1, <2>4, <2>5
<1>6. QED
  BY <1>3, <1>4, <1>5, SeqEqual

\* What is written moves within a channel.
LEMMA HeldDeliver ==
    ASSUME NEW S, NEW a \in Seq(S), NEW b \in Seq(S), b # << >>
    PROVE  Append(a, Head(b)) \o Tail(b) = a \o b
<1> DEFINE h == Append(a, Head(b))
<1>1. /\ Len(a) \in Nat /\ Len(b) \in Nat \ {0}
      /\ Head(b) = b[1] /\ Head(b) \in S
      /\ Tail(b) \in Seq(S) /\ Len(Tail(b)) = Len(b) - 1
      /\ \A i \in 1..(Len(b) - 1) : Tail(b)[i] = b[i + 1]
  BY TailFacts, LenProperties
<1>2. /\ h \in Seq(S) /\ Len(h) = Len(a) + 1
      /\ \A i \in 1..(Len(a) + 1) : h[i] = IF i = Len(a) + 1 THEN b[1] ELSE a[i]
  BY <1>1, AppendFacts
<1> HIDE DEF h
<1>3. a \o b \in Seq(S) /\ Len(a \o b) = Len(a) + Len(b)
  BY ConcatProperties
<1>4. h \o Tail(b) \in Seq(S) /\ Len(h \o Tail(b)) = Len(a) + Len(b)
  <2>1. h \in Seq(S) /\ Tail(b) \in Seq(S)
    BY <1>1, <1>2
  <2>2. h \o Tail(b) \in Seq(S) /\ Len(h \o Tail(b)) = Len(h) + Len(Tail(b))
    BY <2>1, ConcatProperties
  <2>3. QED
    BY <1>1, <1>2, <2>2
<1>5. ASSUME NEW i \in 1..(Len(a) + Len(b)) PROVE (h \o Tail(b))[i] = (a \o b)[i]
  <2>0. i \in Int /\ Len(a) \in Int /\ Len(b) \in Int
    BY <1>1
  <2>1. (h \o Tail(b))[i] = IF i <= Len(a) + 1 THEN h[i] ELSE Tail(b)[i - (Len(a) + 1)]
    <3>1. h \in Seq(S) /\ Tail(b) \in Seq(S) /\ i \in 1..(Len(h) + Len(Tail(b)))
      BY <1>1, <1>2
    <3>2. (h \o Tail(b))[i] = IF i <= Len(h) THEN h[i] ELSE Tail(b)[i - Len(h)]
      BY <3>1, ConcatProperties
    <3>3. QED
      BY <1>2, <3>2
  <2>2. (a \o b)[i] = IF i <= Len(a) THEN a[i] ELSE b[i - Len(a)]
    BY <1>1, ConcatProperties
  <2>3. CASE i <= Len(a)
    BY <1>1, <1>2, <2>1, <2>2, <2>3
  <2>4. CASE i = Len(a) + 1
    BY <1>1, <1>2, <2>1, <2>2, <2>4
  <2>5. CASE i > Len(a) + 1
    <3>1. i - (Len(a) + 1) \in 1..(Len(b) - 1) /\ ~(i <= Len(a) + 1) /\ ~(i <= Len(a))
      BY <1>1, <2>0, <2>5
    <3>2. Tail(b)[i - (Len(a) + 1)] = b[(i - (Len(a) + 1)) + 1]
      BY <1>1, <3>1
    <3>3. (i - (Len(a) + 1)) + 1 = i - Len(a)
      BY <2>0
    <3>4. QED
      BY <2>1, <2>2, <3>1, <3>2, <3>3
  <2>6. i <= Len(a) \/ i = Len(a) + 1 \/ i > Len(a) + 1
    BY <2>0
  <2>7. QED
    BY <2>3, <2>4, <2>5, <2>6, Zenon
<1>6. QED
  BY <1>3, <1>4, <1>5, SeqEqual DEF h

\* A packet of s says so, before and after its meta is cleaned.
LEMMA PacketFacts ==
    ASSUME NEW s, NEW p \in Pushed(s)
    PROVE  /\ p.from = s /\ p.id \in Nat /\ p.to \in Lists
           /\ Stripped(p).from = s /\ Stripped(p).id = p.id /\ Stripped(p).to = p.to
BY DEF Pushed, Stripped, Lists

\* The one place of a key is where it is found.
LEMMA OnePlace ==
    ASSUME NEW meta, NEW key, NEW k \in Nat, At(meta, key) = {k}
    PROVE  FindMeta(meta, key) = meta[k].value
BY DEF FindMeta

\* What the gateway finds in a packet is its own id and the channels that the
\* packet was pushed to, and the payload it makes of it has the user's meta.
LEMMA DispatchedRead ==
    ASSUME NEW to \in Addresses
    PROVE  LET meta == DispatchedMeta(to)
           IN /\ At(meta, DestServer) # {} /\ FindMeta(meta, DestServer) = Gateway
              /\ At(meta, DestChannels) # {} /\ FindMeta(meta, DestChannels) = to
              /\ DelMeta(DelMeta(meta, DestServer), DestChannels) = << >>
<1> DEFINE server == [key |-> DestServer, value |-> Gateway]
           channels == [key |-> DestChannels, value |-> to]
           meta == DispatchedMeta(to)
           S == {server, channels}
<1>0. DestServer # DestChannels
  BY DEF DestServer, DestChannels
<1>1. /\ meta \in Seq(S) /\ Len(meta) = 2 /\ meta[1] = channels /\ meta[2] = server
  <2> DEFINE one == Append(<< >>, channels)
             two == Append(one, server)
  <2>1. << >> \in Seq(S) /\ Len(<< >>) = 0
    OBVIOUS
  <2>2. one \in Seq(S) /\ Len(one) = 1 /\ one[1] = channels
    BY <2>1, AppendFacts
  <2>3. /\ two \in Seq(S) /\ Len(two) = Len(one) + 1
        /\ \A i \in 1..(Len(one) + 1) : two[i] = IF i = Len(one) + 1 THEN server ELSE one[i]
    <3>1. server \in S
      OBVIOUS
    <3> HIDE DEF one, S, server
    <3>2. QED
      BY <2>2, <3>1, AppendFacts
  <2>4. meta = two
    BY DEF DispatchedMeta, AddMeta
  <2> HIDE DEF one, two, meta, S, server, channels
  <2>5. QED
    BY <2>2, <2>3, <2>4
<1>2. At(meta, DestServer) = {2} /\ At(meta, DestChannels) = {1}
  <2> HIDE DEF meta, S
  <2> QED
    BY <1>0, <1>1 DEF At
<1>3. FindMeta(meta, DestServer) = Gateway /\ FindMeta(meta, DestChannels) = to
  <2> HIDE DEF meta
  <2> QED
    BY <1>1, <1>2, OnePlace
<1>4. DelMeta(meta, DestServer) = <<channels>>
  <2> DEFINE d == DelMeta(meta, DestServer)
  <2> HIDE DEF meta, S
  <2>1. 2 \in 1..Len(meta) /\ \A i \in 1..Len(meta) : meta[i].key = DestServer <=> i = 2
    BY <1>0, <1>1
  <2>2. /\ d \in Seq(S) /\ Len(d) = Len(meta) - 1
        /\ \A i \in 1..(Len(meta) - 1) : d[i] = meta[IF i < 2 THEN i ELSE i + 1]
    <3>1. meta \in Seq(S)
      BY <1>1
    <3>2. QED
      BY <2>1, <3>1, DelOnce
  <2>3. <<channels>> \in Seq(S) /\ Len(<<channels>>) = 1 /\ <<channels>>[1] = channels
    BY DEF S
  <2> HIDE DEF d
  <2>4. d = <<channels>>
    <3>1. Len(d) = 1 /\ d[1] = channels
      BY <1>1, <2>2
    <3>2. QED
      BY <2>2, <2>3, <3>1, SeqEqual
  <2>5. QED
    BY <2>4 DEF d
<1>5. DelMeta(<<channels>>, DestChannels) = << >>
  <2> DEFINE one == <<channels>>
             d == DelMeta(one, DestChannels)
  <2>1. one \in Seq(S) /\ Len(one) = 1 /\ 1 \in 1..Len(one)
        /\ \A i \in 1..Len(one) : one[i].key = DestChannels <=> i = 1
    OBVIOUS
  <2> HIDE DEF one, S
  <2>2. d \in Seq(S) /\ Len(d) = Len(one) - 1
    BY <2>1, DelOnce
  <2>3. QED
    BY <2>1, <2>2, EmptySeq DEF one
<1>6. QED
  BY <1>2, <1>3, <1>4, <1>5

LEMMA ReturnedRead ==
    ASSUME NEW c \in Channels, NEW user \in UserMetas
    PROVE  LET meta == ReturnedMeta(c, user)
           IN /\ At(meta, DestServer) # {} /\ FindMeta(meta, DestServer) = Gateway
              /\ At(meta, DestChannels) # {} /\ FindMeta(meta, DestChannels) = <<c>>
              /\ DelMeta(DelMeta(meta, DestServer), DestChannels) = user
<1> DEFINE meta == ReturnedMeta(c, user)
           n == Len(user)
<1>0. DestServer # DestChannels
  BY DEF DestServer, DestChannels
<1>1. /\ n \in Nat /\ Len(meta) = n + 3
      /\ \A i \in 1..n : meta[i].key \notin {DestServer, DestChannels}
      /\ meta[n + 1] = [key |-> DestServer, value |-> Gateway]
      /\ meta[n + 2] = [key |-> DestChannels, value |-> <<c>>]
      /\ meta[n + 3] = [key |-> DestServer, value |-> Gateway]
  BY ReturnedFacts
<1>2. At(meta, DestServer) = {n + 1, n + 3} /\ At(meta, DestChannels) = {n + 2}
  <2> HIDE DEF meta
  <2>1. \A i \in 1..(n + 3) : i \in 1..n \/ i = n + 1 \/ i = n + 2 \/ i = n + 3
    BY <1>1
  <2>2. \A i \in {n + 1, n + 2, n + 3} : i \in 1..(n + 3)
    BY <1>1
  <2>3. QED
    BY <1>0, <1>1, <2>1, <2>2 DEF At
<1>3. FindMeta(meta, DestServer) = Gateway
  <2> DEFINE k == CHOOSE i \in At(meta, DestServer) : \A j \in At(meta, DestServer) : i <= j
  <2>1. k = n + 1
    BY <1>1, <1>2
  <2>2. FindMeta(meta, DestServer) = meta[k].value
    BY DEF FindMeta
  <2> HIDE DEF meta, k
  <2>3. QED
    BY <1>1, <2>1, <2>2
<1>4. FindMeta(meta, DestChannels) = <<c>>
  <2> HIDE DEF meta
  <2> QED
    BY <1>1, <1>2, OnePlace
<1>5. DelMeta(meta, DestServer) = user
  BY DelReturned
<1>6. DelMeta(user, DestChannels) = user
  <2>1. user \in Seq(ToSet(user)) /\ \A i \in 1..Len(user) : user[i].key # DestChannels
    BY ReturnedFacts
  <2>2. QED
    BY <2>1, DelAbsent
<1>7. QED
  BY <1>2, <1>3, <1>4, <1>5, <1>6

\* The lists of channels that packets address.
LEMMA ListTypes ==
    ASSUME NEW to \in Lists
    PROVE  to \in Seq(Channels) /\ to # << >>
<1>1. CASE to \in Addresses
  BY <1>1, AddressesAssumption
<1>2. CASE to \in {<<c>> : c \in Channels}
  <2>1. PICK c \in Channels : to = <<c>>
    BY <1>2
  <2>2. <<c>> \in Seq(Channels) /\ Len(<<c>>) = 1 /\ <<c>> # << >>
    OBVIOUS
  <2>3. QED
    BY <2>1, <2>2
<1>3. QED
  BY <1>1, <1>2 DEF Lists

\* A packet as the read loop finds it.
LEMMA PacketRead ==
    ASSUME NEW s, NEW p \in Pushed(s)
    PROVE  /\ At(p.meta, DestServer) # {} /\ FindMeta(p.meta, DestServer) = Gateway
           /\ At(p.meta, DestChannels) # {} /\ FindMeta(p.meta, DestChannels) = p.to
           /\ Stripped(p) = [p EXCEPT !.meta = p.user]
<1>1. CASE \E to \in Addresses : p.to = to /\ p.user = << >> /\ p.meta = DispatchedMeta(to)
  BY <1>1, DispatchedRead DEF Stripped
<1>2. CASE \E c \in Channels, user \in UserMetas :
             p.to = <<c>> /\ p.user = user /\ p.meta = ReturnedMeta(c, user)
  BY <1>2, ReturnedRead DEF Stripped
<1>3. QED
  BY <1>1, <1>2 DEF Pushed

-----------------------------------------------------------------------------
(* The inductive invariant. *)

\* Packet n of s was pushed before all that are still on their way.
Ahead(s, n) ==
    /\ n <= made[s]
    /\ \A i \in 1..Len(link[s]) : n < link[s][i].id

Types ==
    /\ made \in [Services -> Nat]
    /\ link \in [Services -> Seq(UNION {Pushed(s) : s \in Services})]
    /\ pc \in [Services -> {"read", "find", "push"}]
    /\ payload \in [Services -> Given \cup {Nothing}]
    /\ rest \in [Services -> Seq(Channels)]
    /\ queue \in [Channels -> Seq(Given)]
    /\ sent \in [Channels -> Seq(Given)]

\* The packets on their way from s are its own, in the order of the pushes.
LinkInv(s) ==
    \A i \in 1..Len(link[s]) :
        /\ link[s][i] \in Pushed(s)
        /\ link[s][i].id <= made[s]
        /\ \A j \in 1..Len(link[s]) : i < j => link[s][i].id < link[s][j].id

\* The packet in hand comes before them, and is for each channel at most once.
LoopInv(s) ==
    IF pc[s] = "read" THEN rest[s] = << >>
    ELSE /\ rest[s] # << >>
         /\ payload[s] \in Given /\ payload[s].from = s
         /\ Ahead(s, payload[s].id)
         /\ Distinct(rest[s])
         /\ \A i \in 1..Len(rest[s]) : rest[s][i] \in ToSet(payload[s].to)

\* A packet in a channel comes before those, and before the packet in hand
\* when that is still to be pushed to the channel.
HeldInv(c, p) ==
    /\ c \in ToSet(p.to)
    /\ Ahead(p.from, p.id)
    /\ pc[p.from] # "read" =>
          /\ p.id <= payload[p.from].id
          /\ c \in ToSet(rest[p.from]) => p.id < payload[p.from].id

IInv ==
    /\ Types
    /\ \A s \in Services : LinkInv(s) /\ LoopInv(s)
    /\ \A c \in Channels : \A p \in ToSet(Held(c)) : HeldInv(c, p)
    /\ InOrder

\* What the loops push comes from a service and is numbered.
LEMMA GivenFacts ==
    ASSUME NEW p \in Given
    PROVE  p.from \in Services /\ p.id \in Nat
BY PacketFacts DEF Given

\* The packets of a channel are such packets.
LEMMA HeldFacts ==
    ASSUME Types, NEW c \in Channels
    PROVE  /\ Held(c) \in Seq(Given) /\ Len(Held(c)) \in Nat
           /\ ToSet(Held(c)) = {Held(c)[i] : i \in 1..Len(Held(c))}
           /\ \A p \in ToSet(Held(c)) : p \in Given
<1>1. sent[c] \in Seq(Given) /\ queue[c] \in Seq(Given)
  BY DEF Types
<1>2. Held(c) \in Seq(Given)
  BY <1>1, ConcatProperties DEF Held
<1>3. QED
  BY <1>2, LenProperties, ElementOfSeq DEF ToSet

\* The invariant holds at first.
LEMMA InitInv ==
    Init => IInv
<1> SUFFICES ASSUME Init PROVE IInv
  OBVIOUS
<1>1. Types
  BY EmptySeq DEF Init, Types
<1>2. \A s \in Services : LinkInv(s) /\ LoopInv(s)
  BY DEF Init, LinkInv, LoopInv
<1>3. \A c \in Channels : Len(Held(c)) = 0
  BY DEF Init, Held
<1>4. \A c \in Channels : ToSet(Held(c)) = {}
  BY <1>1, <1>3, HeldFacts
<1>5. QED
  BY <1>1, <1>2, <1>3, <1>4 DEF IInv, InOrder

\* Ahead is kept by what adds a packet behind the others or takes some away.
LEMMA AheadKept ==
    ASSUME Types, NEW s \in Services, \A t \in Services : LinkInv(t),
           \/ \E n \in 0..Len(link[s]) : link' = [link EXCEPT ![s] = SubSeq(@, 1, n)]
           \/ link[s] # << >> /\ link' = [link EXCEPT ![s] = Tail(@)],
           UNCHANGED made
    PROVE  /\ link' \in [Services -> Seq(UNION {Pushed(t) : t \in Services})]
           /\ \A t \in Services : LinkInv(t)'
           /\ \A t \in Services, n \in Nat : Ahead(t, n) => Ahead(t, n)'
<1> DEFINE P == UNION {Pushed(t) : t \in Services}
<1> USE DEF Types
<1>1. link[s] \in Seq(P) /\ Len(link[s]) \in Nat
  BY LenProperties
<1>2. PICK k \in Nat :
        /\ link'[s] \in Seq(P) /\ Len(link'[s]) + k <= Len(link[s])
        /\ Len(link'[s]) \in Nat
        /\ \A i \in 1..Len(link'[s]) : link'[s][i] = link[s][i + k]
  <2>1. CASE \E n \in 0..Len(link[s]) : link' = [link EXCEPT ![s] = SubSeq(@, 1, n)]
    <3>1. PICK n \in 0..Len(link[s]) : link' = [link EXCEPT ![s] = SubSeq(@, 1, n)]
      BY <2>1
    <3>2. \A i \in 1..n : link[s][i] \in P
      BY <1>1, <3>1, ElementOfSeq
    <3>3. /\ SubSeq(link[s], 1, n) \in Seq(P)
          /\ Len(SubSeq(link[s], 1, n)) = IF 1 <= n THEN n - 1 + 1 ELSE 0
          /\ \A i \in 1..n - 1 + 1 : SubSeq(link[s], 1, n)[i] = link[s][1 + i - 1]
      <4>1. 1 \in Int /\ n \in Int
        BY <1>1, <3>1
      <4>2. QED
        BY <3>2, <4>1, SubSeqProperties
    <3>4. Len(SubSeq(link[s], 1, n)) = n
      BY <1>1, <3>1, <3>3
    <3>5. \A i \in 1..n : SubSeq(link[s], 1, n)[i] = link[s][i + 0]
      BY <1>1, <3>1, <3>3
    <3>6. link'[s] = SubSeq(link[s], 1, n)
      BY <3>1
    <3>7. 0 \in Nat /\ n + 0 <= Len(link[s]) /\ n \in Nat
      BY <1>1, <3>1
    <3> HIDE DEF P
    <3>8. QED
      BY <3>3, <3>4, <3>5, <3>6, <3>7
  <2>2. CASE link[s] # << >> /\ link' = [link EXCEPT ![s] = Tail(@)]
    <3>1. link'[s] = Tail(link[s])
      BY <2>2
    <3>2. /\ Tail(link[s]) \in Seq(P) /\ Len(Tail(link[s])) = Len(link[s]) - 1
          /\ Len(link[s]) \in Nat \ {0}
          /\ \A i \in 1..(Len(link[s]) - 1) : Tail(link[s])[i] = link[s][i + 1]
      BY <1>1, <2>2, TailFacts
    <3>3. Len(Tail(link[s])) + 1 <= Len(link[s]) /\ Len(Tail(link[s])) \in Nat
      BY <3>2
    <3>4. \A i \in 1..Len(Tail(link[s])) : Tail(link[s])[i] = link[s][i + 1]
      BY <3>2
    <3>5. 1 \in Nat
      OBVIOUS
    <3> HIDE DEF P
    <3>6. QED
      BY <3>1, <3>2, <3>3, <3>4, <3>5
  <2>3. QED
    BY <2>1, <2>2
<1>3. \A t \in Services : t # s => link'[t] = link[t]
  OBVIOUS
<1>4. link' \in [Services -> Seq(P)]
  BY <1>2, <1>3
<1>5. ASSUME NEW t \in Services PROVE LinkInv(t)'
  <2>1. CASE t = s
    <3>1. ASSUME NEW i \in 1..Len(link'[s])
          PROVE  /\ i + k \in 1..Len(link[s]) /\ link'[s][i] = link[s][i + k]
      BY <1>1, <1>2
    <3>2. ASSUME NEW i \in 1..Len(link'[s])
          PROVE  /\ link'[s][i] \in Pushed(s) /\ link'[s][i].id <= made'[s]
                 /\ \A j \in 1..Len(link'[s]) : i < j => link'[s][i].id < link'[s][j].id
      <4>1. LinkInv(s) /\ i + k \in 1..Len(link[s]) /\ link'[s][i] = link[s][i + k]
        BY <3>1
      <4>2. link'[s][i] \in Pushed(s) /\ link'[s][i].id <= made'[s]
        BY <4>1 DEF LinkInv
      <4>3. ASSUME NEW j \in 1..Len(link'[s]), i < j
            PROVE  link'[s][i].id < link'[s][j].id
        <5>1. j + k \in 1..Len(link[s]) /\ link'[s][j] = link[s][j + k]
          BY <3>1
        <5>2. i + k < j + k
          BY <1>2, <4>3
        <5>3. QED
          BY <4>1, <5>1, <5>2 DEF LinkInv
      <4>4. QED
        BY <4>2, <4>3
    <3>3. QED
      BY <2>1, <3>2 DEF LinkInv
  <2>2. CASE t # s
    BY <1>3, <2>2 DEF LinkInv
  <2>3. QED
    BY <2>1, <2>2
<1>6. ASSUME NEW t \in Services, NEW n \in Nat, Ahead(t, n) PROVE Ahead(t, n)'
  <2>1. CASE t = s
    <3>1. ASSUME NEW i \in 1..Len(link'[s]) PROVE n < link'[s][i].id
      <4>1. i + k \in 1..Len(link[s]) /\ link'[s][i] = link[s][i + k]
        BY <1>1, <1>2
      <4>2. QED
        BY <1>6, <2>1, <4>1 DEF Ahead
    <3>2. QED
      BY <1>6, <2>1, <3>1 DEF Ahead
  <2>2. CASE t # s
    BY <1>3, <1>6, <2>2 DEF Ahead
  <2>3. QED
    BY <2>1, <2>2
<1>7. QED
  BY <1>4, <1>5, <1>6

\* The channels' packets keep their order while nothing is pushed to one.
LEMMA HeldKept ==
    ASSUME IInv, Types', \A c \in Channels : Held(c)' = Held(c),
           UNCHANGED loops,
           \A t \in Services : LinkInv(t)',
           \A t \in Services, n \in Nat : Ahead(t, n) => Ahead(t, n)'
    PROVE  IInv'
<1>1. ASSUME NEW t \in Services PROVE LoopInv(t)'
  BY GivenFacts DEF IInv, LoopInv, loops, Distinct
<1>2. ASSUME NEW c \in Channels, NEW p \in ToSet(Held(c))' PROVE HeldInv(c, p)'
  <2>1. p \in ToSet(Held(c)) /\ HeldInv(c, p)
    BY <1>2 DEF IInv, ToSet
  <2>2. p.from \in Services /\ p.id \in Nat
    BY <2>1, HeldFacts, GivenFacts DEF IInv
  <2>3. QED
    BY <2>1, <2>2 DEF HeldInv, loops
<1>3. InOrder'
  BY DEF IInv, InOrder
<1>4. QED
  BY <1>1, <1>2, <1>3 DEF IInv

\* One packet more on its way from s.
LEMMA PushInv ==
    ASSUME IInv, NEW s \in Services, NEW meta, NEW to, NEW user,
           Push(s, meta, to, user),
           [from |-> s, id |-> made[s] + 1, to |-> to, user |-> user,
            meta |-> AddMeta(meta, DestServer, Gateway)] \in Pushed(s)
    PROVE  IInv'
<1> DEFINE P == UNION {Pushed(t) : t \in Services}
           new == [from |-> s, id |-> made[s] + 1, to |-> to, user |-> user,
                   meta |-> AddMeta(meta, DestServer, Gateway)]
<1>1. /\ new \in Pushed(s) /\ new.id = made[s] + 1
      /\ link' = [link EXCEPT ![s] = Append(link[s], new)]
      /\ made' = [made EXCEPT ![s] = made[s] + 1]
      /\ UNCHANGED loops /\ UNCHANGED boxes
  BY DEF Push
<1> HIDE DEF new, P
<1>2. /\ link \in [Services -> Seq(P)] /\ link[s] \in Seq(P) /\ Len(link[s]) \in Nat
      /\ made \in [Services -> Nat] /\ made[s] \in Nat /\ new \in P
  BY <1>1, LenProperties DEF IInv, Types, P
<1>3. /\ link'[s] \in Seq(P) /\ Len(link'[s]) = Len(link[s]) + 1
      /\ \A i \in 1..Len(link'[s]) :
            link'[s][i] = IF i = Len(link'[s]) THEN new ELSE link[s][i]
      /\ \A t \in Services : t # s => link'[t] = link[t] /\ made'[t] = made[t]
      /\ made'[s] = made[s] + 1
  <2>1. link'[s] = Append(link[s], new)
    BY <1>1, <1>2
  <2>2. /\ Append(link[s], new) \in Seq(P)
        /\ Len(Append(link[s], new)) = Len(link[s]) + 1
        /\ \A i \in 1..(Len(link[s]) + 1) :
             Append(link[s], new)[i] = IF i = Len(link[s]) + 1 THEN new ELSE link[s][i]
    BY <1>2, AppendFacts
  <2>3. QED
    BY <1>1, <1>2, <2>1, <2>2
<1>4. Types'
  <2>1. link' \in [Services -> Seq(P)] /\ made' \in [Services -> Nat]
    BY <1>1, <1>2, <1>3
  <2>2. QED
    BY <1>1, <2>1 DEF IInv, Types, loops, boxes, P
<1>5. ASSUME NEW t \in Services, NEW n \in Nat, Ahead(t, n) PROVE Ahead(t, n)'
  <2>1. CASE t = s
    <3>1. n <= made[s] /\ \A i \in 1..Len(link[s]) : n < link[s][i].id
      BY <1>5, <2>1 DEF Ahead
    <3>2. n < new.id /\ n <= made'[s]
      BY <1>1, <1>2, <1>3, <3>1
    <3>3. ASSUME NEW i \in 1..Len(link'[s]) PROVE n < link'[s][i].id
      <4>1. CASE i = Len(link'[s])
        BY <1>3, <3>2, <4>1
      <4>2. CASE i # Len(link'[s])
        <5>1. i \in 1..Len(link[s]) /\ link'[s][i] = link[s][i]
          BY <1>2, <1>3, <4>2
        <5>2. QED
          BY <3>1, <5>1
      <4>3. QED
        BY <4>1, <4>2
    <3>4. QED
      BY <2>1, <3>2, <3>3 DEF Ahead
  <2>2. CASE t # s
    BY <1>3, <1>5, <2>2 DEF Ahead
  <2>3. QED
    BY <2>1, <2>2
<1>6. ASSUME NEW t \in Services PROVE LinkInv(t)'
  <2>1. CASE t = s
    <3>1. \A i \in 1..Len(link[s]) :
             /\ link[s][i] \in Pushed(s) /\ link[s][i].id \in Nat
             /\ link[s][i].id <= made[s]
             /\ \A j \in 1..Len(link[s]) : i < j => link[s][i].id < link[s][j].id
      BY PacketFacts DEF IInv, LinkInv
    <3>2. ASSUME NEW i \in 1..Len(link'[s])
          PROVE  /\ link'[s][i] \in Pushed(s) /\ link'[s][i].id <= made'[s]
                 /\ \A j \in 1..Len(link'[s]) : i < j => link'[s][i].id < link'[s][j].id
      <4>1. CASE i = Len(link'[s])
        <5>1. link'[s][i] = new
          BY <1>3, <4>1
        <5>2. \A j \in 1..Len(link'[s]) : ~(i < j)
          BY <1>2, <1>3, <4>1
        <5>3. QED
          BY <1>1, <1>2, <1>3, <5>1, <5>2
      <4>2. CASE i # Len(link'[s])
        <5>1. i \in 1..Len(link[s]) /\ link'[s][i] = link[s][i]
          BY <1>2, <1>3, <4>2
        <5>2. link'[s][i] \in Pushed(s) /\ link'[s][i].id <= made'[s]
          BY <1>2, <1>3, <3>1, <5>1
        <5>3. ASSUME NEW j \in 1..Len(link'[s]), i < j
              PROVE  link'[s][i].id < link'[s][j].id
          <6>1. CASE j = Len(link'[s])
            <7>1. link'[s][j] = new
              BY <1>3, <6>1
            <7>2. link[s][i].id \in Nat /\ link[s][i].id <= made[s]
              BY <3>1, <5>1
            <7>3. link[s][i].id < made[s] + 1
              BY <1>2, <7>2
            <7>4. QED
              BY <1>1, <5>1, <7>1, <7>3
          <6>2. CASE j # Len(link'[s])
            <7>1. j \in 1..Len(link[s]) /\ link'[s][j] = link[s][j]
              BY <1>2, <1>3, <6>2
            <7>2. QED
              BY <3>1, <5>1, <5>3, <7>1
          <6>3. QED
            BY <6>1, <6>2
        <5>4. QED
          BY <5>2, <5>3
      <4>3. QED
        BY <4>1, <4>2
    <3>3. QED
      BY <2>1, <3>2 DEF LinkInv
  <2>2. CASE t # s
    BY <1>3, <2>2 DEF IInv, LinkInv
  <2>3. QED
    BY <2>1, <2>2
<1>7. \A c \in Channels : Held(c)' = Held(c)
  BY <1>1 DEF Held, boxes
<1>8. QED
  BY <1>1, <1>4, <1>5, <1>6, <1>7, HeldKept

\* The number of the next push.
LEMMA NextNumber ==
    ASSUME Types, NEW s \in Services, made[s] < MaxPushes[s]
    PROVE  made[s] + 1 \in 1..MaxPushes[s]
<1>1. made[s] \in Nat /\ MaxPushes[s] \in Nat
  BY MaxPushesAssumption DEF Types
<1>2. QED
  BY <1>1

\* A handler's push keeps the invariant.
LEMMA DispatcherPushInv ==
    ASSUME IInv, NEW s \in Services, DispatcherPush(s)
    PROVE  IInv'
<1>1. PICK to \in Addresses : Push(s, AddMeta(<< >>, DestChannels, to), to, << >>)
  BY DEF DispatcherPush
<1>2. made[s] + 1 \in 1..MaxPushes[s]
  BY <1>1, NextNumber DEF IInv, Push
<1>3. [from |-> s, id |-> made[s] + 1, to |-> to, user |-> << >>,
       meta |-> AddMeta(AddMeta(<< >>, DestChannels, to), DestServer, Gateway)]
         \in Pushed(s)
  BY <1>2 DEF Pushed, DispatchedMeta
<1>4. QED
  BY <1>1, <1>3, PushInv

\* An error reply keeps the invariant.
LEMMA RespErrInv ==
    ASSUME IInv, NEW s \in Services, RespErr(s)
    PROVE  IInv'
<1>1. PICK c \in Channels, user \in UserMetas :
        Push(s, AddMeta(AddMeta(user, DestServer, Gateway), DestChannels, <<c>>),
             <<c>>, user)
  BY DEF RespErr
<1>2. made[s] + 1 \in 1..MaxPushes[s]
  BY <1>1, NextNumber DEF IInv, Push
<1>3. [from |-> s, id |-> made[s] + 1, to |-> <<c>>, user |-> user,
       meta |-> AddMeta(AddMeta(AddMeta(user, DestServer, Gateway), DestChannels, <<c>>),
                        DestServer, Gateway)]
         \in Pushed(s)
  <2>1. [from |-> s, id |-> made[s] + 1, to |-> <<c>>, user |-> user,
         meta |-> ReturnedMeta(c, user)] \in Pushed(s)
    <3>1. ASSUME NEW n \in 1..MaxPushes[s]
          PROVE  [from |-> s, id |-> n, to |-> <<c>>, user |-> user,
                  meta |-> ReturnedMeta(c, user)] \in Pushed(s)
      BY DEF Pushed
    <3>2. QED
      BY <1>2, <3>1
  <2>2. QED
    BY <2>1, Zenon DEF ReturnedMeta
<1>4. QED
  BY <1>1, <1>3, PushInv

\* A broken connection takes the last packets, so the order is kept.
LEMMA LinkBreaksInv ==
    ASSUME IInv, NEW s \in Services, LinkBreaks(s)
    PROVE  IInv'
<1>1. /\ \E n \in 0..Len(link[s]) : link' = [link EXCEPT ![s] = SubSeq(@, 1, n)]
      /\ UNCHANGED <<made, loops, boxes>>
  BY DEF LinkBreaks
<1>2. /\ link' \in [Services -> Seq(UNION {Pushed(t) : t \in Services})]
      /\ \A t \in Services : LinkInv(t)'
      /\ \A t \in Services, n \in Nat : Ahead(t, n) => Ahead(t, n)'
  BY <1>1, AheadKept DEF IInv
<1>3. Types'
  BY <1>1, <1>2 DEF IInv, Types, loops, boxes
<1>4. \A c \in Channels : Held(c)' = Held(c)
  BY <1>1 DEF Held, boxes
<1>5. QED
  BY <1>1, <1>2, <1>3, <1>4, HeldKept

\* A channel that leaves, writes or fails keeps its packets in order.
LEMMA ChannelsInv ==
    ASSUME IInv, NEW c \in Channels, Leave(c) \/ Deliver(c) \/ Break(c)
    PROVE  IInv'
<1>1. UNCHANGED <<wire, loops>>
  BY DEF Leave, Deliver, Break
<1>2. queue' \in [Channels -> Seq(Given)] /\ sent' \in [Channels -> Seq(Given)]
      /\ \A d \in Channels : Held(d)' = Held(d)
  <2>1. CASE Leave(c) \/ Break(c)
    BY <2>1 DEF Leave, Break, boxes, Held, IInv, Types
  <2>2. CASE Deliver(c)
    <3>1. queue \in [Channels -> Seq(Given)] /\ sent \in [Channels -> Seq(Given)]
      BY DEF IInv, Types
    <3>2. /\ queue[c] # << >>
          /\ sent' = [sent EXCEPT ![c] = Append(sent[c], Head(queue[c]))]
          /\ queue' = [queue EXCEPT ![c] = Tail(queue[c])]
      BY <2>2 DEF Deliver
    <3>3. Head(queue[c]) \in Given /\ Tail(queue[c]) \in Seq(Given)
      BY <3>1, <3>2, TailFacts
    <3>4. Append(sent[c], Head(queue[c])) \in Seq(Given)
      BY <3>1, <3>3, AppendFacts
    <3>5. Append(sent[c], Head(queue[c])) \o Tail(queue[c]) = sent[c] \o queue[c]
      <4>1. PICK a \in Seq(Given), b \in Seq(Given) : a = sent[c] /\ b = queue[c]
        BY <3>1
      <4>2. Append(a, Head(b)) \o Tail(b) = a \o b
        BY <3>2, <4>1, HeldDeliver
      <4>3. QED
        BY <4>1, <4>2
    <3>6. QED
      BY <3>1, <3>2, <3>3, <3>4, <3>5 DEF Held
  <2>3. QED
    BY <2>1, <2>2
<1>3. Types' /\ \A t \in Services : LinkInv(t)'
  BY <1>1, <1>2 DEF IInv, Types, LinkInv, wire, loops
<1>4. \A t \in Services, n \in Nat : Ahead(t, n) => Ahead(t, n)'
  BY <1>1 DEF Ahead, wire
<1>5. QED
  BY <1>1, <1>2, <1>3, <1>4, HeldKept

-----------------------------------------------------------------------------
(* The read loops.  A list of channels names each of them once. *)

DistinctAddresses == \A to \in Addresses : Distinct(to)

\* A list of channels that names each at most once.
LEMMA ListFacts ==
    ASSUME DistinctAddresses, NEW to \in Lists
    PROVE  to \in Seq(Channels) /\ to # << >> /\ Distinct(to)
           /\ \A i \in 1..Len(to) : to[i] \in ToSet(to)
<1>1. to \in Seq(Channels) /\ to # << >>
  BY ListTypes
<1>2. Distinct(to)
  <2>1. ASSUME NEW c \in Channels, to = <<c>> PROVE Distinct(to)
    BY <2>1 DEF Distinct
  <2>2. QED
    BY <2>1 DEF Lists, DistinctAddresses
<1>3. QED
  BY <1>1, <1>2, LenProperties DEF ToSet

\* The next packet comes behind all that the channels hold from s.
LEMMA ReadPacketInv ==
    ASSUME DistinctAddresses, IInv, NEW s \in Services, ReadPacket(s)
    PROVE  IInv'
<1>0. PICK p : p = Head(link[s])
  OBVIOUS
<1>1. /\ pc[s] = "read" /\ link[s] # << >> /\ link' = [link EXCEPT ![s] = Tail(link[s])]
      /\ UNCHANGED <<made, registered, boxes>>
      /\ \/ UNCHANGED loops
         \/ /\ pc' = [pc EXCEPT ![s] = "find"]
            /\ rest' = [rest EXCEPT ![s] = FindMeta(p.meta, DestChannels)]
            /\ payload' = [payload EXCEPT ![s] = Stripped(p)]
  BY <1>0 DEF ReadPacket, Stripped
<1>2. /\ link' \in [Services -> Seq(UNION {Pushed(t) : t \in Services})]
      /\ \A t \in Services : LinkInv(t)'
      /\ \A t \in Services, n \in Nat : Ahead(t, n) => Ahead(t, n)'
  BY <1>1, AheadKept DEF IInv
<1>3. \A c \in Channels : Held(c)' = Held(c)
  BY <1>1 DEF Held, boxes
<1>4. CASE UNCHANGED loops
  <2>1. Types'
    BY <1>1, <1>2, <1>4 DEF IInv, Types, loops, boxes
  <2>2. QED
    BY <1>2, <1>3, <1>4, <2>1, HeldKept
<1>5. CASE /\ pc' = [pc EXCEPT ![s] = "find"]
           /\ rest' = [rest EXCEPT ![s] = FindMeta(p.meta, DestChannels)]
           /\ payload' = [payload EXCEPT ![s] = Stripped(p)]
  <2>1. link[s] \in Seq(UNION {Pushed(t) : t \in Services})
    BY DEF IInv, Types
  <2>2. /\ Len(link[s]) \in Nat \ {0} /\ p = link[s][1] /\ Len(Tail(link[s])) = Len(link[s]) - 1
        /\ \A i \in 1..(Len(link[s]) - 1) : Tail(link[s])[i] = link[s][i + 1]
    BY <1>0, <1>1, <2>1, TailFacts
  <2>3. 1 \in 1..Len(link[s])
    BY <2>2
  <2>4. /\ p \in Pushed(s) /\ p.id <= made[s]
        /\ \A j \in 1..Len(link[s]) : 1 < j => p.id < link[s][j].id
    BY <2>2, <2>3 DEF IInv, LinkInv
  <2>5. /\ p.from = s /\ p.id \in Nat /\ p.to \in Lists
        /\ Stripped(p).from = s /\ Stripped(p).id = p.id /\ Stripped(p).to = p.to
        /\ FindMeta(p.meta, DestChannels) = p.to
    BY <2>4, PacketFacts, PacketRead
  <2>6. Stripped(p) \in Given
    BY <2>4 DEF Given
  <2>7. /\ p.to \in Seq(Channels) /\ p.to # << >> /\ Distinct(p.to)
        /\ \A i \in 1..Len(p.to) : p.to[i] \in ToSet(p.to)
    BY <2>5, ListFacts
  <2>8. /\ pc \in [Services -> {"read", "find", "push"}]
        /\ payload \in [Services -> Given \cup {Nothing}]
        /\ rest \in [Services -> Seq(Channels)]
    BY DEF IInv, Types
  <2>9. /\ pc'[s] = "find" /\ rest'[s] = p.to /\ payload'[s] = Stripped(p)
        /\ \A t \in Services : t # s =>
              pc'[t] = pc[t] /\ rest'[t] = rest[t] /\ payload'[t] = payload[t]
    BY <1>5, <2>5, <2>8
  <2>10. Types'
    <3>1. /\ pc' \in [Services -> {"read", "find", "push"}]
          /\ payload' \in [Services -> Given \cup {Nothing}]
          /\ rest' \in [Services -> Seq(Channels)]
      BY <1>5, <2>5, <2>6, <2>7, <2>8
    <3>2. QED
      BY <1>1, <1>2, <3>1 DEF IInv, Types, boxes
  <2>11. Ahead(s, p.id)'
    <3>1. p.id <= made'[s]
      BY <1>1, <2>4
    <3>2. link'[s] = Tail(link[s])
      BY <1>1 DEF IInv, Types
    <3>3. ASSUME NEW i \in 1..Len(link'[s]) PROVE p.id < link'[s][i].id
      <4>1. i + 1 \in 1..Len(link[s]) /\ 1 < i + 1 /\ link'[s][i] = link[s][i + 1]
        BY <2>2, <3>2
      <4>2. QED
        BY <2>4, <4>1
    <3>4. QED
      BY <3>1, <3>3 DEF Ahead
  <2>12. ASSUME NEW t \in Services PROVE LoopInv(t)'
    <3>1. CASE t = s
      BY <2>5, <2>6, <2>7, <2>9, <2>11, <3>1 DEF LoopInv, Distinct
    <3>2. CASE t # s
      BY <1>2, <2>9, <3>2, GivenFacts DEF IInv, LoopInv, Distinct
    <3>3. QED
      BY <3>1, <3>2
  <2>13. ASSUME NEW c \in Channels, NEW q \in ToSet(Held(c))' PROVE HeldInv(c, q)'
    <3>1. q \in ToSet(Held(c)) /\ HeldInv(c, q)
      BY <1>3, <2>13 DEF IInv, ToSet
    <3>2. q.from \in Services /\ q.id \in Nat
      BY <3>1, HeldFacts, GivenFacts DEF IInv
    <3>3. Ahead(q.from, q.id)' /\ c \in ToSet(q.to)
      BY <1>2, <3>1, <3>2 DEF HeldInv
    <3>4. CASE q.from = s
      <4>1. q.id < p.id
        BY <2>2, <2>3, <3>1, <3>4 DEF HeldInv, Ahead
      <4>2. q.id < payload'[s].id /\ q.id <= payload'[s].id
        BY <2>5, <2>9, <3>2, <4>1
      <4>3. QED
        BY <3>3, <3>4, <4>2 DEF HeldInv
    <3>5. CASE q.from # s
      BY <2>9, <3>1, <3>2, <3>3, <3>5 DEF HeldInv
    <3>6. QED
      BY <3>4, <3>5
  <2>14. InOrder'
    BY <1>3 DEF IInv, InOrder
  <2>15. QED
    BY <1>2, <2>10, <2>12, <2>13, <2>14 DEF IInv
<1>6. QED
  BY <1>1, <1>4, <1>5

\* The loop goes on with the channels behind the first one.
LEMMA GoOnInv ==
    ASSUME IInv, NEW s \in Services, pc[s] # "read",
           GoOn(s, Tail(rest[s])), UNCHANGED wire
    PROVE  /\ pc' \in [Services -> {"read", "find", "push"}]
           /\ payload' \in [Services -> Given \cup {Nothing}]
           /\ rest' \in [Services -> Seq(Channels)]
           /\ \A t \in Services : LinkInv(t)' /\ LoopInv(t)'
           /\ \A c \in Channels, p \in Given : HeldInv(c, p) => HeldInv(c, p)'
           /\ \A c \in Channels, p \in Given :
                c = Head(rest[s]) /\ p = payload[s] => HeldInv(c, p)'
<1>1. /\ pc \in [Services -> {"read", "find", "push"}]
      /\ payload \in [Services -> Given \cup {Nothing}]
      /\ rest \in [Services -> Seq(Channels)]
      /\ LoopInv(s) /\ rest[s] # << >>
      /\ payload[s] \in Given /\ payload[s].from = s
  BY DEF IInv, Types, LoopInv
<1>2. /\ Len(rest[s]) \in Nat \ {0} /\ Head(rest[s]) = rest[s][1]
      /\ Tail(rest[s]) \in Seq(Channels) /\ Len(Tail(rest[s])) = Len(rest[s]) - 1
      /\ \A i \in 1..(Len(rest[s]) - 1) : Tail(rest[s])[i] = rest[s][i + 1]
  BY <1>1, TailFacts
<1>3. /\ pc' = [pc EXCEPT ![s] = IF Tail(rest[s]) = << >> THEN "read" ELSE "find"]
      /\ rest' = [rest EXCEPT ![s] = Tail(rest[s])]
      /\ payload' = [payload EXCEPT ![s] =
                        IF Tail(rest[s]) = << >> THEN Nothing ELSE payload[s]]
  BY DEF GoOn
<1>4. /\ pc' \in [Services -> {"read", "find", "push"}]
      /\ payload' \in [Services -> Given \cup {Nothing}]
      /\ rest' \in [Services -> Seq(Channels)]
  BY <1>1, <1>2, <1>3
<1>5. /\ rest'[s] = Tail(rest[s])
      /\ Tail(rest[s]) = << >> => pc'[s] = "read"
      /\ Tail(rest[s]) # << >> => pc'[s] = "find" /\ payload'[s] = payload[s]
      /\ \A t \in Services : t # s =>
            pc'[t] = pc[t] /\ rest'[t] = rest[t] /\ payload'[t] = payload[t]
  BY <1>1, <1>3
<1>6. \A t \in Services : \A n : Ahead(t, n)' <=> Ahead(t, n)
  BY DEF Ahead, wire
<1>7. ASSUME NEW t \in Services PROVE LinkInv(t)' /\ LoopInv(t)'
  <2>1. LinkInv(t)'
    BY DEF IInv, LinkInv, wire
  <2>2. CASE t # s
    BY <1>5, <1>6, <2>1, <2>2 DEF IInv, LoopInv, Distinct
  <2>3. CASE t = s /\ Tail(rest[s]) = << >>
    BY <1>5, <2>1, <2>3 DEF LoopInv
  <2>4. CASE t = s /\ Tail(rest[s]) # << >>
    <3>1. Distinct(rest[s]) /\ \A i \in 1..Len(rest[s]) : rest[s][i] \in ToSet(payload[s].to)
      BY <1>1, <1>2 DEF LoopInv
    <3>2. \A i \in 1..Len(Tail(rest[s])) :
             i + 1 \in 1..Len(rest[s]) /\ Tail(rest[s])[i] = rest[s][i + 1]
      BY <1>2
    <3>3. Distinct(Tail(rest[s]))
      BY <3>1, <3>2 DEF Distinct
    <3>4. \A i \in 1..Len(Tail(rest[s])) : Tail(rest[s])[i] \in ToSet(payload[s].to)
      BY <3>1, <3>2
    <3>5. Ahead(s, payload[s].id)
      BY <1>1 DEF LoopInv
    <3>6. Ahead(s, payload[s].id)'
      BY <1>5, <2>4, <3>5 DEF Ahead, wire
    <3>7. Distinct(rest[s])'
      BY <1>5, <3>3
    <3>8. QED
      BY <1>1, <1>5, <2>1, <2>4, <3>4, <3>6, <3>7 DEF LoopInv
  <2>5. QED
    BY <2>2, <2>3, <2>4
<1>8. ToSet(Tail(rest[s])) \subseteq ToSet(rest[s]) /\ Head(rest[s]) \notin ToSet(Tail(rest[s]))
  <2>1. /\ ToSet(rest[s]) = {rest[s][i] : i \in 1..Len(rest[s])}
        /\ ToSet(Tail(rest[s])) = {Tail(rest[s])[i] : i \in 1..Len(Tail(rest[s]))}
    BY <1>1, <1>2, LenProperties DEF ToSet
  <2>2. \A i \in 1..Len(Tail(rest[s])) :
           i + 1 \in 1..Len(rest[s]) /\ i + 1 # 1 /\ Tail(rest[s])[i] = rest[s][i + 1]
    BY <1>2
  <2>3. Distinct(rest[s]) /\ 1 \in 1..Len(rest[s])
    BY <1>1, <1>2 DEF LoopInv
  <2>4. QED
    BY <1>2, <2>1, <2>2, <2>3 DEF Distinct
<1>9. ASSUME NEW c \in Channels, NEW p \in Given, HeldInv(c, p) PROVE HeldInv(c, p)'
  <2>1. p.from \in Services
    BY GivenFacts
  <2>2. CASE p.from # s
    BY <1>5, <1>6, <1>9, <2>1, <2>2 DEF HeldInv
  <2>3. CASE p.from = s
    BY <1>1, <1>5, <1>6, <1>8, <1>9, <2>1, <2>3 DEF HeldInv
  <2>4. QED
    BY <2>2, <2>3
<1>10. ASSUME NEW c \in Channels, NEW p \in Given, c = Head(rest[s]), p = payload[s]
       PROVE  HeldInv(c, p)'
  <2>1. p.id \in Nat /\ p.from = s
    BY <1>1, <1>10, GivenFacts
  <2>2. c \in ToSet(p.to) /\ Ahead(s, p.id)
    <3>1. 1 \in 1..Len(rest[s])
      BY <1>2
    <3>2. QED
      BY <1>1, <1>2, <1>10, <3>1 DEF LoopInv
  <2>3. QED
    BY <1>5, <1>6, <1>8, <1>10, <2>1, <2>2 DEF HeldInv
<1>11. QED
  BY <1>4, <1>7, <1>9, <1>10

\* A channel that is not found is left out.
LEMMA FindChannelInv ==
    ASSUME IInv, NEW s \in Services, FindChannel(s)
    PROVE  IInv'
<1>1. pc[s] = "find" /\ UNCHANGED <<wire, boxes>>
  BY DEF FindChannel
<1>2. \A c \in Channels : Held(c)' = Held(c)
  BY <1>1 DEF Held, boxes
<1>3. CASE pc' = [pc EXCEPT ![s] = "push"] /\ UNCHANGED <<payload, rest>>
  <2>1. Types'
    BY <1>1, <1>3 DEF IInv, Types, wire, boxes
  <2>2. \A t \in Services : pc'[t] = "read" <=> pc[t] = "read"
    BY <1>1, <1>3 DEF IInv, Types
  <2>3. \A t \in Services : LinkInv(t)' /\ LoopInv(t)'
    BY <1>1, <1>3, <2>2 DEF IInv, LinkInv, LoopInv, Ahead, Distinct, wire
  <2>4. ASSUME NEW c \in Channels, NEW p \in ToSet(Held(c))' PROVE HeldInv(c, p)'
    <3>1. p \in ToSet(Held(c)) /\ HeldInv(c, p)
      BY <1>2, <2>4 DEF IInv, ToSet
    <3>2. p.from \in Services
      BY <3>1, HeldFacts, GivenFacts DEF IInv
    <3>3. QED
      BY <1>1, <1>3, <2>2, <3>1, <3>2 DEF HeldInv, Ahead, wire
  <2>5. QED
    BY <1>2, <2>1, <2>3, <2>4 DEF IInv, InOrder
<1>4. CASE GoOn(s, Tail(rest[s]))
  <2>1. Types' /\ \A t \in Services : LinkInv(t)' /\ LoopInv(t)'
    BY <1>1, <1>4, GoOnInv DEF IInv, Types, wire, boxes
  <2>2. ASSUME NEW c \in Channels, NEW p \in ToSet(Held(c))' PROVE HeldInv(c, p)'
    <3>1. p \in ToSet(Held(c)) /\ HeldInv(c, p)
      BY <1>2, <2>2 DEF IInv, ToSet
    <3>2. p \in Given
      BY <3>1, HeldFacts DEF IInv
    <3>3. QED
      BY <1>1, <1>4, <3>1, <3>2, GoOnInv
  <2>3. QED
    BY <1>2, <2>1, <2>2 DEF IInv, InOrder
<1>5. QED
  BY <1>3, <1>4 DEF FindChannel

\* A channel gets the packet in hand, which is the last so far, and gets it once.
LEMMA PushChannelInv ==
    ASSUME IInv, NEW s \in Services, PushChannel(s)
    PROVE  IInv'
<1>1. PICK c, new : c = Head(rest[s]) /\ new = payload[s]
  OBVIOUS
<1>2. /\ pc[s] = "push" /\ queue' = [queue EXCEPT ![c] = Append(queue[c], new)]
      /\ GoOn(s, Tail(rest[s])) /\ UNCHANGED <<wire, sent>>
  BY <1>1 DEF PushChannel
<1>3. /\ queue \in [Channels -> Seq(Given)] /\ sent \in [Channels -> Seq(Given)]
      /\ rest[s] \in Seq(Channels) /\ rest[s] # << >> /\ pc[s] # "read"
      /\ new \in Given /\ new.from = s
  BY <1>1, <1>2 DEF IInv, Types, LoopInv
<1>4. c \in Channels /\ c \in ToSet(rest[s])
  <2>1. Len(rest[s]) \in Nat \ {0} /\ c = rest[s][1] /\ c \in Channels
    BY <1>1, <1>3, TailFacts
  <2>2. QED
    BY <1>3, <2>1, LenProperties DEF ToSet
<1>5. /\ \A d \in Channels : d # c => Held(d)' = Held(d)
      /\ Held(c)' = Append(Held(c), new)
  <2>1. queue'[c] = Append(queue[c], new) /\ sent' = sent
    BY <1>2, <1>3, <1>4
  <2>2. sent[c] \o Append(queue[c], new) = Append(sent[c] \o queue[c], new)
    BY <1>3, <1>4, HeldPush
  <2>3. QED
    BY <1>2, <1>3, <1>4, <2>1, <2>2 DEF Held
<1>6. Types' /\ \A t \in Services : LinkInv(t)' /\ LoopInv(t)'
  <2>1. Append(queue[c], new) \in Seq(Given)
    BY <1>3, <1>4, AppendFacts
  <2>2. queue' \in [Channels -> Seq(Given)] /\ sent' \in [Channels -> Seq(Given)]
    BY <1>2, <1>3, <1>4, <2>1
  <2>3. QED
    BY <1>2, <1>3, <2>2, GoOnInv DEF IInv, Types, wire
<1>7. /\ Held(c) \in Seq(Given) /\ Len(Held(c)) \in Nat
      /\ ToSet(Held(c)) = {Held(c)[i] : i \in 1..Len(Held(c))}
      /\ Held(c)' \in Seq(Given) /\ Len(Held(c)') = Len(Held(c)) + 1
      /\ \A i \in 1..(Len(Held(c)) + 1) :
            Held(c)'[i] = IF i = Len(Held(c)) + 1 THEN new ELSE Held(c)[i]
      /\ ToSet(Held(c))' = ToSet(Held(c)) \cup {new}
  <2>1. /\ Held(c) \in Seq(Given) /\ Len(Held(c)) \in Nat
        /\ ToSet(Held(c)) = {Held(c)[i] : i \in 1..Len(Held(c))}
    BY <1>4, HeldFacts DEF IInv
  <2>2. /\ Held(c)' \in Seq(Given) /\ Len(Held(c)') = Len(Held(c)) + 1
        /\ \A i \in 1..(Len(Held(c)) + 1) :
              Held(c)'[i] = IF i = Len(Held(c)) + 1 THEN new ELSE Held(c)[i]
    BY <1>3, <1>5, <2>1, AppendFacts
  <2>3. ToSet(Held(c))' = {Held(c)'[i] : i \in 1..(Len(Held(c)) + 1)}
    BY <2>2, LenProperties DEF ToSet
  <2>4. \A i \in 1..Len(Held(c)) : i \in 1..(Len(Held(c)) + 1) /\ i # Len(Held(c)) + 1
    BY <2>1
  <2>5. \A i \in 1..(Len(Held(c)) + 1) : i \in 1..Len(Held(c)) \/ i = Len(Held(c)) + 1
    BY <2>1
  <2>6. Len(Held(c)) + 1 \in 1..(Len(Held(c)) + 1)
    BY <2>1
  <2>7. QED
    BY <2>1, <2>2, <2>3, <2>4, <2>5, <2>6
<1>8. ASSUME NEW d \in Channels, NEW p \in ToSet(Held(d))' PROVE HeldInv(d, p)'
  <2>1. CASE p \in ToSet(Held(d))
    <3>1. HeldInv(d, p) /\ p \in Given
      BY <2>1, HeldFacts DEF IInv
    <3>2. QED
      BY <1>2, <1>3, <3>1, GoOnInv
  <2>2. CASE p \notin ToSet(Held(d))
    <3>1. d = c /\ p = new
      BY <1>5, <1>7, <1>8, <2>2 DEF ToSet
    <3>2. QED
      BY <1>1, <1>2, <1>3, <1>4, <3>1, GoOnInv
  <2>3. QED
    BY <2>1, <2>2
<1>9. \A i \in 1..Len(Held(c)) : Held(c)[i].from = s => Held(c)[i].id < new.id
  <2>1. ASSUME NEW p \in ToSet(Held(c)), p.from = s PROVE p.id < new.id
    <3>1. HeldInv(c, p)
      BY <1>4, <2>1 DEF IInv
    <3>2. QED
      BY <1>1, <1>3, <1>4, <2>1, <3>1 DEF HeldInv
  <2>2. QED
    BY <1>7, <2>1
<1>10. InOrder'
  <2>1. ASSUME NEW d \in Channels, NEW i \in 1..Len(Held(d)') PROVE d \in ToSet(Held(d)'[i].to)
    <3>1. Held(d)'[i] \in ToSet(Held(d))'
      <4>1. Held(d)' \in Seq(Given)
        BY <1>6, ConcatProperties DEF Types, Held
      <4>2. QED
        BY <4>1, LenProperties DEF ToSet
    <3>2. QED
      BY <1>8, <3>1 DEF HeldInv
  <2>2. ASSUME NEW d \in Channels, NEW i \in 1..Len(Held(d)'), NEW j \in 1..Len(Held(d)'),
               i < j, Held(d)'[i].from = Held(d)'[j].from
        PROVE  Held(d)'[i].id < Held(d)'[j].id
    <3>1. CASE d # c
      BY <1>5, <2>2, <3>1 DEF IInv, InOrder
    <3>2. CASE d = c
      <4>1. i \in 1..Len(Held(c)) /\ Held(c)'[i] = Held(c)[i]
        BY <1>7, <2>2, <3>2
      <4>2. CASE j = Len(Held(c)) + 1
        <5>1. Held(c)'[j] = new
          BY <1>7, <3>2, <4>2
        <5>2. QED
          BY <1>3, <1>9, <2>2, <3>2, <4>1, <5>1
      <4>3. CASE j # Len(Held(c)) + 1
        <5>1. j \in 1..Len(Held(c)) /\ Held(c)'[j] = Held(c)[j]
          BY <1>7, <2>2, <3>2, <4>3
        <5>2. QED
          BY <2>2, <3>2, <4>1, <5>1 DEF IInv, InOrder
      <4>4. QED
        BY <4>2, <4>3
    <3>3. QED
      BY <3>1, <3>2
  <2>3. QED
    BY <2>1, <2>2 DEF InOrder
<1>11. QED
  BY <1>6, <1>8, <1>10 DEF IInv

\* container.go:182-187, 297-315: in every run, a channel holds and writes the
\* packets of each service that address it in the order in which the service
\* pushed them, each once, if no handler names a channel twice in one push.
THEOREM InOrderSafe ==
    ASSUME DistinctAddresses
    PROVE  Spec => []InOrder
<1>1. IInv /\ [Next]_vars => IInv'
  <2> SUFFICES ASSUME IInv, [Next]_vars PROVE IInv'
    OBVIOUS
  <2>1. ASSUME NEW s \in Services, DispatcherPush(s) PROVE IInv'
    BY <2>1, DispatcherPushInv
  <2>2. ASSUME NEW s \in Services, RespErr(s) PROVE IInv'
    BY <2>2, RespErrInv
  <2>3. ASSUME NEW s \in Services, ReadPacket(s) PROVE IInv'
    BY <2>3, ReadPacketInv
  <2>4. ASSUME NEW s \in Services, FindChannel(s) PROVE IInv'
    BY <2>4, FindChannelInv
  <2>5. ASSUME NEW s \in Services, PushChannel(s) PROVE IInv'
    BY <2>5, PushChannelInv
  <2>6. ASSUME NEW s \in Services, LinkBreaks(s) PROVE IInv'
    BY <2>6, LinkBreaksInv
  <2>7. ASSUME NEW c \in Channels, Leave(c) \/ Deliver(c) \/ Break(c) PROVE IInv'
    BY <2>7, ChannelsInv
  <2>8. CASE UNCHANGED vars
    <3>1. UNCHANGED <<wire, loops, boxes>>
      BY <2>8 DEF vars
    <3>2. Types' /\ \A t \in Services : LinkInv(t)'
      BY <3>1 DEF IInv, Types, LinkInv, wire, loops, boxes
    <3>3. \A t \in Services, n \in Nat : Ahead(t, n) => Ahead(t, n)'
      BY <3>1 DEF Ahead, wire
    <3>4. \A c \in Channels : Held(c)' = Held(c)
      BY <3>1 DEF Held, boxes
    <3>5. QED
      BY <3>1, <3>2, <3>3, <3>4, HeldKept
  <2>9. QED
    BY <2>1, <2>2, <2>3, <2>4, <2>5, <2>6, <2>7, <2>8 DEF Next, ReadLoop, Outbox
<1>2. IInv => InOrder
  BY DEF IInv
<1>3. QED
  BY <1>1, <1>2, InitInv, PTL DEF Spec

-----------------------------------------------------------------------------
(* What the packets carry, whatever lists of channels they are pushed to. *)

\* The packets on their way from s are its own, and so is the one in hand.
Carried ==
    /\ Types /\ broken \in [Channels -> BOOLEAN] /\ registered \subseteq Channels
    /\ \A s \in Services : link[s] \in Seq(Pushed(s))
    /\ \A s \in Services :
          IF pc[s] = "read" THEN rest[s] = << >>
          ELSE rest[s] # << >> /\ payload[s] \in Given /\ payload[s].from = s

LEMMA CarriedInit == Init => Carried
<1> SUFFICES ASSUME Init PROVE Carried
  OBVIOUS
<1>1. Types
  BY InitInv DEF IInv
<1>2. QED
  BY <1>1 DEF Init, Carried

\* The list of s changes and holds packets of s still.
LEMMA LinkStep ==
    ASSUME Carried, NEW s \in Services, NEW list \in Seq(Pushed(s)),
           link' = [link EXCEPT ![s] = list]
    PROVE  /\ link' \in [Services -> Seq(UNION {Pushed(t) : t \in Services})]
           /\ \A t \in Services : link'[t] \in Seq(Pushed(t))
<1> DEFINE P == UNION {Pushed(t) : t \in Services}
<1>1. list \in Seq(P)
  <2>1. Len(list) \in Nat /\ \A i \in 1..Len(list) : list[i] \in Pushed(s)
    BY LenProperties, ElementOfSeq
  <2>2. Pushed(s) \subseteq P
    OBVIOUS
  <2> HIDE DEF P
  <2>3. \A i \in 1..Len(list) : list[i] \in P
    BY <2>1, <2>2
  <2>4. list = [i \in 1..Len(list) |-> list[i]]
    BY LenProperties
  <2>5. QED
    BY <2>1, <2>3, <2>4
<1>2. QED
  BY <1>1 DEF Carried, Types

LEMMA PushCarried ==
    ASSUME Carried, NEW s \in Services, NEW meta, NEW to, NEW user,
           Push(s, meta, to, user),
           [from |-> s, id |-> made[s] + 1, to |-> to, user |-> user,
            meta |-> AddMeta(meta, DestServer, Gateway)] \in Pushed(s)
    PROVE  Carried'
<1> DEFINE new == [from |-> s, id |-> made[s] + 1, to |-> to, user |-> user,
                   meta |-> AddMeta(meta, DestServer, Gateway)]
<1>1. /\ link' = [link EXCEPT ![s] = Append(link[s], new)]
      /\ made' = [made EXCEPT ![s] = made[s] + 1]
      /\ UNCHANGED loops /\ UNCHANGED <<registered, boxes>> /\ new \in Pushed(s)
  BY DEF Push
<1> HIDE DEF new
<1>2. Append(link[s], new) \in Seq(Pushed(s))
  BY <1>1, AppendFacts DEF Carried
<1>3. /\ link' \in [Services -> Seq(UNION {Pushed(t) : t \in Services})]
      /\ \A t \in Services : link'[t] \in Seq(Pushed(t))
  BY <1>1, <1>2, LinkStep
<1>4. made' \in [Services -> Nat]
  BY <1>1 DEF Carried, Types
<1>5. QED
  BY <1>1, <1>3, <1>4 DEF Carried, Types, loops, boxes

LEMMA LoopCarried ==
    ASSUME Carried, NEW s \in Services, ReadPacket(s)
    PROVE  Carried'
<1>0. PICK p : p = Head(link[s])
  OBVIOUS
<1>1. /\ pc[s] = "read" /\ link[s] # << >> /\ link' = [link EXCEPT ![s] = Tail(link[s])]
      /\ UNCHANGED <<made, registered, boxes>>
      /\ \/ UNCHANGED loops
         \/ /\ pc' = [pc EXCEPT ![s] = "find"]
            /\ rest' = [rest EXCEPT ![s] = FindMeta(p.meta, DestChannels)]
            /\ payload' = [payload EXCEPT ![s] = Stripped(p)]
  BY <1>0 DEF ReadPacket, Stripped
<1>2. p \in Pushed(s) /\ Tail(link[s]) \in Seq(Pushed(s))
  BY <1>0, <1>1, TailFacts DEF Carried
<1>3. /\ link' \in [Services -> Seq(UNION {Pushed(t) : t \in Services})]
      /\ \A t \in Services : link'[t] \in Seq(Pushed(t))
  BY <1>1, <1>2, LinkStep
<1>4. /\ FindMeta(p.meta, DestChannels) \in Seq(Channels) \ {<< >>}
      /\ Stripped(p) \in Given /\ Stripped(p).from = s
  <2>1. p.to \in Lists /\ Stripped(p).from = s /\ FindMeta(p.meta, DestChannels) = p.to
    BY <1>2, PacketFacts, PacketRead
  <2>2. Lists \subseteq Seq(Channels) \ {<< >>}
    BY ListTypes
  <2>3. QED
    BY <1>2, <2>1, <2>2 DEF Given
<1>5. CASE UNCHANGED loops
  BY <1>1, <1>3, <1>5 DEF Carried, Types, loops, boxes
<1>6. CASE /\ pc' = [pc EXCEPT ![s] = "find"]
           /\ rest' = [rest EXCEPT ![s] = FindMeta(p.meta, DestChannels)]
           /\ payload' = [payload EXCEPT ![s] = Stripped(p)]
  BY <1>1, <1>3, <1>4, <1>6 DEF Carried, Types, boxes
<1>7. QED
  BY <1>1, <1>5, <1>6

LEMMA GoOnCarried ==
    ASSUME Carried, NEW s \in Services, pc[s] # "read",
           GoOn(s, Tail(rest[s])), UNCHANGED <<wire, registered, broken>>,
           queue' \in [Channels -> Seq(Given)], sent' \in [Channels -> Seq(Given)]
    PROVE  Carried'
<1>1. rest[s] \in Seq(Channels) /\ rest[s] # << >>
  BY DEF Carried, Types
<1>2. Tail(rest[s]) \in Seq(Channels)
  BY <1>1, TailFacts
<1>3. /\ pc' = [pc EXCEPT ![s] = IF Tail(rest[s]) = << >> THEN "read" ELSE "find"]
      /\ rest' = [rest EXCEPT ![s] = Tail(rest[s])]
      /\ payload' = [payload EXCEPT ![s] =
                        IF Tail(rest[s]) = << >> THEN Nothing ELSE payload[s]]
  BY DEF GoOn
<1>4. QED
  BY <1>1, <1>2, <1>3 DEF Carried, Types, wire

LEMMA ChannelsCarried ==
    ASSUME Carried, NEW s \in Services, FindChannel(s) \/ PushChannel(s)
    PROVE  Carried'
<1>1. CASE FindChannel(s)
  <2>1. pc[s] = "find" /\ UNCHANGED <<wire, registered, boxes>>
    BY <1>1 DEF FindChannel
  <2>2. CASE pc' = [pc EXCEPT ![s] = "push"] /\ UNCHANGED <<payload, rest>>
    BY <2>1, <2>2 DEF Carried, Types, wire, boxes
  <2>3. CASE GoOn(s, Tail(rest[s]))
    BY <2>1, <2>3, GoOnCarried DEF Carried, Types, boxes
  <2>4. QED
    BY <1>1, <2>2, <2>3 DEF FindChannel
<1>2. CASE PushChannel(s)
  <2>1. PICK c, new : c = Head(rest[s]) /\ new = payload[s]
    OBVIOUS
  <2>2. /\ pc[s] = "push" /\ queue' = [queue EXCEPT ![c] = Append(queue[c], new)]
        /\ GoOn(s, Tail(rest[s])) /\ UNCHANGED <<wire, registered, sent, broken>>
    BY <1>2, <2>1 DEF PushChannel
  <2>3. c \in Channels /\ new \in Given
    BY <2>1, <2>2, TailFacts DEF Carried, Types
  <2>4. queue' \in [Channels -> Seq(Given)]
    <3>1. Append(queue[c], new) \in Seq(Given)
      BY <2>3, AppendFacts DEF Carried, Types
    <3>2. QED
      BY <2>2, <3>1 DEF Carried, Types
  <2>5. sent' \in [Channels -> Seq(Given)]
    BY <2>2 DEF Carried, Types
  <2>6. QED
    BY <2>2, <2>4, <2>5, GoOnCarried
<1>3. QED
  BY <1>1, <1>2

LEMMA BoxesCarried ==
    ASSUME Carried, NEW c \in Channels, Leave(c) \/ Deliver(c) \/ Break(c)
    PROVE  Carried'
<1>1. UNCHANGED <<wire, loops>>
  BY DEF Leave, Deliver, Break
<1>2. /\ queue' \in [Channels -> Seq(Given)] /\ sent' \in [Channels -> Seq(Given)]
      /\ broken' \in [Channels -> BOOLEAN] /\ registered' \subseteq Channels
  <2>1. CASE Leave(c) \/ Break(c)
    BY <2>1 DEF Leave, Break, boxes, Carried, Types
  <2>2. CASE Deliver(c)
    <3>1. /\ Head(queue[c]) \in Given /\ Tail(queue[c]) \in Seq(Given)
          /\ sent[c] \in Seq(Given)
      BY <2>2, TailFacts DEF Deliver, Carried, Types
    <3>2. Append(sent[c], Head(queue[c])) \in Seq(Given)
      BY <3>1, AppendFacts
    <3>3. QED
      BY <2>2, <3>1, <3>2 DEF Deliver, Carried, Types
  <2>3. QED
    BY <2>1, <2>2
<1>3. QED
  BY <1>1, <1>2 DEF Carried, Types, wire, loops

LEMMA CarriedNext == Carried /\ [Next]_vars => Carried'
<1> SUFFICES ASSUME Carried, [Next]_vars PROVE Carried'
  OBVIOUS
<1>1. ASSUME NEW s \in Services, DispatcherPush(s) PROVE Carried'
  <2>1. PICK to \in Addresses : Push(s, AddMeta(<< >>, DestChannels, to), to, << >>)
    BY <1>1 DEF DispatcherPush
  <2>2. made[s] + 1 \in 1..MaxPushes[s]
    BY <2>1, NextNumber DEF Carried, Push
  <2>3. [from |-> s, id |-> made[s] + 1, to |-> to, user |-> << >>,
         meta |-> AddMeta(AddMeta(<< >>, DestChannels, to), DestServer, Gateway)]
           \in Pushed(s)
    BY <2>2 DEF Pushed, DispatchedMeta
  <2>4. QED
    BY <2>1, <2>3, PushCarried
<1>2. ASSUME NEW s \in Services, RespErr(s) PROVE Carried'
  <2>1. PICK c \in Channels, user \in UserMetas :
          Push(s, AddMeta(AddMeta(user, DestServer, Gateway), DestChannels, <<c>>),
               <<c>>, user)
    BY <1>2 DEF RespErr
  <2>2. made[s] + 1 \in 1..MaxPushes[s]
    BY <2>1, NextNumber DEF Carried, Push
  <2>3. [from |-> s, id |-> made[s] + 1, to |-> <<c>>, user |-> user,
         meta |-> ReturnedMeta(c, user)] \in Pushed(s)
    <3>1. ASSUME NEW n \in 1..MaxPushes[s]
          PROVE  [from |-> s, id |-> n, to |-> <<c>>, user |-> user,
                  meta |-> ReturnedMeta(c, user)] \in Pushed(s)
      BY DEF Pushed
    <3>2. QED
      BY <2>2, <3>1
  <2>4. [from |-> s, id |-> made[s] + 1, to |-> <<c>>, user |-> user,
         meta |-> AddMeta(AddMeta(AddMeta(user, DestServer, Gateway), DestChannels, <<c>>),
                          DestServer, Gateway)] \in Pushed(s)
    BY <2>3, Zenon DEF ReturnedMeta
  <2>5. QED
    BY <2>1, <2>4, PushCarried
<1>3. ASSUME NEW s \in Services, LinkBreaks(s) PROVE Carried'
  <2>1. PICK n \in 0..Len(link[s]) : link' = [link EXCEPT ![s] = SubSeq(@, 1, n)]
    BY <1>3 DEF LinkBreaks
  <2>2. SubSeq(link[s], 1, n) \in Seq(Pushed(s))
    <3>1. link[s] \in Seq(Pushed(s)) /\ Len(link[s]) \in Nat
      BY LenProperties DEF Carried
    <3>2. \A i \in 1..n : link[s][i] \in Pushed(s)
      BY <2>1, <3>1, ElementOfSeq
    <3>3. 1 \in Int /\ n \in Int
      BY <2>1, <3>1
    <3>4. QED
      BY <3>2, <3>3, SubSeqProperties
  <2>3. link' = [link EXCEPT ![s] = SubSeq(link[s], 1, n)]
    BY <2>1
  <2>4. /\ link' \in [Services -> Seq(UNION {Pushed(t) : t \in Services})]
        /\ \A t \in Services : link'[t] \in Seq(Pushed(t))
    BY <2>2, <2>3, LinkStep
  <2>5. QED
    BY <1>3, <2>4 DEF LinkBreaks, Carried, Types, loops, boxes
<1>4. ASSUME NEW s \in Services, ReadLoop(s) PROVE Carried'
  BY <1>4, LoopCarried, ChannelsCarried DEF ReadLoop
<1>5. ASSUME NEW c \in Channels, Leave(c) \/ Outbox(c) PROVE Carried'
  BY <1>5, BoxesCarried DEF Outbox
<1>6. CASE UNCHANGED vars
  BY <1>6 DEF vars, Carried, Types, wire, loops, boxes
<1>7. QED
  BY <1>1, <1>2, <1>3, <1>4, <1>5, <1>6 DEF Next

\* Carried holds in every reachable state of Routing.
THEOREM CarriedInvariance == Spec => []Carried
BY CarriedInit, CarriedNext, PTL DEF Spec

\* What the read loops push is what a channel may be given.
LEMMA GivenPayloads == Given \subseteq Payloads
<1> SUFFICES ASSUME NEW s \in Services, NEW p \in Pushed(s)
             PROVE  Stripped(p) \in Payloads
  BY DEF Given
<1>1. PICK n \in 1..MaxPushes[s], to \in Lists, user \in UserMetas \cup {<< >>} :
        p = [from |-> s, id |-> n, to |-> to, user |-> user, meta |-> p.meta]
  BY DEF Pushed, Lists
<1>2. Stripped(p) = [from |-> s, id |-> n, to |-> to, user |-> user, meta |-> user]
  <2>1. Stripped(p) = [p EXCEPT !.meta = p.user]
    BY PacketRead
  <2>2. QED
    BY <1>1, <2>1
<1>3. n \in UNION {1..MaxPushes[t] : t \in Services}
  OBVIOUS
<1>4. QED
  BY <1>2, <1>3 DEF Payloads, Lists

\* What a client is sent has lost both routing keys and kept its own meta, for
\* metas of any length (container.go:177-179, wire/pkt/packet.go:70-80).
THEOREM CleanSafe == Spec => []CleanPayload
<1>1. Carried => CleanPayload
  <2> SUFFICES ASSUME Carried, NEW c \in Channels, NEW p \in ToSet(Held(c))
               PROVE  p.meta = p.user
    BY DEF CleanPayload
  <2>1. p \in Payloads
    BY HeldFacts, GivenPayloads DEF Carried
  <2>2. QED
    BY <2>1 DEF Payloads
<1>2. QED
  BY <1>1, CarriedInvariance, PTL

\* The read loops use each channel as the bounded outbox that Channel
\* implements (container.go:165-188, channel.go:42-66, 111-117).
THEOREM OutboxesSafe == Spec => UsesOutboxes
<1>1. Init => \A c \in Channels : Box(c)!Init
  BY DEF Init, Box!Init
<1>2. Carried /\ [Next]_vars => [\A c \in Channels : Box(c)!Next \/ UNCHANGED Box(c)!vars]_boxes
  <2> SUFFICES ASSUME Carried, Next, NEW c \in Channels
               PROVE  Box(c)!Next \/ UNCHANGED Box(c)!vars
    BY DEF vars, boxes
  <2> USE DEF Box!vars
  <2>0. queue \in [Channels -> Seq(Given)] /\ sent \in [Channels -> Seq(Given)]
        /\ broken \in [Channels -> BOOLEAN]
    BY DEF Carried, Types
  <2>1. CASE UNCHANGED boxes
    BY <2>1 DEF boxes
  <2>2. ASSUME NEW s \in Services, PushChannel(s)
        PROVE  Box(c)!Next \/ UNCHANGED Box(c)!vars
    <3>1. PICK d, new : d = Head(rest[s]) /\ new = payload[s]
      OBVIOUS
    <3>2. /\ pc[s] = "push" /\ Len(queue[d]) < Bound
          /\ queue' = [queue EXCEPT ![d] = Append(queue[d], new)]
          /\ UNCHANGED <<sent, broken>>
      BY <2>2, <3>1 DEF PushChannel
    <3>3. new \in Payloads
      BY <3>1, <3>2, GivenPayloads DEF Carried
    <3>4. CASE c = d
      <4>1. Box(c)!Accept(new)
        BY <2>0, <3>2, <3>4 DEF Box!Accept
      <4>2. QED
        BY <3>3, <4>1 DEF Box!Next
    <3>5. CASE c # d
      BY <2>0, <3>2, <3>5
    <3>6. QED
      BY <3>4, <3>5
  <2>3. ASSUME NEW d \in Channels, Deliver(d)
        PROVE  Box(c)!Next \/ UNCHANGED Box(c)!vars
    <3>1. CASE c = d
      <4>1. Box(c)!Deliver
        BY <2>0, <2>3, <3>1 DEF Deliver, Box!Deliver
      <4>2. QED
        BY <4>1 DEF Box!Next
    <3>2. CASE c # d
      BY <2>0, <2>3, <3>2 DEF Deliver
    <3>3. QED
      BY <3>1, <3>2
  <2>4. ASSUME NEW d \in Channels, Break(d)
        PROVE  Box(c)!Next \/ UNCHANGED Box(c)!vars
    <3>1. CASE c = d
      <4>1. Box(c)!Break
        BY <2>0, <2>4, <3>1 DEF Break, Box!Break
      <4>2. QED
        BY <4>1 DEF Box!Next
    <3>2. CASE c # d
      BY <2>0, <2>4, <3>2 DEF Break
    <3>3. QED
      BY <3>1, <3>2
  <2>5. QED
    BY <2>1, <2>2, <2>3, <2>4 DEF Next, DispatcherPush, RespErr, Push, ReadLoop, ReadPacket,
         FindChannel, LinkBreaks, Leave, Outbox
<1>3. QED
  BY <1>1, <1>2, CarriedInvariance, PTL DEF Spec, UsesOutboxes

-----------------------------------------------------------------------------
(* No packet gets lost on its way. *)

LEMMA SetOfAppend ==
    ASSUME NEW S, NEW list \in Seq(S), NEW e
    PROVE  \A x : x \in ToSet(Append(list, e)) <=> x \in ToSet(list) \/ x = e
<1>1. list \in Seq(S \cup {e})
  <2>1. Len(list) \in Nat /\ \A i \in 1..Len(list) : list[i] \in S \cup {e}
    BY LenProperties, ElementOfSeq
  <2>2. list = [i \in 1..Len(list) |-> list[i]]
    BY LenProperties
  <2>3. QED
    BY <2>1, <2>2
<1>2. /\ Append(list, e) \in Seq(S \cup {e}) /\ Len(list) \in Nat
      /\ Len(Append(list, e)) = Len(list) + 1
      /\ \A i \in 1..(Len(list) + 1) :
           Append(list, e)[i] = IF i = Len(list) + 1 THEN e ELSE list[i]
  BY <1>1, AppendFacts, LenProperties
<1>3. /\ \A x : x \in ToSet(list) <=> \E i \in 1..Len(list) : x = list[i]
      /\ \A x : x \in ToSet(Append(list, e)) <=>
                \E i \in 1..(Len(list) + 1) : x = Append(list, e)[i]
  BY <1>2, LenProperties DEF ToSet
<1>4. \A i : i \in 1..(Len(list) + 1) <=> i \in 1..Len(list) \/ i = Len(list) + 1
  BY <1>2
<1>5. \A i \in 1..Len(list) : i # Len(list) + 1
  BY <1>2
<1>6. QED
  BY <1>2, <1>3, <1>4, <1>5

LEMMA SetOfTail ==
    ASSUME NEW S, NEW list \in Seq(S), list # << >>
    PROVE  \A x : x \in ToSet(list) <=> x \in ToSet(Tail(list)) \/ x = Head(list)
<1>1. /\ Len(list) \in Nat \ {0} /\ Head(list) = list[1]
      /\ Tail(list) \in Seq(S) /\ Len(Tail(list)) = Len(list) - 1
      /\ \A i \in 1..(Len(list) - 1) : Tail(list)[i] = list[i + 1]
  BY TailFacts
<1>2. /\ \A x : x \in ToSet(list) <=> \E i \in 1..Len(list) : x = list[i]
      /\ \A x : x \in ToSet(Tail(list)) <=>
                \E i \in 1..(Len(list) - 1) : x = list[i + 1]
  BY <1>1, LenProperties DEF ToSet
<1>3. ASSUME NEW i \in 1..Len(list) PROVE list[i] \in ToSet(Tail(list)) \/ list[i] = Head(list)
  <2>1. CASE i = 1
    BY <1>1, <2>1
  <2>2. CASE i # 1
    <3>1. PICK j \in 1..(Len(list) - 1) : i = j + 1
      <4>1. i - 1 \in 1..(Len(list) - 1) /\ i = (i - 1) + 1
        BY <1>1, <1>3, <2>2
      <4>2. QED
        BY <4>1
    <3>2. QED
      BY <1>2, <3>1
  <2>3. QED
    BY <2>1, <2>2
<1>4. 1 \in 1..Len(list) /\ \A i \in 1..(Len(list) - 1) : i + 1 \in 1..Len(list)
  BY <1>1
<1>5. QED
  BY <1>1, <1>2, <1>3, <1>4

LEMMA EmptySet == \A x : x \notin ToSet(<< >>)
BY DEF ToSet

\* Where a number that is due can come from.
LEMMA DueFacts ==
    ASSUME NEW s, NEW c, NEW n
    PROVE  /\ n \in Due(s, c) <=>
                 \/ \E p \in ToSet(link[s]) : c \in ToSet(p.to) /\ p.id = n
                 \/ c \in ToSet(rest[s]) /\ payload[s].id = n
                 \/ \E p \in ToSet(queue[c]) : p.from = s /\ p.id = n
           /\ n \in Due(s, c)' <=>
                 \/ \E p \in ToSet(link[s]') : c \in ToSet(p.to) /\ p.id = n
                 \/ c \in ToSet(rest[s]') /\ payload[s]'.id = n
                 \/ \E p \in ToSet(queue[c]') : p.from = s /\ p.id = n
           /\ n \in Got(s, c)' <=> \E p \in ToSet(sent[c]') : p.from = s /\ p.id = n
BY DEF Due, Got

\* The packet that the read loop takes stays due to all it addresses.
LEMMA ReadPacketKeeps ==
    ASSUME Carried, NEW t \in Services, ReadPacket(t),
           NEW s \in Services, NEW c \in Channels, NEW n \in Due(s, c)
    PROVE  n \in Due(s, c)'
<1>1. PICK p : p = Head(link[t])
  OBVIOUS
<1>2. /\ link[t] \in Seq(Pushed(t)) /\ link[t] # << >> /\ pc[t] = "read"
      /\ p \in Pushed(t) /\ rest[t] = << >> /\ p.to \in Lists
  BY <1>1, TailFacts, PacketFacts DEF ReadPacket, Carried
<1>3. /\ link' = [link EXCEPT ![t] = Tail(link[t])]
      /\ rest' = [rest EXCEPT ![t] = p.to]
      /\ payload' = [payload EXCEPT ![t] = Stripped(p)]
      /\ UNCHANGED boxes
  <2>1. /\ At(p.meta, DestServer) # {} /\ FindMeta(p.meta, DestServer) = Gateway
        /\ At(p.meta, DestChannels) # {} /\ FindMeta(p.meta, DestChannels) = p.to
    BY <1>2, PacketRead
  <2>2. QED
    BY <1>1, <2>1 DEF ReadPacket, Stripped
<1>4. CASE s = t
  <2>1. link'[s] = Tail(link[s]) /\ rest'[s] = p.to /\ payload'[s] = Stripped(p)
        /\ queue' = queue
    BY <1>3, <1>4 DEF Carried, Types, boxes
  <2>2. \A x : x \in ToSet(link[s]) <=> x \in ToSet(link'[s]) \/ x = p
    BY <1>1, <1>2, <1>4, <2>1, SetOfTail
  <2>3. Stripped(p).id = p.id
    BY <1>2, PacketFacts
  <2>4. c \notin ToSet(rest[s])
    BY <1>2, <1>4, EmptySet
  <2>5. QED
    BY <2>1, <2>2, <2>3, <2>4, DueFacts
<1>5. CASE s # t
  <2>1. link'[s] = link[s] /\ rest'[s] = rest[s] /\ payload'[s] = payload[s]
        /\ queue' = queue
    BY <1>3, <1>5 DEF Carried, Types, boxes
  <2>2. QED
    BY <2>1, DueFacts
<1>6. QED
  BY <1>4, <1>5

\* The loop goes on with the same packet for all channels but the first.
LEMMA GoOnKeeps ==
    ASSUME Carried, NEW t \in Services, pc[t] # "read", GoOn(t, Tail(rest[t])),
           UNCHANGED link,
           NEW s \in Services, NEW c \in Channels, NEW n \in Due(s, c),
           \A p \in ToSet(queue[c]) : p \in ToSet(queue[c]'),
           c = Head(rest[t]) => payload[t] \in ToSet(queue[c]')
    PROVE  n \in Due(s, c)'
<1>1. rest[t] \in Seq(Channels) /\ rest[t] # << >> /\ payload[t].from = t
  BY DEF Carried, Types
<1>2. /\ rest' = [rest EXCEPT ![t] = Tail(rest[t])]
      /\ payload' = [payload EXCEPT ![t] =
                        IF Tail(rest[t]) = << >> THEN Nothing ELSE payload[t]]
  BY DEF GoOn
<1>3. CASE s = t /\ c \in ToSet(rest[s]) /\ payload[s].id = n
  <2>1. c \in ToSet(Tail(rest[t])) \/ c = Head(rest[t])
    BY <1>1, <1>3, SetOfTail
  <2>2. CASE c = Head(rest[t])
    BY <1>1, <1>3, <2>2, DueFacts
  <2>3. CASE c \in ToSet(Tail(rest[t]))
    <3>1. Tail(rest[t]) # << >>
      BY <2>3, EmptySet
    <3>2. rest'[s] = Tail(rest[t]) /\ payload'[s] = payload[s]
      BY <1>2, <1>3, <3>1 DEF Carried, Types
    <3>3. QED
      BY <1>3, <2>3, <3>2, DueFacts
  <2>4. QED
    BY <2>1, <2>2, <2>3
<1>4. CASE ~(s = t /\ c \in ToSet(rest[s]) /\ payload[s].id = n)
  <2>1. s # t => rest'[s] = rest[s] /\ payload'[s] = payload[s]
    BY <1>2 DEF Carried, Types
  <2>2. QED
    BY <1>4, <2>1, DueFacts
<1>5. QED
  BY <1>3, <1>4

\* A new packet is due besides those that were.
LEMMA PushKeeps ==
    ASSUME Carried, NEW t \in Services, NEW meta, NEW to, NEW user,
           Push(t, meta, to, user),
           NEW s \in Services, NEW c \in Channels, NEW n \in Due(s, c)
    PROVE  n \in Due(s, c)'
<1>1. PICK new : link' = [link EXCEPT ![t] = Append(link[t], new)]
  BY DEF Push
<1>2. UNCHANGED <<payload, rest, queue>>
  BY DEF Push, loops, boxes
<1>3. link[t] \in Seq(Pushed(t)) /\ link \in [Services -> Seq(UNION {Pushed(r) : r \in Services})]
  BY DEF Carried, Types
<1>4. \A p \in ToSet(link[s]) : p \in ToSet(link'[s])
  <2>1. CASE s = t
    BY <1>1, <1>3, <2>1, SetOfAppend
  <2>2. CASE s # t
    BY <1>1, <1>3, <2>2
  <2>3. QED
    BY <2>1, <2>2
<1>5. QED
  BY <1>2, <1>4, DueFacts

\* A packet is due to the channel until the channel has written it.
LEMMA DeliverKeeps ==
    ASSUME Carried, NEW d \in Channels, Deliver(d),
           NEW s \in Services, NEW c \in Channels, NEW n \in Due(s, c)
    PROVE  n \in Due(s, c)' \/ n \in Got(s, c)'
<1>1. PICK p : p = Head(queue[d])
  OBVIOUS
<1>2. /\ queue[d] # << >> /\ queue' = [queue EXCEPT ![d] = Tail(queue[d])]
      /\ sent' = [sent EXCEPT ![d] = Append(sent[d], p)]
      /\ UNCHANGED <<link, payload, rest>>
  BY <1>1 DEF Deliver, wire, loops
<1>3. queue \in [Channels -> Seq(Given)] /\ sent \in [Channels -> Seq(Given)]
  BY DEF Carried, Types
<1>4. CASE c = d
  <2>1. queue'[c] = Tail(queue[c]) /\ sent'[c] = Append(sent[c], p)
    BY <1>2, <1>3, <1>4
  <2>2. \A q \in ToSet(queue[c]) : q \in ToSet(queue'[c]) \/ q \in ToSet(sent'[c])
    BY <1>1, <1>2, <1>3, <1>4, <2>1, SetOfTail, SetOfAppend
  <2>3. QED
    BY <1>2, <2>2, DueFacts
<1>5. CASE c # d
  <2>1. queue'[c] = queue[c]
    BY <1>2, <1>3, <1>5
  <2>2. QED
    BY <1>2, <2>1, DueFacts
<1>6. QED
  BY <1>4, <1>5

\* A channel that is not registered is no loss; the others get the packet.
LEMMA FindChannelKeeps ==
    ASSUME Carried, NEW t \in Services, FindChannel(t),
           NEW s \in Services, NEW c \in Channels, c \in registered, NEW n \in Due(s, c)
    PROVE  n \in Due(s, c)'
<1>1. pc[t] = "find" /\ UNCHANGED <<link, queue>>
  BY DEF FindChannel, wire, boxes
<1>2. CASE UNCHANGED <<payload, rest>>
  BY <1>1, <1>2, DueFacts
<1>3. CASE Head(rest[t]) \notin registered /\ GoOn(t, Tail(rest[t]))
  BY <1>1, <1>3, GoOnKeeps
<1>4. QED
  BY <1>2, <1>3 DEF FindChannel

LEMMA PushChannelKeeps ==
    ASSUME Carried, NEW t \in Services, PushChannel(t),
           NEW s \in Services, NEW c \in Channels, NEW n \in Due(s, c)
    PROVE  n \in Due(s, c)'
<1>1. PICK d, new : d = Head(rest[t]) /\ new = payload[t]
  OBVIOUS
<1>2. /\ pc[t] = "push" /\ queue' = [queue EXCEPT ![d] = Append(queue[d], new)]
      /\ GoOn(t, Tail(rest[t])) /\ UNCHANGED link
  BY <1>1 DEF PushChannel, wire
<1>3. queue \in [Channels -> Seq(Given)]
  BY DEF Carried, Types
<1>4. CASE c = d
  <2>1. queue'[c] = Append(queue[c], new)
    BY <1>2, <1>3, <1>4
  <2>2. \A q : q \in ToSet(queue'[c]) <=> q \in ToSet(queue[c]) \/ q = new
    BY <1>3, <2>1, SetOfAppend
  <2>3. QED
    BY <1>1, <1>2, <2>2, GoOnKeeps
<1>5. CASE c # d
  <2>1. queue'[c] = queue[c]
    BY <1>2, <1>3, <1>5
  <2>2. QED
    BY <1>1, <1>2, <1>5, <2>1, GoOnKeeps
<1>6. QED
  BY <1>4, <1>5

\* No packet that is due to a registered channel gets lost, whatever becomes of
\* the other channels it addresses, as long as the connection holds
\* (container.go:182-187, 298-315).
THEOREM LossSafe == Spec => NothingLost
<1>1. Carried /\ [Next]_vars =>
        [\A s \in Services, c \in registered' :
           up = up' => Due(s, c) \subseteq (Due(s, c) \cup Got(s, c))']_vars
  <2> SUFFICES ASSUME Carried, Next,
                      NEW s \in Services, NEW c \in registered', up = up',
                      NEW n \in Due(s, c)
               PROVE  n \in Due(s, c)' \/ n \in Got(s, c)'
    OBVIOUS
  <2>1. c \in Channels
    BY CarriedNext DEF Carried
  <2>2. ASSUME NEW t \in Services, DispatcherPush(t) \/ RespErr(t) PROVE n \in Due(s, c)'
    BY <2>1, <2>2, PushKeeps DEF DispatcherPush, RespErr
  <2>3. ASSUME NEW t \in Services, ReadPacket(t) PROVE n \in Due(s, c)'
    BY <2>1, <2>3, ReadPacketKeeps
  <2>4. ASSUME NEW t \in Services, FindChannel(t) PROVE n \in Due(s, c)'
    BY <2>1, <2>4, FindChannelKeeps DEF FindChannel
  <2>5. ASSUME NEW t \in Services, PushChannel(t) PROVE n \in Due(s, c)'
    BY <2>1, <2>5, PushChannelKeeps
  <2>6. ASSUME NEW t \in Services PROVE ~LinkBreaks(t)
    BY DEF LinkBreaks
  <2>7. ASSUME NEW d \in Channels, Leave(d) \/ Break(d) PROVE n \in Due(s, c)'
    BY <2>7, DueFacts DEF Leave, Break, wire, loops, boxes
  <2>8. ASSUME NEW d \in Channels, Deliver(d) PROVE n \in Due(s, c)' \/ n \in Got(s, c)'
    BY <2>1, <2>8, DeliverKeeps
  <2>9. QED
    BY <2>2, <2>3, <2>4, <2>5, <2>6, <2>7, <2>8 DEF Next, ReadLoop, Outbox
<1>2. QED
  BY <1>1, CarriedInvariance, PTL DEF Spec, NothingLost

=============================================================================
