----------------------------- MODULE Views_proofs -----------------------------
(* What a page shows of its server, for any channels, clients and changes and *)
(* any number of messages in flight: who is there (ClientView) and in which   *)
(* order its channels stand (ChannelOrder).  Both follow a feed of patches;   *)
(* Leads says that what is in flight brings the page from what it shows to    *)
(* what the hub has, and each model adds what keeps its patches faithful.     *)
EXTENDS ChannelOrder, ClientView, FiniteSetTheorems, FunctionTheorems,
        WellFoundedInduction, TLAPS

-----------------------------------------------------------------------------
(* What a reader makes of messages: H says what it holds after one.        *)

\* Reading s leads from a to b.
Leads(H, s, a, b) ==
  \E f : /\ f[0] = a /\ f[Len(s)] = b
         /\ \A i \in 1..Len(s) : f[i] = H[f[i - 1]][s[i]]

LEMMA LeadsNowhere == ASSUME NEW H, NEW a, NEW b
                      PROVE  Leads(H, <<>>, a, b) <=> a = b
  <1>1. ASSUME a = b
        PROVE  Leads(H, <<>>, a, b)
    <2> DEFINE f == [i \in {0} |-> a]
    <2>1. f[0] = a /\ f[Len(<<>>)] = b /\ \A i \in 1..Len(<<>>) : f[i] = H[f[i - 1]][<<>>[i]]
      BY <1>1
    <2> HIDE DEF f
    <2> QED
      BY <2>1 DEF Leads
  <1>2. ASSUME Leads(H, <<>>, a, b)
        PROVE  a = b
    BY <1>2 DEF Leads
  <1> QED
    BY <1>1, <1>2

LEMMA LeadsOne == ASSUME NEW H, NEW a, NEW m
                  PROVE  Leads(H, <<m>>, a, H[a][m])
  <1> DEFINE f == [i \in 0..1 |-> IF i = 0 THEN a ELSE H[a][m]]
  <1>1. f[0] = a /\ f[1] = H[a][m] /\ Len(<<m>>) = 1 /\ <<m>>[1] = m
    OBVIOUS
  <1> HIDE DEF f
  <1>2. \A i \in 1..1 : f[i] = H[f[i - 1]][<<m>>[i]]
    BY <1>1
  <1> QED
    BY <1>1, <1>2 DEF Leads

LEMMA LeadsOn ==
  ASSUME NEW H, NEW M, NEW s \in Seq(M), NEW N, NEW t \in Seq(N),
         NEW a, NEW b, NEW c, Leads(H, s, a, b), Leads(H, t, b, c)
  PROVE  Leads(H, s \o t, a, c)
  <1>1. PICK f : /\ f[0] = a /\ f[Len(s)] = b
                 /\ \A i \in 1..Len(s) : f[i] = H[f[i - 1]][s[i]]
    BY DEF Leads
  <1>2. PICK g : /\ g[0] = b /\ g[Len(t)] = c
                 /\ \A i \in 1..Len(t) : g[i] = H[g[i - 1]][t[i]]
    BY DEF Leads
  <1> DEFINE h == [i \in 0..(Len(s) + Len(t)) |-> IF i <= Len(s) THEN f[i] ELSE g[i - Len(s)]]
  <1>3. /\ Len(s) \in Nat /\ Len(t) \in Nat /\ Len(s \o t) = Len(s) + Len(t)
        /\ \A i \in 1..Len(s) : (s \o t)[i] = s[i]
        /\ \A i \in 1..Len(t) : (s \o t)[Len(s) + i] = t[i]
    <2>1. s \in Seq(M \cup N) /\ t \in Seq(M \cup N)
      OBVIOUS
    <2>2. Len(s) \in Nat /\ Len(t) \in Nat /\ Len(s \o t) = Len(s) + Len(t)
      BY <2>1
    <2>3. \A i \in 1..Len(s) : (s \o t)[i] = s[i]
      BY <2>1
    <2>4. ASSUME NEW i \in 1..Len(t)
          PROVE  (s \o t)[Len(s) + i] = t[i]
      <3>1. Len(s) + i \in 1..(Len(s) + Len(t)) /\ ~(Len(s) + i <= Len(s)) /\ Len(s) + i - Len(s) = i
        BY <2>2
      <3> QED
        BY <2>1, <3>1
    <2> QED
      BY <2>2, <2>3, <2>4
  <1>4. \A i \in 0..Len(s) : h[i] = f[i]
    BY <1>3
  <1>5. \A i \in 0..Len(t) : h[Len(s) + i] = g[i]
    <2>1. ASSUME NEW i \in 0..Len(t), i = 0
          PROVE  h[Len(s) + i] = g[i]
      BY <1>1, <1>2, <1>3, <2>1
    <2>2. ASSUME NEW i \in 0..Len(t), i # 0
          PROVE  h[Len(s) + i] = g[i]
      <3>1. Len(s) + i \in 0..(Len(s) + Len(t)) /\ ~(Len(s) + i <= Len(s)) /\ Len(s) + i - Len(s) = i
        BY <1>3, <2>2
      <3> QED
        BY <3>1
    <2> QED
      BY <2>1, <2>2
  <1> HIDE DEF h
  <1>6. ASSUME NEW i \in 1..Len(s \o t)
        PROVE  h[i] = H[h[i - 1]][(s \o t)[i]]
    <2>1. CASE i <= Len(s)
      <3>1. i \in 1..Len(s) /\ i \in 0..Len(s) /\ i - 1 \in 0..Len(s)
        BY <1>3, <2>1
      <3> QED
        BY <1>1, <1>3, <1>4, <3>1
    <2>2. CASE ~(i <= Len(s))
      <3> DEFINE j == i - Len(s)
      <3>1. /\ j \in 1..Len(t) /\ j \in 0..Len(t) /\ j - 1 \in 0..Len(t)
            /\ i = Len(s) + j /\ i - 1 = Len(s) + (j - 1)
        BY <1>3, <2>2
      <3>2. h[i] = g[j] /\ h[i - 1] = g[j - 1] /\ (s \o t)[i] = t[j]
        BY <1>3, <1>5, <3>1
      <3> QED
        BY <1>2, <3>1, <3>2
    <2> QED
      BY <2>1, <2>2
  <1>7. h[0] = a /\ h[Len(s \o t)] = c
    <2>1. 0 \in 0..Len(s) /\ Len(t) \in 0..Len(t)
      BY <1>3
    <2> QED
      BY <1>1, <1>2, <1>3, <1>4, <1>5, <2>1
  <1> QED
    BY <1>6, <1>7 DEF Leads

LEMMA LeadsTail ==
  ASSUME NEW H, NEW M, NEW s \in Seq(M), s # <<>>, NEW a, NEW b, Leads(H, s, a, b)
  PROVE  Leads(H, Tail(s), H[a][Head(s)], b)
  <1>1. PICK f : /\ f[0] = a /\ f[Len(s)] = b
                 /\ \A i \in 1..Len(s) : f[i] = H[f[i - 1]][s[i]]
    BY DEF Leads
  <1> DEFINE g == [i \in 0..Len(Tail(s)) |-> f[i + 1]]
  <1>2. /\ Len(s) \in Nat /\ Len(Tail(s)) = Len(s) - 1 /\ Len(s) >= 1 /\ Head(s) = s[1]
        /\ \A i \in 1..Len(Tail(s)) : Tail(s)[i] = s[i + 1]
    OBVIOUS
  <1>3. g[0] = H[a][Head(s)]
    BY <1>1, <1>2
  <1>4. g[Len(Tail(s))] = b
    BY <1>1, <1>2
  <1>5. ASSUME NEW i \in 1..Len(Tail(s))
        PROVE  g[i] = H[g[i - 1]][Tail(s)[i]]
    <2>1. i + 1 \in 1..Len(s) /\ i + 1 - 1 = i /\ i \in 0..Len(Tail(s)) /\ i - 1 \in 0..Len(Tail(s))
      BY <1>2
    <2>2. g[i] = f[i + 1] /\ g[i - 1] = f[i]
      BY <2>1
    <2> QED
      BY <1>1, <1>2, <2>1, <2>2
  <1> HIDE DEF g
  <1> QED
    BY <1>3, <1>4, <1>5 DEF Leads

\* Messages that leave the reader alone.
LEMMA LeadsBack ==
  ASSUME NEW H, NEW M, NEW s \in Seq(M), NEW a,
         \A i \in 1..Len(s) : H[a][s[i]] = a
  PROVE  Leads(H, s, a, a)
  <1> DEFINE f == [i \in 0..Len(s) |-> a]
  <1>1. f[0] = a /\ f[Len(s)] = a /\ \A i \in 1..Len(s) : f[i] = a /\ f[i - 1] = a
    OBVIOUS
  <1> HIDE DEF f
  <1> QED
    BY <1>1 DEF Leads

\* The members of a finite set one after the other, each once.
LEMMA InOrder ==
  ASSUME NEW S, IsFiniteSet(S)
  PROVE  /\ SetToSeq(S) \in Seq(S) /\ Len(SetToSeq(S)) = Cardinality(S)
         /\ Cardinality(S) \in Nat
         /\ \A i, j \in 1..Len(SetToSeq(S)) : SetToSeq(S)[i] = SetToSeq(S)[j] => i = j
         /\ \A x \in S : \E i \in 1..Len(SetToSeq(S)) : SetToSeq(S)[i] = x
  <1> DEFINE n == Cardinality(S)
             q == SetToSeq(S)
  <1>1. n \in Nat /\ ExistsBijection(1..n, S)
    BY FS_CardinalityType
  <1>2. PICK f \in Bijection(1..n, S) : TRUE
    BY <1>1 DEF ExistsBijection
  <1>3. f \in [1..n -> S] /\ IsInjective(f)
    BY <1>2 DEF Bijection, Injection
  <1>4. q \in [1..n -> S] /\ IsInjective(q)
    BY <1>3 DEF SetToSeq
  <1> HIDE DEF q
  <1>5. q \in Seq(S) /\ Len(q) = n
    BY <1>1, <1>4
  <1> DEFINE T == {q[i] : i \in 1..n}
  <1>6. q \in Bijection(1..n, T)
    <2>1. q \in [1..n -> T] /\ (\A a, b \in 1..n : q[a] = q[b] => a = b)
          /\ \A t \in T : \E i \in 1..n : q[i] = t
      BY <1>4 DEF IsInjective
    <2> QED
      BY <2>1, Fun_IsBij
  <1>7. T \in SUBSET S
    BY <1>4
  <1>8. T = S
    <2>1. ExistsBijection(1..n, T)
      BY <1>6 DEF ExistsBijection
    <2>2. Cardinality(T) = n
      BY <1>1, <2>1, FS_CountingElements
    <2> QED
      BY <1>7, <2>2, FS_Subset
  <1>9. \A x \in S : \E i \in 1..n : q[i] = x
    BY <1>8
  <1>10. \A i, j \in 1..n : q[i] = q[j] => i = j
    BY <1>4 DEF IsInjective
  <1> QED
    BY <1>1, <1>5, <1>9, <1>10 DEF q

Put(g, d, v) == [g EXCEPT ![d] = v]

\* q has each member of K once.
Once(q, K) ==
  /\ q \in Seq(K)
  /\ \A i, j \in 1..Len(q) : q[i] = q[j] => i = j
  /\ \A d \in K : \E i \in 1..Len(q) : q[i] = d

LEMMA OnceEach == ASSUME NEW S, IsFiniteSet(S)
                  PROVE  Once(SetToSeq(S), S)
  BY InOrder DEF Once

\* The i-th message of s brings what the reader has of q[i] from a's to b's; where a
\* and b differ some message does.
SetsEach(H, S, V, s, q, a, b) ==
  /\ Len(s) = Len(q)
  /\ \A i \in 1..Len(q) : \A g \in [S -> V] :
       g[q[i]] = a[q[i]] => H[g][s[i]] = Put(g, q[i], b[q[i]])

Differ(S, a, b) == {d \in S : a[d] # b[d]}

\* Messages that set, for each member of a finite set, what the reader has of it.
LEMMA LeadsEach ==
  ASSUME NEW H, NEW S, NEW V, NEW a \in [S -> V], NEW b \in [S -> V],
         NEW K, K \subseteq S, Differ(S, a, b) \subseteq K,
         NEW q, Once(q, K), NEW s, SetsEach(H, S, V, s, q, a, b)
  PROVE  Leads(H, s, a, b)
  <1> DEFINE n == Len(q)
             Done(i) == {d \in S : \E j \in 1..i : q[j] = d}
             f == [i \in 0..n |-> [d \in S |-> IF d \in Done(i) THEN b[d] ELSE a[d]]]
  <1>1. /\ q \in Seq(K) /\ n \in Nat
        /\ \A i, j \in 1..n : q[i] = q[j] => i = j
        /\ \A d \in K : \E i \in 1..n : q[i] = d
    <2>1. q \in Seq(K)
      BY DEF Once
    <2>2. n \in Nat
      BY <2>1
    <2> HIDE DEF n
    <2> QED
      BY <2>1, <2>2 DEF Once, n
  <1>2. /\ Len(s) = n /\ \A d \in S \ K : a[d] = b[d]
        /\ \A i \in 1..n : \A g \in [S -> V] :
             g[q[i]] = a[q[i]] => H[g][s[i]] = Put(g, q[i], b[q[i]])
    BY DEF SetsEach, Differ
  <1>3. \A i \in 1..n : q[i] \in K /\ q[i] \in S
    BY <1>1
  <1>4. f[0] = a
    BY <1>1
  <1>5. f[n] = b
    <2>1. \A d \in S : d \in Done(n) <=> d \in K
      BY <1>1, <1>3
    <2>2. f[n] = [d \in S |-> IF d \in Done(n) THEN b[d] ELSE a[d]]
      BY <1>1
    <2> HIDE DEF Done, f
    <2>3. [d \in S |-> IF d \in Done(n) THEN b[d] ELSE a[d]] = b
      BY <1>2, <2>1
    <2> QED
      BY <2>2, <2>3
  <1>6. ASSUME NEW i \in 1..n
        PROVE  f[i] = H[f[i - 1]][s[i]]
    <2>1. /\ i \in 0..n /\ i - 1 \in 0..n
      BY <1>1
    <2>2. /\ f[i] = [d \in S |-> IF d \in Done(i) THEN b[d] ELSE a[d]]
          /\ f[i - 1] = [d \in S |-> IF d \in Done(i - 1) THEN b[d] ELSE a[d]]
      BY <2>1
    <2>3. q[i] \notin Done(i - 1)
      BY <1>1, SMTT(30)
    <2>4. \A d \in S : d \in Done(i) <=> d \in Done(i - 1) \/ d = q[i]
      BY <1>1, SMTT(30)
    <2> HIDE DEF f, Done
    <2>5. f[i - 1] \in [S -> V] /\ f[i - 1][q[i]] = a[q[i]]
      BY <1>3, <2>2, <2>3
    <2>6. H[f[i - 1]][s[i]] = [f[i - 1] EXCEPT ![q[i]] = b[q[i]]]
      BY <1>2, <2>5 DEF Put
    <2>7. f[i] = [f[i - 1] EXCEPT ![q[i]] = b[q[i]]]
      BY <1>3, <2>2, <2>4
    <2> QED
      BY <2>6, <2>7
  <1> HIDE DEF f
  <1> QED
    BY <1>1, <1>2, <1>4, <1>5, <1>6 DEF Leads

-----------------------------------------------------------------------------
(* The clients in view.                                                    *)

Sights == [Mate -> Chan \cup {Unseen}]

ViewMsgs ==
  [kind : {"client"}, who : Mate, at : Chan \cup {Unseen}]
    \cup [kind : {"channel"}, at : Chan, on : BOOLEAN]
    \cup [kind : {"snapshot"}, clients : Sights, flags : SUBSET Chan]

\* What the page makes of a message about clients, and about the flags.
SeesClients ==
  [g \in Sights |-> [x \in ViewMsgs |->
     IF x.kind = "snapshot" THEN x.clients
     ELSE IF x.kind = "client" THEN [g EXCEPT ![x.who] = x.at] ELSE g]]

SeesFlags ==
  [F \in SUBSET Chan |-> [x \in ViewMsgs |->
     IF x.kind = "snapshot" THEN x.flags
     ELSE IF x.kind = "client" THEN F
     ELSE IF x.on THEN F \cup {x.at} ELSE F \ {x.at}]]

ViewTypes ==
  /\ where \in Sights /\ clients \in Sights /\ pageClients \in Sights
  /\ mine \in Chan /\ reports \in SUBSET Chan
  /\ subscribed \in SUBSET Chan /\ pageFlags \in SUBSET Chan
  /\ viewSent \in BOOLEAN /\ viewChanges \in Nat
  /\ viewFeed \in Seq(ViewMsgs)

\* The hub has what is reported, and its messages lead the page there.
ViewInv ==
  /\ ViewTypes
  /\ clients = Seen(where, reports)
  /\ mine \in reports /\ subscribed \subseteq reports
  /\ ~viewSent => viewFeed = <<>>
  /\ viewSent => /\ Leads(SeesClients, viewFeed, pageClients, clients)
                 /\ Leads(SeesFlags, viewFeed, pageFlags, subscribed)

LEMMA SightsOf ==
  /\ \A m \in Mate, c \in Chan \cup {Unseen} :
       ClientMsg(m, c) \in ViewMsgs /\ ClientMsg(m, c).kind = "client"
       /\ ClientMsg(m, c).who = m /\ ClientMsg(m, c).at = c
  /\ \A c \in Chan, on \in BOOLEAN :
       ChannelMsg(c, on) \in ViewMsgs /\ ChannelMsg(c, on).kind = "channel"
       /\ ChannelMsg(c, on).at = c /\ ChannelMsg(c, on).on = on
  BY DEF ViewMsgs, ClientMsg, ChannelMsg

\* What one message does.
LEMMA OfClient ==
  ASSUME NEW x \in ViewMsgs, x.kind = "client"
  PROVE  /\ \A g \in Sights : SeesClients[g][x] = Put(g, x.who, x.at)
         /\ \A F \in SUBSET Chan : SeesFlags[F][x] = F
  <1>1. x.kind # "snapshot"
    OBVIOUS
  <1>2. \A g \in Sights : SeesClients[g][x] = [g EXCEPT ![x.who] = x.at]
    BY <1>1 DEF SeesClients
  <1>3. \A F \in SUBSET Chan : SeesFlags[F][x] = F
    BY <1>1 DEF SeesFlags
  <1> QED
    BY <1>2, <1>3 DEF Put

LEMMA OfChannel ==
  ASSUME NEW x \in ViewMsgs, x.kind = "channel"
  PROVE  /\ \A g \in Sights : SeesClients[g][x] = g
         /\ \A F \in SUBSET Chan :
              SeesFlags[F][x] = IF x.on THEN F \cup {x.at} ELSE F \ {x.at}
  <1>1. x.kind # "snapshot" /\ x.kind # "client"
    OBVIOUS
  <1>2. \A g \in Sights : SeesClients[g][x] = g
    BY <1>1 DEF SeesClients
  <1>3. \A F \in SUBSET Chan : SeesFlags[F][x] = IF x.on THEN F \cup {x.at} ELSE F \ {x.at}
    BY <1>1 DEF SeesFlags
  <1> QED
    BY <1>2, <1>3

LEMMA OfSnapshot ==
  ASSUME NEW x \in ViewMsgs, x.kind = "snapshot"
  PROVE  /\ \A g \in Sights : SeesClients[g][x] = x.clients
         /\ \A F \in SUBSET Chan : SeesFlags[F][x] = x.flags
  <1>1. \A g \in Sights : SeesClients[g][x] = x.clients
    BY DEF SeesClients
  <1>2. \A F \in SUBSET Chan : SeesFlags[F][x] = x.flags
    BY DEF SeesFlags
  <1> QED
    BY <1>1, <1>2

LEMMA SeesClientMsg ==
  ASSUME NEW m \in Mate, NEW c \in Chan \cup {Unseen}
  PROVE  /\ \A g \in Sights : SeesClients[g][ClientMsg(m, c)] = Put(g, m, c)
         /\ \A F \in SUBSET Chan : SeesFlags[F][ClientMsg(m, c)] = F
  <1> DEFINE x == ClientMsg(m, c)
  <1>1. x \in ViewMsgs /\ x.kind = "client" /\ x.who = m /\ x.at = c
    BY SightsOf
  <1> HIDE DEF x
  <1>2. \A g \in Sights : SeesClients[g][x] = Put(g, x.who, x.at)
    BY <1>1, OfClient
  <1>3. \A F \in SUBSET Chan : SeesFlags[F][x] = F
    BY <1>1, OfClient
  <1>4. \A g \in Sights : SeesClients[g][x] = Put(g, m, c)
    BY <1>1, <1>2
  <1> QED
    BY <1>3, <1>4 DEF x

LEMMA SeesChannelMsg ==
  ASSUME NEW c \in Chan, NEW on \in BOOLEAN
  PROVE  /\ \A g \in Sights : SeesClients[g][ChannelMsg(c, on)] = g
         /\ \A F \in SUBSET Chan :
              SeesFlags[F][ChannelMsg(c, on)] = IF on THEN F \cup {c} ELSE F \ {c}
  <1> DEFINE x == ChannelMsg(c, on)
  <1>1. x \in ViewMsgs /\ x.kind = "channel" /\ x.at = c /\ x.on = on
    BY SightsOf
  <1> HIDE DEF x
  <1>2. \A g \in Sights : SeesClients[g][x] = g
    BY <1>1, OfChannel
  <1>3. \A F \in SUBSET Chan : SeesFlags[F][x] = IF x.on THEN F \cup {x.at} ELSE F \ {x.at}
    BY <1>1, OfChannel
  <1>4. \A F \in SUBSET Chan : SeesFlags[F][x] = IF on THEN F \cup {c} ELSE F \ {c}
    BY <1>1, <1>3
  <1> QED
    BY <1>2, <1>4 DEF x

\* The messages of a change lead to what changed, and leave the flags alone.
LEMMA ClientMessagesLead ==
  ASSUME clients \in Sights, NEW new \in Sights
  PROVE  /\ ClientMessages(new) \in Seq(ViewMsgs)
         /\ Leads(SeesClients, ClientMessages(new), clients, new)
         /\ \A F \in SUBSET Chan : Leads(SeesFlags, ClientMessages(new), F, F)
  <1> DEFINE K == {m \in Mate : new[m] # clients[m]}
             q == SetToSeq(K)
             s == ClientMessages(new)
  <1>1. IsFiniteSet(K) /\ K \in SUBSET Mate
    BY ViewAssumption, FS_Subset
  <1>2. q \in Seq(K) /\ Len(q) \in Nat
    BY <1>1, InOrder
  <1>3. s = [i \in DOMAIN q |-> ClientMsg(q[i], new[q[i]])]
    BY DEF ClientMessages
  <1> HIDE DEF s, q
  <1>4. /\ DOMAIN q = 1..Len(q) /\ \A i \in 1..Len(q) : q[i] \in Mate
    BY <1>2
  <1>5. \A i \in 1..Len(q) : s[i] = ClientMsg(q[i], new[q[i]])
    BY <1>3, <1>4
  <1>6. \A i \in 1..Len(q) : s[i] \in ViewMsgs
    <2>1. \A i \in 1..Len(q) : new[q[i]] \in Chan \cup {Unseen}
      BY <1>4 DEF Sights
    <2> QED
      BY <1>4, <1>5, <2>1, SightsOf
  <1>7. s \in Seq(ViewMsgs) /\ Len(s) = Len(q)
    <2>1. s \in [1..Len(q) -> ViewMsgs]
      BY <1>3, <1>4, <1>6
    <2> QED
      BY <1>2, <2>1
  <1>8. Leads(SeesClients, s, clients, new)
    <2>1. Differ(Mate, clients, new) \subseteq K
      BY DEF Differ
    <2>2. ASSUME NEW i \in 1..Len(q), NEW g \in [Mate -> Chan \cup {Unseen}]
          PROVE  SeesClients[g][s[i]] = Put(g, q[i], new[q[i]])
      <3>1. q[i] \in Mate /\ new[q[i]] \in Chan \cup {Unseen}
        BY <1>4 DEF Sights
      <3>2. s[i] = ClientMsg(q[i], new[q[i]])
        BY <1>5
      <3>3. g \in Sights
        BY DEF Sights
      <3>4. \A m \in Mate, c \in Chan \cup {Unseen} :
              SeesClients[g][ClientMsg(m, c)] = Put(g, m, c)
        BY <3>3, SeesClientMsg
      <3> QED
        BY <3>1, <3>2, <3>4
    <2>3. Once(q, K) /\ K \subseteq Mate
      BY <1>1, OnceEach DEF q
    <2>4. clients \in [Mate -> Chan \cup {Unseen}] /\ new \in [Mate -> Chan \cup {Unseen}]
      BY DEF Sights
    <2> HIDE DEF K
    <2>5. SetsEach(SeesClients, Mate, Chan \cup {Unseen}, s, q, clients, new)
      BY <1>7, <2>2 DEF SetsEach
    <2> QED
      BY <2>1, <2>3, <2>4, <2>5, LeadsEach
  <1>9. ASSUME NEW F \in SUBSET Chan
        PROVE  Leads(SeesFlags, s, F, F)
    <2>1. \A i \in 1..Len(s) : SeesFlags[F][s[i]] = F
      <3>1. ASSUME NEW i \in 1..Len(s)
            PROVE  SeesFlags[F][s[i]] = F
        <4>1. i \in 1..Len(q) /\ q[i] \in Mate /\ new[q[i]] \in Chan \cup {Unseen}
          BY <1>4, <1>7 DEF Sights
        <4>2. \A m \in Mate, c \in Chan \cup {Unseen} : SeesFlags[F][ClientMsg(m, c)] = F
          BY SeesClientMsg
        <4> QED
          BY <1>5, <4>1, <4>2
      <3> QED
        BY <3>1
    <2> QED
      BY <1>7, <2>1, LeadsBack
  <1> QED
    BY <1>7, <1>8, <1>9 DEF s

\* An empty feed has led the page where the hub is.
LEMMA ReadAll == ASSUME ViewInv, viewSent, viewFeed = <<>>
                 PROVE  pageClients = clients /\ pageFlags = subscribed
  <1>1. Leads(SeesClients, <<>>, pageClients, clients) /\ Leads(SeesFlags, <<>>, pageFlags, subscribed)
    BY DEF ViewInv
  <1> QED
    BY <1>1, LeadsNowhere

\* What is told of a change leads the page there, or waits for the snapshot.
LEMMA TellingLeads ==
  ASSUME ViewInv, NEW s \in Seq(ViewMsgs), TellsPage(s),
         Leads(SeesClients, s, clients, clients'), Leads(SeesFlags, s, subscribed, subscribed')
  PROVE  /\ viewFeed' \in Seq(ViewMsgs)
         /\ pageClients' \in Sights /\ pageFlags' \in SUBSET Chan
         /\ viewSent' \in BOOLEAN /\ viewChanges' \in Nat
         /\ ~viewSent' => viewFeed' = <<>>
         /\ viewSent' => /\ Leads(SeesClients, viewFeed', pageClients', clients')
                         /\ Leads(SeesFlags, viewFeed', pageFlags', subscribed')
  <1>1. /\ viewFeed \in Seq(ViewMsgs) /\ pageClients \in Sights /\ pageFlags \in SUBSET Chan
        /\ viewSent \in BOOLEAN /\ viewChanges \in Nat /\ (~viewSent => viewFeed = <<>>)
    BY DEF ViewInv, ViewTypes
  <1>2. /\ viewSent' = viewSent /\ pageClients' = pageClients /\ pageFlags' = pageFlags
        /\ viewChanges' = viewChanges + 1
        /\ viewFeed' = IF viewSent THEN viewFeed \o s ELSE viewFeed
    BY DEF TellsPage
  <1>3. CASE viewSent
    <2>1. viewFeed' = viewFeed \o s
      BY <1>2, <1>3
    <2>2. /\ Leads(SeesClients, viewFeed, pageClients, clients)
          /\ Leads(SeesFlags, viewFeed, pageFlags, subscribed)
      BY <1>3 DEF ViewInv
    <2>3. Leads(SeesClients, viewFeed \o s, pageClients, clients')
      BY <1>1, <2>2, LeadsOn
    <2>4. Leads(SeesFlags, viewFeed \o s, pageFlags, subscribed')
      BY <1>1, <2>2, LeadsOn
    <2>5. viewFeed \o s \in Seq(ViewMsgs)
      BY <1>1
    <2> QED
      BY <1>1, <1>2, <1>3, <2>1, <2>3, <2>4, <2>5
  <1>4. CASE ~viewSent
    BY <1>1, <1>2, <1>4
  <1> QED
    BY <1>1, <1>3, <1>4

\* One message about a channel's flag.
LEMMA FlagMessageLeads ==
  ASSUME NEW c \in Chan, NEW on \in BOOLEAN, NEW g \in Sights, NEW F \in SUBSET Chan
  PROVE  /\ <<ChannelMsg(c, on)>> \in Seq(ViewMsgs)
         /\ Leads(SeesClients, <<ChannelMsg(c, on)>>, g, g)
         /\ Leads(SeesFlags, <<ChannelMsg(c, on)>>, F, IF on THEN F \cup {c} ELSE F \ {c})
  <1> DEFINE x == ChannelMsg(c, on)
             G == IF on THEN F \cup {c} ELSE F \ {c}
  <1>1. x \in ViewMsgs
    BY SightsOf
  <1>2. SeesClients[g][x] = g /\ SeesFlags[F][x] = G
    <2>1. \A h \in Sights : SeesClients[h][x] = h
      BY SeesChannelMsg
    <2>2. \A E \in SUBSET Chan : SeesFlags[E][x] = IF on THEN E \cup {c} ELSE E \ {c}
      BY SeesChannelMsg
    <2> HIDE DEF x
    <2> QED
      BY <2>1, <2>2
  <1> HIDE DEF x, G
  <1>3. Leads(SeesClients, <<x>>, g, SeesClients[g][x]) /\ Leads(SeesFlags, <<x>>, F, SeesFlags[F][x])
    BY LeadsOne
  <1>4. <<x>> \in Seq(ViewMsgs)
    BY <1>1
  <1> QED
    BY <1>2, <1>3, <1>4 DEF x, G

LEMMA SightsSeen ==
  ASSUME NEW w \in Sights, NEW C \in SUBSET Chan
  PROVE  Seen(w, C) \in Sights
  BY DEF Seen, Sights

LEMMA MateMovesKept ==
  ASSUME ViewInv, NEW m \in Mate, NEW c \in Chan \cup {Unseen}, MateMoves(m, c)
  PROVE  ViewInv'
  <1> DEFINE v == IF c \in reports THEN c ELSE Unseen
  <1>1. /\ where \in Sights /\ clients \in Sights /\ mine \in Chan /\ reports \in SUBSET Chan
        /\ subscribed \in SUBSET Chan /\ clients = Seen(where, reports)
        /\ mine \in reports /\ subscribed \subseteq reports
    BY DEF ViewInv, ViewTypes
  <1>2. v \in Chan \cup {Unseen}
    BY <1>1
  <1>3. /\ where' = [where EXCEPT ![m] = c] /\ clients' = [clients EXCEPT ![m] = v]
        /\ TellsPage(ClientMessages(clients'))
        /\ mine' = mine /\ reports' = reports /\ subscribed' = subscribed
    BY DEF MateMoves
  <1>4. Unseen \notin reports
    BY <1>1, ViewAssumption
  <1>5. where' \in Sights
    BY <1>1, <1>3 DEF Sights
  <1>6. clients' = Seen(where', reports')
    <2>1. \A d \in Mate : clients'[d] = IF where'[d] \in reports THEN where'[d] ELSE Unseen
      <3>1. ASSUME NEW d \in Mate, d = m
            PROVE  clients'[d] = IF where'[d] \in reports THEN where'[d] ELSE Unseen
        BY <1>1, <1>3, <3>1 DEF Sights
      <3>2. ASSUME NEW d \in Mate, d # m
            PROVE  clients'[d] = IF where'[d] \in reports THEN where'[d] ELSE Unseen
        BY <1>1, <1>3, <3>2 DEF Sights, Seen
      <3> QED
        BY <3>1, <3>2
    <2>2. clients' = [d \in Mate |-> clients'[d]]
      BY <1>1, <1>3 DEF Sights
    <2>3. [d \in Mate |-> clients'[d]] = [d \in Mate |-> IF where'[d] \in reports THEN where'[d] ELSE Unseen]
      BY <2>1
    <2> QED
      BY <1>3, <2>2, <2>3 DEF Seen
  <1>7. clients' \in Sights
    BY <1>1, <1>3, <1>5, <1>6, SightsSeen
  <1>8. /\ ClientMessages(clients') \in Seq(ViewMsgs)
        /\ Leads(SeesClients, ClientMessages(clients'), clients, clients')
        /\ Leads(SeesFlags, ClientMessages(clients'), subscribed, subscribed)
    BY <1>1, <1>7, ClientMessagesLead
  <1>9. /\ viewFeed' \in Seq(ViewMsgs)
        /\ pageClients' \in Sights /\ pageFlags' \in SUBSET Chan
        /\ viewSent' \in BOOLEAN /\ viewChanges' \in Nat
        /\ ~viewSent' => viewFeed' = <<>>
        /\ viewSent' => /\ Leads(SeesClients, viewFeed', pageClients', clients')
                        /\ Leads(SeesFlags, viewFeed', pageFlags', subscribed')
    BY <1>3, <1>8, TellingLeads
  <1> QED
    BY <1>1, <1>3, <1>5, <1>6, <1>7, <1>9 DEF ViewInv, ViewTypes

\* The two ways in which a channel comes to be reported.
LEMMA ReportedKept ==
  ASSUME ViewInv, NEW c \in Chan, NEW s, TellsPage(s \o ClientMessages(clients')),
         \/ s = <<ChannelMsg(c, TRUE)>>
         \/ s = <<>> /\ c \in subscribed,
         where' = where, mine' \in {mine, c},
         reports' = reports \cup {c}, subscribed' = subscribed \cup {c},
         clients' = [m \in Mate |-> IF where[m] = c THEN c ELSE clients[m]]
  PROVE  ViewInv'
  <1>1. /\ where \in Sights /\ clients \in Sights /\ mine \in Chan /\ reports \in SUBSET Chan
        /\ subscribed \in SUBSET Chan /\ clients = Seen(where, reports)
        /\ mine \in reports /\ subscribed \subseteq reports
    BY DEF ViewInv, ViewTypes
  <1>2. clients' = Seen(where', reports')
    <2>1. \A d \in Mate : (IF where[d] = c THEN c ELSE clients[d])
                            = IF where[d] \in reports \cup {c} THEN where[d] ELSE Unseen
      BY <1>1 DEF Seen
    <2> QED
      BY <2>1 DEF Seen
  <1>3. reports' \in SUBSET Chan /\ subscribed' \in SUBSET Chan
    BY <1>1
  <1>4. clients' \in Sights
    BY <1>1, <1>2, <1>3, SightsSeen
  <1>5. /\ ClientMessages(clients') \in Seq(ViewMsgs)
        /\ Leads(SeesClients, ClientMessages(clients'), clients, clients')
        /\ Leads(SeesFlags, ClientMessages(clients'), subscribed', subscribed')
    BY <1>1, <1>3, <1>4, ClientMessagesLead
  <1>6. /\ s \in Seq(ViewMsgs)
        /\ Leads(SeesClients, s, clients, clients)
        /\ Leads(SeesFlags, s, subscribed, subscribed')
    <2>1. CASE s = <<ChannelMsg(c, TRUE)>>
      <3>1. /\ <<ChannelMsg(c, TRUE)>> \in Seq(ViewMsgs)
            /\ Leads(SeesClients, <<ChannelMsg(c, TRUE)>>, clients, clients)
            /\ Leads(SeesFlags, <<ChannelMsg(c, TRUE)>>, subscribed,
                     IF TRUE THEN subscribed \cup {c} ELSE subscribed \ {c})
        BY <1>1, FlagMessageLeads
      <3> QED
        BY <2>1, <3>1
    <2>2. CASE s = <<>> /\ c \in subscribed
      <3>1. subscribed' = subscribed
        BY <2>2
      <3>2. Leads(SeesClients, <<>>, clients, clients) /\ Leads(SeesFlags, <<>>, subscribed, subscribed)
        BY LeadsNowhere
      <3>3. Leads(SeesFlags, <<>>, subscribed, subscribed')
        BY <3>1, <3>2
      <3>4. <<>> \in Seq(ViewMsgs)
        OBVIOUS
      <3> QED
        BY <2>2, <3>2, <3>3, <3>4
    <2> QED
      BY <2>1, <2>2
  <1>7. /\ s \o ClientMessages(clients') \in Seq(ViewMsgs)
        /\ Leads(SeesClients, s \o ClientMessages(clients'), clients, clients')
        /\ Leads(SeesFlags, s \o ClientMessages(clients'), subscribed, subscribed')
    <2>1. Leads(SeesClients, s \o ClientMessages(clients'), clients, clients')
      BY <1>5, <1>6, LeadsOn
    <2>2. Leads(SeesFlags, s \o ClientMessages(clients'), subscribed, subscribed')
      BY <1>5, <1>6, LeadsOn
    <2> QED
      BY <1>5, <1>6, <2>1, <2>2
  <1>8. /\ viewFeed' \in Seq(ViewMsgs)
        /\ pageClients' \in Sights /\ pageFlags' \in SUBSET Chan
        /\ viewSent' \in BOOLEAN /\ viewChanges' \in Nat
        /\ ~viewSent' => viewFeed' = <<>>
        /\ viewSent' => /\ Leads(SeesClients, viewFeed', pageClients', clients')
                        /\ Leads(SeesFlags, viewFeed', pageFlags', subscribed')
    BY <1>7, TellingLeads
  <1>9. mine' \in Chan /\ mine' \in reports' /\ subscribed' \subseteq reports' /\ where' \in Sights
    BY <1>1
  <1> QED
    BY <1>2, <1>3, <1>4, <1>8, <1>9 DEF ViewInv, ViewTypes

LEMMA SelfMovesKept == ASSUME ViewInv, NEW c \in Chan, SelfMoves(c)
                       PROVE  ViewInv'
  <1> DEFINE s == IF c \in subscribed THEN <<>> ELSE <<ChannelMsg(c, TRUE)>>
  <1>1. /\ mine' = c /\ reports' = reports \cup {c} /\ subscribed' = subscribed \cup {c}
        /\ clients' = [m \in Mate |-> IF where[m] = c THEN c ELSE clients[m]]
        /\ TellsPage(s \o ClientMessages(clients')) /\ where' = where
    BY DEF SelfMoves
  <1>2. s = <<ChannelMsg(c, TRUE)>> \/ (s = <<>> /\ c \in subscribed)
    OBVIOUS
  <1> HIDE DEF s
  <1> QED
    BY <1>1, <1>2, ReportedKept

LEMMA SubscribeKept == ASSUME ViewInv, NEW c \in Chan, Subscribe(c)
                       PROVE  ViewInv'
  <1> DEFINE s == <<ChannelMsg(c, TRUE)>>
  <1>1. /\ mine' = mine /\ reports' = reports \cup {c} /\ subscribed' = subscribed \cup {c}
        /\ clients' = [m \in Mate |-> IF where[m] = c THEN c ELSE clients[m]]
        /\ TellsPage(s \o ClientMessages(clients')) /\ where' = where
    BY DEF Subscribe
  <1>2. s = <<ChannelMsg(c, TRUE)>>
    OBVIOUS
  <1> HIDE DEF s
  <1> QED
    BY <1>1, <1>2, ReportedKept

LEMMA UnsubscribeKept == ASSUME ViewInv, NEW c \in Chan, Unsubscribe(c)
                         PROVE  ViewInv'
  <1> DEFINE s == <<ChannelMsg(c, FALSE)>>
  <1>1. /\ where \in Sights /\ clients \in Sights /\ mine \in Chan /\ reports \in SUBSET Chan
        /\ subscribed \in SUBSET Chan /\ clients = Seen(where, reports)
        /\ mine \in reports /\ subscribed \subseteq reports
    BY DEF ViewInv, ViewTypes
  <1>2. /\ reports' = IF c = mine THEN reports ELSE reports \ {c}
        /\ subscribed' = subscribed \ {c}
        /\ clients' = [m \in Mate |-> IF c # mine /\ clients[m] = c THEN Unseen ELSE clients[m]]
        /\ TellsPage(ClientMessages(clients') \o s)
        /\ where' = where /\ mine' = mine
    BY DEF Unsubscribe
  <1> HIDE DEF s
  <1>3. Unseen \notin Chan
    BY ViewAssumption
  <1>4. clients' = Seen(where', reports')
    <2>1. CASE c = mine
      <3>1. clients' = [m \in Mate |-> clients[m]] /\ reports' = reports
        BY <1>2, <2>1
      <3> QED
        BY <1>1, <1>2, <3>1 DEF Sights
    <2>2. CASE c # mine
      <3>1. reports' = reports \ {c}
        BY <1>2, <2>2
      <3>2. \A d \in Mate : (IF c # mine /\ clients[d] = c THEN Unseen ELSE clients[d])
                              = IF where[d] \in reports \ {c} THEN where[d] ELSE Unseen
        BY <1>1, <1>3, <2>2 DEF Seen
      <3> QED
        BY <1>2, <3>1, <3>2 DEF Seen
    <2> QED
      BY <2>1, <2>2
  <1>5. reports' \in SUBSET Chan /\ subscribed' \in SUBSET Chan
    BY <1>1, <1>2
  <1>6. clients' \in Sights
    BY <1>1, <1>2, <1>4, <1>5, SightsSeen
  <1>7. /\ ClientMessages(clients') \in Seq(ViewMsgs)
        /\ Leads(SeesClients, ClientMessages(clients'), clients, clients')
        /\ Leads(SeesFlags, ClientMessages(clients'), subscribed, subscribed)
    BY <1>1, <1>6, ClientMessagesLead
  <1>8. /\ s \in Seq(ViewMsgs)
        /\ Leads(SeesClients, s, clients', clients')
        /\ Leads(SeesFlags, s, subscribed, subscribed')
    <2>1. /\ s \in Seq(ViewMsgs)
          /\ Leads(SeesClients, s, clients', clients')
          /\ Leads(SeesFlags, s, subscribed, IF FALSE THEN subscribed \cup {c} ELSE subscribed \ {c})
      BY <1>1, <1>6, FlagMessageLeads DEF s
    <2> QED
      BY <1>2, <2>1
  <1>9. /\ ClientMessages(clients') \o s \in Seq(ViewMsgs)
        /\ Leads(SeesClients, ClientMessages(clients') \o s, clients, clients')
        /\ Leads(SeesFlags, ClientMessages(clients') \o s, subscribed, subscribed')
    <2>1. Leads(SeesClients, ClientMessages(clients') \o s, clients, clients')
      BY <1>7, <1>8, LeadsOn
    <2>2. Leads(SeesFlags, ClientMessages(clients') \o s, subscribed, subscribed')
      BY <1>7, <1>8, LeadsOn
    <2> QED
      BY <1>7, <1>8, <2>1, <2>2
  <1>10. /\ viewFeed' \in Seq(ViewMsgs)
         /\ pageClients' \in Sights /\ pageFlags' \in SUBSET Chan
         /\ viewSent' \in BOOLEAN /\ viewChanges' \in Nat
         /\ ~viewSent' => viewFeed' = <<>>
         /\ viewSent' => /\ Leads(SeesClients, viewFeed', pageClients', clients')
                         /\ Leads(SeesFlags, viewFeed', pageFlags', subscribed')
    BY <1>2, <1>9, TellingLeads
  <1>11. mine' \in Chan /\ mine' \in reports' /\ subscribed' \subseteq reports' /\ where' \in Sights
    BY <1>1, <1>2
  <1> QED
    BY <1>4, <1>5, <1>6, <1>10, <1>11 DEF ViewInv, ViewTypes

LEMMA ViewSnapshotKept == ASSUME ViewInv, ViewSnapshot
                          PROVE  ViewInv'
  <1> DEFINE x == [kind |-> "snapshot", clients |-> clients, flags |-> subscribed']
  <1>1. /\ where \in Sights /\ clients \in Sights /\ mine \in Chan /\ reports \in SUBSET Chan
        /\ pageClients \in Sights /\ pageFlags \in SUBSET Chan /\ viewChanges \in Nat
        /\ subscribed \in SUBSET Chan /\ clients = Seen(where, reports)
        /\ mine \in reports /\ subscribed \subseteq reports
    BY DEF ViewInv, ViewTypes
  <1>2. /\ viewSent' = TRUE /\ subscribed' = subscribed \cup {mine} /\ viewFeed' = <<x>>
        /\ where' = where /\ mine' = mine /\ reports' = reports /\ viewChanges' = viewChanges
        /\ clients' = clients /\ pageClients' = pageClients /\ pageFlags' = pageFlags
    BY DEF ViewSnapshot
  <1>3. subscribed' \in SUBSET Chan /\ subscribed' \subseteq reports'
    BY <1>1, <1>2
  <1>4. x \in ViewMsgs /\ x.kind = "snapshot" /\ x.clients = clients /\ x.flags = subscribed'
    BY <1>1, <1>3 DEF ViewMsgs
  <1> HIDE DEF x
  <1>5. SeesClients[pageClients][x] = clients /\ SeesFlags[pageFlags][x] = subscribed'
    <2>1. \A g \in Sights : SeesClients[g][x] = x.clients
      BY <1>4, OfSnapshot
    <2>2. \A F \in SUBSET Chan : SeesFlags[F][x] = x.flags
      BY <1>4, OfSnapshot
    <2> QED
      BY <1>1, <1>4, <2>1, <2>2
  <1>6. Leads(SeesClients, <<x>>, pageClients, clients) /\ Leads(SeesFlags, <<x>>, pageFlags, subscribed')
    <2>1. /\ Leads(SeesClients, <<x>>, pageClients, SeesClients[pageClients][x])
          /\ Leads(SeesFlags, <<x>>, pageFlags, SeesFlags[pageFlags][x])
      BY LeadsOne
    <2> QED
      BY <1>5, <2>1
  <1>7. <<x>> \in Seq(ViewMsgs)
    BY <1>4
  <1>8. viewFeed' \in Seq(ViewMsgs) /\ Leads(SeesClients, viewFeed', pageClients', clients')
        /\ Leads(SeesFlags, viewFeed', pageFlags', subscribed')
    BY <1>2, <1>6, <1>7
  <1> QED
    BY <1>1, <1>2, <1>3, <1>8 DEF ViewInv, ViewTypes

LEMMA PageReadsViewKept == ASSUME ViewInv, PageReadsView
                           PROVE  ViewInv'
  <1> DEFINE m == Head(viewFeed)
  <1>1. /\ where \in Sights /\ clients \in Sights /\ mine \in Chan /\ reports \in SUBSET Chan
        /\ pageClients \in Sights /\ pageFlags \in SUBSET Chan /\ viewChanges \in Nat
        /\ subscribed \in SUBSET Chan /\ clients = Seen(where, reports)
        /\ mine \in reports /\ subscribed \subseteq reports /\ viewSent \in BOOLEAN
        /\ viewFeed \in Seq(ViewMsgs)
    BY DEF ViewInv, ViewTypes
  <1>2. /\ viewFeed # <<>> /\ viewFeed' = Tail(viewFeed)
        /\ where' = where /\ mine' = mine /\ reports' = reports /\ viewChanges' = viewChanges
        /\ clients' = clients /\ subscribed' = subscribed /\ viewSent' = viewSent
    BY DEF PageReadsView
  <1>3. m \in ViewMsgs /\ viewFeed' \in Seq(ViewMsgs)
    BY <1>1, <1>2
  <1>4. viewSent
    BY <1>2 DEF ViewInv
  <1>5. pageClients' = SeesClients[pageClients][m] /\ pageFlags' = SeesFlags[pageFlags][m]
    <2>1. /\ m.kind = "snapshot" => pageClients' = m.clients /\ pageFlags' = m.flags
          /\ m.kind = "client" => /\ pageClients' = [pageClients EXCEPT ![m.who] = m.at]
                                  /\ pageFlags' = pageFlags
          /\ m.kind = "channel" => /\ pageFlags' = IF m.on THEN pageFlags \cup {m.at}
                                                   ELSE pageFlags \ {m.at}
                                   /\ pageClients' = pageClients
      BY DEF PageReadsView
    <2> HIDE DEF m
    <2>2. CASE m.kind = "snapshot"
      <3>1. pageClients' = m.clients /\ pageFlags' = m.flags
        BY <2>1, <2>2
      <3>2. /\ \A g \in Sights : SeesClients[g][m] = m.clients
            /\ \A F \in SUBSET Chan : SeesFlags[F][m] = m.flags
        BY <1>3, <2>2, OfSnapshot
      <3> QED
        BY <1>1, <3>1, <3>2
    <2>3. CASE m.kind = "client"
      <3>1. pageClients' = Put(pageClients, m.who, m.at) /\ pageFlags' = pageFlags
        BY <2>1, <2>3 DEF Put
      <3>2. /\ \A g \in Sights : SeesClients[g][m] = Put(g, m.who, m.at)
            /\ \A F \in SUBSET Chan : SeesFlags[F][m] = F
        BY <1>3, <2>3, OfClient
      <3> QED
        BY <1>1, <3>1, <3>2
    <2>4. CASE m.kind = "channel"
      <3>1. /\ pageFlags' = IF m.on THEN pageFlags \cup {m.at} ELSE pageFlags \ {m.at}
            /\ pageClients' = pageClients
        BY <2>1, <2>4
      <3>2. /\ \A g \in Sights : SeesClients[g][m] = g
            /\ \A F \in SUBSET Chan : SeesFlags[F][m] = IF m.on THEN F \cup {m.at} ELSE F \ {m.at}
        BY <1>3, <2>4, OfChannel
      <3> QED
        BY <1>1, <3>1, <3>2
    <2>5. m.kind \in {"snapshot", "client", "channel"}
      BY <1>3 DEF ViewMsgs
    <2> QED
      BY <2>2, <2>3, <2>4, <2>5
  <1>6. pageClients' \in Sights /\ pageFlags' \in SUBSET Chan
    <2> HIDE DEF m
    <2>1. m \in [kind : {"client"}, who : Mate, at : Chan \cup {Unseen}]
            \/ m \in [kind : {"channel"}, at : Chan, on : BOOLEAN]
            \/ m \in [kind : {"snapshot"}, clients : Sights, flags : SUBSET Chan]
      BY <1>3 DEF ViewMsgs
    <2>2. CASE m \in [kind : {"client"}, who : Mate, at : Chan \cup {Unseen}]
      <3>1. m.kind = "client" /\ m.at \in Chan \cup {Unseen}
        BY <2>2
      <3>2. SeesClients[pageClients][m] = Put(pageClients, m.who, m.at)
            /\ SeesFlags[pageFlags][m] = pageFlags
        BY <1>1, <1>3, <3>1, OfClient
      <3>3. Put(pageClients, m.who, m.at) \in Sights
        BY <1>1, <3>1 DEF Put, Sights
      <3> QED
        BY <1>1, <1>5, <3>2, <3>3
    <2>3. CASE m \in [kind : {"channel"}, at : Chan, on : BOOLEAN]
      <3>1. m.kind = "channel" /\ m.at \in Chan
        BY <2>3
      <3>2. SeesClients[pageClients][m] = pageClients
            /\ SeesFlags[pageFlags][m] = IF m.on THEN pageFlags \cup {m.at} ELSE pageFlags \ {m.at}
        BY <1>1, <1>3, <3>1, OfChannel
      <3> QED
        BY <1>1, <1>5, <3>1, <3>2
    <2>4. CASE m \in [kind : {"snapshot"}, clients : Sights, flags : SUBSET Chan]
      <3>1. m.kind = "snapshot" /\ m.clients \in Sights /\ m.flags \in SUBSET Chan
        BY <2>4
      <3>2. SeesClients[pageClients][m] = m.clients /\ SeesFlags[pageFlags][m] = m.flags
        BY <1>1, <1>3, <3>1, OfSnapshot
      <3> QED
        BY <1>5, <3>1, <3>2
    <2> QED
      BY <2>1, <2>2, <2>3, <2>4
  <1>7. Leads(SeesClients, viewFeed', pageClients', clients')
    <2>1. Leads(SeesClients, viewFeed, pageClients, clients)
      BY <1>4 DEF ViewInv
    <2>2. Leads(SeesClients, Tail(viewFeed), SeesClients[pageClients][Head(viewFeed)], clients)
      BY <1>1, <1>2, <2>1, LeadsTail
    <2> QED
      BY <1>2, <1>5, <2>2
  <1>8. Leads(SeesFlags, viewFeed', pageFlags', subscribed')
    <2>1. Leads(SeesFlags, viewFeed, pageFlags, subscribed)
      BY <1>4 DEF ViewInv
    <2>2. Leads(SeesFlags, Tail(viewFeed), SeesFlags[pageFlags][Head(viewFeed)], subscribed)
      BY <1>1, <1>2, <2>1, LeadsTail
    <2> QED
      BY <1>2, <1>5, <2>2
  <1> QED
    BY <1>1, <1>2, <1>3, <1>4, <1>6, <1>7, <1>8 DEF ViewInv, ViewTypes

LEMMA ViewInvKept == ASSUME ViewInv, [ViewNext]_viewVars
                     PROVE  ViewInv'
  <1>1. ASSUME NEW m \in Mate, NEW c \in Chan \cup {Unseen}, MateMoves(m, c)
        PROVE  ViewInv'
    BY <1>1, MateMovesKept
  <1>2. ASSUME NEW c \in Chan, SelfMoves(c) \/ Subscribe(c) \/ Unsubscribe(c)
        PROVE  ViewInv'
    BY <1>2, SelfMovesKept, SubscribeKept, UnsubscribeKept
  <1>3. CASE ViewSnapshot
    BY <1>3, ViewSnapshotKept
  <1>4. CASE PageReadsView
    BY <1>4, PageReadsViewKept
  <1>5. CASE UNCHANGED viewVars
    BY <1>5 DEF viewVars, ViewInv, ViewTypes
  <1> QED
    BY <1>1, <1>2, <1>3, <1>4, <1>5 DEF ViewNext

\* However people move and channels are subscribed: once its messages are read the page
\* shows exactly those the server reports, and no channel as subscribed that is not.
THEOREM PageSeesReported == ViewSpec => []PageShowsWhoIsReported
  <1>1. ViewInit => ViewInv
    <2> SUFFICES ASSUME ViewInit
                 PROVE  ViewInv
      OBVIOUS
    <2>1. where \in Sights /\ mine \in Chan /\ reports = {mine} /\ reports \in SUBSET Chan
      BY DEF ViewInit, Sights
    <2>2. clients = Seen(where, reports) /\ clients \in Sights
      BY <2>1, SightsSeen DEF ViewInit
    <2>3. viewFeed = <<>> /\ viewFeed \in Seq(ViewMsgs)
      BY DEF ViewInit
    <2>4. pageClients \in Sights
      BY DEF ViewInit, Sights
    <2> QED
      BY <2>1, <2>2, <2>3, <2>4 DEF ViewInit, ViewInv, ViewTypes
  <1>2. ViewInv => PageShowsWhoIsReported
    <2>1. ASSUME ViewInv, viewSent, viewFeed = <<>>
          PROVE  pageClients = Seen(where, reports) /\ pageFlags \subseteq reports
      <3>1. pageClients = clients /\ pageFlags = subscribed
        BY <2>1, ReadAll
      <3> QED
        BY <2>1, <3>1 DEF ViewInv
    <2> QED
      BY <2>1 DEF PageShowsWhoIsReported
  <1> QED
    BY <1>1, <1>2, ViewInvKept, PTL DEF ViewSpec

-----------------------------------------------------------------------------
(* Taking one out of a sequence, and putting one in.                       *)

LEMMA Joined ==
  ASSUME NEW S, NEW a \in Seq(S), NEW b \in Seq(S)
  PROVE  /\ a \o b \in Seq(S) /\ Len(a \o b) = Len(a) + Len(b)
         /\ \A j \in 1..Len(a) : (a \o b)[j] = a[j]
         /\ \A j \in (Len(a) + 1)..(Len(a) + Len(b)) : (a \o b)[j] = b[j - Len(a)]
  <1>1. Len(a) \in Nat /\ Len(b) \in Nat /\ a \o b \in Seq(S) /\ Len(a \o b) = Len(a) + Len(b)
    OBVIOUS
  <1>2. ASSUME NEW j \in (Len(a) + 1)..(Len(a) + Len(b))
        PROVE  (a \o b)[j] = b[j - Len(a)]
    <2>1. j \in 1..(Len(a) + Len(b)) /\ ~(j <= Len(a))
      BY <1>1
    <2> QED
      BY <2>1
  <1> QED
    BY <1>1, <1>2

LEMMA Inserted ==
  ASSUME NEW S, NEW s \in Seq(S), NEW x \in S, NEW i \in 1..(Len(s) + 1)
  PROVE  /\ InsertAt(s, i, x) \in Seq(S) /\ Len(InsertAt(s, i, x)) = Len(s) + 1
         /\ InsertAt(s, i, x)[i] = x
         /\ \A j \in 1..(Len(s) + 1) : j < i => InsertAt(s, i, x)[j] = s[j]
         /\ \A j \in 1..(Len(s) + 1) : j > i => InsertAt(s, i, x)[j] = s[j - 1]
  <1> DEFINE a == SubSeq(s, 1, i - 1)
             b == SubSeq(s, i, Len(s))
             r == (a \o <<x>>) \o b
  <1>1. /\ a \in Seq(S) /\ Len(a) = i - 1 /\ \A j \in 1..(i - 1) : a[j] = s[j]
    OBVIOUS
  <1>2. /\ b \in Seq(S) /\ Len(b) = Len(s) + 1 - i
        /\ \A j \in 1..(Len(s) + 1 - i) : b[j] = s[i + j - 1]
    OBVIOUS
  <1>3. Len(s) \in Nat
    OBVIOUS
  <1> HIDE DEF a, b
  <1> DEFINE e == a \o <<x>>
  <1>4. /\ e \in Seq(S) /\ Len(e) = i /\ e[i] = x /\ \A j \in 1..(i - 1) : e[j] = s[j]
    BY <1>1
  <1> HIDE DEF e
  <1>5. /\ e \o b \in Seq(S) /\ Len(e \o b) = Len(s) + 1
        /\ \A j \in 1..i : (e \o b)[j] = e[j]
        /\ \A j \in (i + 1)..(Len(s) + 1) : (e \o b)[j] = b[j - i]
    <2>1. /\ e \o b \in Seq(S) /\ Len(e \o b) = Len(e) + Len(b)
          /\ \A j \in 1..Len(e) : (e \o b)[j] = e[j]
          /\ \A j \in (Len(e) + 1)..(Len(e) + Len(b)) : (e \o b)[j] = b[j - Len(e)]
      BY <1>2, <1>4, Joined
    <2>2. Len(e) = i /\ Len(e) + Len(b) = Len(s) + 1
      BY <1>2, <1>3, <1>4
    <2> QED
      BY <2>1, <2>2
  <1>6. \A j \in (i + 1)..(Len(s) + 1) : b[j - i] = s[j - 1]
    <2>1. ASSUME NEW j \in (i + 1)..(Len(s) + 1)
          PROVE  b[j - i] = s[j - 1]
      <3>1. j - i \in 1..(Len(s) + 1 - i) /\ i + (j - i) - 1 = j - 1
        BY <1>3
      <3> QED
        BY <1>2, <3>1
    <2> QED
      BY <2>1
  <1>7. InsertAt(s, i, x) = e \o b
    BY DEF InsertAt, a, b, e
  <1> DEFINE w == e \o b
  <1>8. /\ w \in Seq(S) /\ Len(w) = Len(s) + 1 /\ InsertAt(s, i, x) = w
        /\ \A j \in 1..i : w[j] = e[j]
        /\ \A j \in (i + 1)..(Len(s) + 1) : w[j] = b[j - i]
    BY <1>5, <1>7
  <1> HIDE DEF w
  <1>9. \A j \in 1..(Len(s) + 1) : j < i => w[j] = s[j]
    BY <1>3, <1>4, <1>8
  <1>10. w[i] = x
    BY <1>4, <1>8
  <1>11. ASSUME NEW j \in 1..(Len(s) + 1), j > i
         PROVE  w[j] = s[j - 1]
    <2>1. j \in (i + 1)..(Len(s) + 1)
      BY <1>3, <1>11
    <2>2. w[j] = b[j - i]
      BY <1>8, <2>1
    <2> QED
      BY <1>6, <2>1, <2>2
  <1> QED
    BY <1>9, <1>10, <1>11, <1>8

LEMMA Removed ==
  ASSUME NEW S, NEW s \in Seq(S), NEW k \in 1..Len(s)
  PROVE  /\ RemoveAt(s, k) \in Seq(S) /\ Len(RemoveAt(s, k)) = Len(s) - 1
         /\ \A j \in 1..(Len(s) - 1) :
              RemoveAt(s, k)[j] = IF j < k THEN s[j] ELSE s[j + 1]
  <1> DEFINE a == SubSeq(s, 1, k - 1)
             b == SubSeq(s, k + 1, Len(s))
  <1>1. /\ a \in Seq(S) /\ Len(a) = k - 1 /\ \A j \in 1..(k - 1) : a[j] = s[j]
    OBVIOUS
  <1>2. /\ b \in Seq(S) /\ Len(b) = Len(s) - k
        /\ \A j \in 1..(Len(s) - k) : b[j] = s[k + j]
    OBVIOUS
  <1>3. Len(s) \in Nat
    OBVIOUS
  <1> HIDE DEF a, b
  <1>4. /\ a \o b \in Seq(S) /\ Len(a \o b) = Len(a) + Len(b)
        /\ \A j \in 1..Len(a) : (a \o b)[j] = a[j]
        /\ \A j \in (Len(a) + 1)..(Len(a) + Len(b)) : (a \o b)[j] = b[j - Len(a)]
    BY <1>1, <1>2, Joined
  <1>5. /\ a \o b \in Seq(S) /\ Len(a \o b) = Len(s) - 1
        /\ \A j \in 1..(k - 1) : (a \o b)[j] = a[j]
        /\ \A j \in k..(Len(s) - 1) : (a \o b)[j] = b[j - (k - 1)]
    <2> DEFINE w == a \o b
    <2>1. /\ w \in Seq(S) /\ Len(w) = Len(a) + Len(b)
          /\ \A j \in 1..Len(a) : w[j] = a[j]
          /\ \A j \in (Len(a) + 1)..(Len(a) + Len(b)) : w[j] = b[j - Len(a)]
      BY <1>4
    <2> HIDE DEF w
    <2>2. Len(a) = k - 1 /\ Len(a) + Len(b) = Len(s) - 1 /\ Len(a) + 1 = k
      BY <1>1, <1>2, <1>3
    <2>3. /\ w \in Seq(S) /\ Len(w) = Len(s) - 1
          /\ \A j \in 1..(k - 1) : w[j] = a[j]
          /\ \A j \in k..(Len(s) - 1) : w[j] = b[j - (k - 1)]
      BY <2>1, <2>2
    <2> QED
      BY <2>3 DEF w
  <1>6. \A j \in k..(Len(s) - 1) : b[j - (k - 1)] = s[j + 1]
    <2>1. ASSUME NEW j \in k..(Len(s) - 1)
          PROVE  b[j - (k - 1)] = s[j + 1]
      <3>1. j - (k - 1) \in 1..(Len(s) - k) /\ k + (j - (k - 1)) = j + 1
        BY <1>3
      <3> QED
        BY <1>2, <3>1
    <2> QED
      BY <2>1
  <1>7. RemoveAt(s, k) = a \o b
    BY DEF RemoveAt, a, b
  <1> QED
    BY <1>1, <1>3, <1>5, <1>6, <1>7

-----------------------------------------------------------------------------
(* The server's tree, and the places that go with it.                      *)

Places == {Gone} \cup {Place(p, o) : p \in Parents, o \in Parents}

Models == [Channel -> Places]

Listed(t, c) == \E p \in Parents : \E i \in 1..Len(t[p]) : t[p][i] = c

\* Each channel is in one list at most, once.
Lists(t) ==
  /\ t \in [Parents -> Seq(Channel)]
  /\ \A p, q \in Parents : \A i \in 1..Len(t[p]), j \in 1..Len(t[q]) :
       t[p][i] = t[q][j] => p = q /\ i = j

Above(s, i) == IF i = 1 THEN Root ELSE s[i - 1]

\* Model m says of every channel but those of X where it is in tree t.
FitsBut(t, m, X) ==
  /\ m \in Models
  /\ \A p \in Parents : \A i \in 1..Len(t[p]) :
       t[p][i] \notin X => m[t[p][i]] = Place(p, Above(t[p], i))
  /\ \A d \in Channel : d \notin X /\ ~Listed(t, d) => m[d] = Gone

LEMMA PlacesAre ==
  /\ Gone.parent = Nowhere /\ Gone.order = Nowhere /\ Gone \in Places
  /\ \A p, o : Place(p, o).parent = p /\ Place(p, o).order = o
  /\ \A p \in Parents, o \in Parents : Place(p, o) \in Places /\ Place(p, o) # Gone
  /\ \A a \in Places : a = Place(a.parent, a.order)
  /\ \A a \in Places : a # Gone => a.parent \in Parents /\ a.order \in Parents
  /\ Nowhere \notin Parents /\ Nowhere # Root /\ Root \notin Channel
  <1>1. \A p, o : Place(p, o).parent = p /\ Place(p, o).order = o
    BY DEF Place
  <1>2. Gone = Place(Nowhere, Nowhere)
    BY DEF Gone
  <1>3. Nowhere \notin Parents /\ Nowhere # Root /\ Root \notin Channel
    BY TreeAssumption DEF Parents
  <1> QED
    BY <1>1, <1>2, <1>3 DEF Places

\* Only one channel has the place.
LEMMA OnePlace ==
  ASSUME NEW t, Lists(t), NEW m, NEW X, FitsBut(t, m, X),
         NEW c \in Channel \ X, NEW d \in Channel \ X, m[c] = m[d], m[c] # Gone
  PROVE  c = d
  <1>1. /\ \E p \in Parents : \E i \in 1..Len(t[p]) : t[p][i] = c
        /\ \E p \in Parents : \E i \in 1..Len(t[p]) : t[p][i] = d
    BY DEF FitsBut, Listed
  <1>2. PICK p \in Parents : \E i \in 1..Len(t[p]) : t[p][i] = c
    BY <1>1
  <1>3. PICK i \in 1..Len(t[p]) : t[p][i] = c
    BY <1>2
  <1>4. PICK q \in Parents : \E j \in 1..Len(t[q]) : t[q][j] = d
    BY <1>1
  <1>5. PICK j \in 1..Len(t[q]) : t[q][j] = d
    BY <1>4
  <1>6. m[c] = Place(p, Above(t[p], i)) /\ m[d] = Place(q, Above(t[q], j))
    BY <1>3, <1>5 DEF FitsBut
  <1>7. p = q /\ Above(t[p], i) = Above(t[p], j)
    <2>1. /\ m[c].parent = p /\ m[c].order = Above(t[p], i)
          /\ m[d].parent = q /\ m[d].order = Above(t[q], j)
      <3> DEFINE u == Above(t[p], i)
                 v == Above(t[q], j)
                 e == m[c]
                 f == m[d]
      <3>1. e = Place(p, u) /\ f = Place(q, v)
        BY <1>6
      <3> HIDE DEF u, v, e, f
      <3>2. e.parent = p /\ e.order = u /\ f.parent = q /\ f.order = v
        BY <3>1 DEF Place
      <3> QED
        BY <3>2 DEF u, v, e, f
    <2> QED
      BY <2>1
  <1>8. t[p] \in Seq(Channel) /\ Len(t[p]) \in Nat
    BY DEF Lists
  <1>9. i = j
    <2>1. \A n \in 1..Len(t[p]) : t[p][n] # Root
      BY <1>8, PlacesAre
    <2>2. CASE i = 1 /\ j # 1
      <3>1. t[p][j - 1] = Root /\ j - 1 \in 1..Len(t[p])
        BY <1>5, <1>7, <1>8, <2>2 DEF Above
      <3> QED
        BY <2>1, <3>1
    <2>3. CASE i # 1 /\ j = 1
      <3>1. t[p][i - 1] = Root /\ i - 1 \in 1..Len(t[p])
        BY <1>3, <1>7, <1>8, <2>3 DEF Above
      <3> QED
        BY <2>1, <3>1
    <2>4. CASE i # 1 /\ j # 1
      <3>1. t[p][i - 1] = t[p][j - 1] /\ i - 1 \in 1..Len(t[p]) /\ j - 1 \in 1..Len(t[p])
        BY <1>3, <1>5, <1>7, <1>8, <2>4 DEF Above
      <3>2. i - 1 = j - 1
        BY <3>1 DEF Lists
      <3> QED
        BY <1>8, <3>2
    <2> QED
      BY <2>2, <2>3, <2>4
  <1> QED
    BY <1>3, <1>5, <1>7, <1>9

\* Where the tree says a channel is.
LEMMA PlaceFound ==
  ASSUME NEW t, Lists(t), NEW p \in Parents, NEW i \in 1..Len(t[p])
  PROVE  PlaceIn(t, t[p][i]) = Place(p, Above(t[p], i))
  <1> DEFINE c == t[p][i]
  <1>1. \A q \in Parents : t[q] \in Seq(Channel) /\ DOMAIN t[q] = 1..Len(t[q])
    BY DEF Lists
  <1>2. \A q \in Parents : c \in Range(t[q]) <=> q = p
    <2>1. \A q \in Parents : c \in Range(t[q]) <=> \E j \in 1..Len(t[q]) : t[q][j] = c
      BY <1>1 DEF Range
    <2> QED
      BY <2>1 DEF Lists
  <1>3. \A j \in DOMAIN t[p] : t[p][j] = c <=> j = i
    BY <1>1 DEF Lists
  <1> HIDE DEF c
  <1>4. (CHOOSE q \in Parents : c \in Range(t[q])) = p
    BY <1>2
  <1>5. i \in DOMAIN t[p]
    BY <1>1
  <1> DEFINE P == CHOOSE q \in Parents : c \in Range(t[q])
  <1>6. (CHOOSE j \in DOMAIN t[P] : t[P][j] = c) = i
    <2>1. P = p
      BY <1>4
    <2> HIDE DEF P
    <2>2. i \in DOMAIN t[P] /\ \A j \in DOMAIN t[P] : t[P][j] = c <=> j = i
      BY <1>3, <1>5, <2>1
    <2> QED
      BY <2>2
  <1> DEFINE k == CHOOSE j \in DOMAIN t[P] : t[P][j] = c
  <1>7. PlaceIn(t, c) = Place(p, IF i = 1 THEN Root ELSE t[p][i - 1])
    <2>1. \E q \in Parents : c \in Range(t[q])
      BY <1>2
    <2>2. PlaceIn(t, c) = Place(P, IF k = 1 THEN Root ELSE t[P][k - 1])
      BY <2>1 DEF PlaceIn
    <2>3. P = p /\ k = i
      BY <1>4, <1>6
    <2> HIDE DEF P, k
    <2> QED
      BY <2>2, <2>3
  <1> QED
    BY <1>7 DEF c, Above

LEMMA PlaceMissing ==
  ASSUME NEW t, Lists(t), NEW c, ~Listed(t, c)
  PROVE  PlaceIn(t, c) = Gone
  <1>1. \A q \in Parents : DOMAIN t[q] = 1..Len(t[q])
    BY DEF Lists
  <1>2. ~\E q \in Parents : c \in Range(t[q])
    BY <1>1 DEF Listed, Range
  <1> QED
    BY <1>2 DEF PlaceIn

\* Relinking leaves the channel itself, and every parent, as they were.
LEMMA RelinkKeeps ==
  ASSUME NEW m \in Models, NEW c \in Channel, NEW at \in Places, at # Gone,
         NEW f, f = RelinkOnLeave(m, c, at) \/ f = RelinkOnEnter(m, c, at)
  PROVE  /\ f \in Models /\ f[c] = m[c]
         /\ \A d \in Channel : f[d].parent = m[d].parent
         /\ \A d \in Channel : m[d] = Gone => f[d] = Gone
         /\ \A d \in Channel : f[d] # m[d] => m[d] # Gone
  <1>1. /\ at.parent \in Parents /\ at.order \in Parents /\ c \in Parents
        /\ Place(at.parent, at.order) \in Places /\ Place(at.parent, c) \in Places
        /\ Place(at.parent, at.order).parent = at.parent /\ Place(at.parent, c).parent = at.parent
        /\ Gone.parent # at.parent
    <2>1. at.parent \in Parents /\ at.order \in Parents /\ c \in Parents
      BY PlacesAre DEF Parents
    <2> QED
      BY <2>1, PlacesAre
  <1>2. ASSUME NEW d \in Channel
        PROVE  /\ f[d] \in Places /\ f[d].parent = m[d].parent
               /\ d = c => f[d] = m[d]
               /\ m[d] = Gone => f[d] = m[d]
    <2>1. m[d] \in Places
      BY DEF Models
    <2>2. CASE f = RelinkOnLeave(m, c, at)
      <3>1. f[d] = IF d # c /\ m[d].parent = at.parent /\ m[d].order = c
                   THEN Place(at.parent, at.order) ELSE m[d]
        BY <2>2 DEF RelinkOnLeave
      <3> QED
        BY <1>1, <2>1, <3>1
    <2>3. CASE f = RelinkOnEnter(m, c, at)
      <3>1. f[d] = IF d # c /\ m[d].parent = at.parent /\ m[d].order = at.order
                   THEN Place(at.parent, c) ELSE m[d]
        BY <2>3 DEF RelinkOnEnter
      <3> QED
        BY <1>1, <2>1, <3>1
    <2> QED
      BY <2>2, <2>3
  <1>3. f = [d \in Channel |-> f[d]]
    BY DEF RelinkOnLeave, RelinkOnEnter
  <1>4. f \in Models
    BY <1>2, <1>3 DEF Models
  <1> QED
    BY <1>2, <1>4

\* A channel is taken out of its list: the gap is closed.
LEMMA TakenOut ==
  ASSUME NEW t, Lists(t), NEW m, FitsBut(t, m, {}), NEW p \in Parents, NEW k \in 1..Len(t[p]),
         NEW u \in [Parents -> Seq(Channel)], u[p] = RemoveAt(t[p], k),
         \A q \in Parents : q # p => u[q] = t[q],
         NEW c, c = t[p][k]
  PROVE  Lists(u) /\ ~Listed(u, c) /\ FitsBut(u, RelinkOnLeave(m, c, m[c]), {c})
  <1> DEFINE s == t[p]
             r == u[p]
             f == RelinkOnLeave(m, c, m[c])
             Was(q, i) == IF q = p /\ i >= k THEN i + 1 ELSE i
  <1>1. /\ s \in Seq(Channel) /\ Len(s) \in Nat /\ c \in Channel /\ m \in Models /\ k \in Nat /\ k >= 1
        /\ k <= Len(s)
    BY DEF Lists, FitsBut
  <1>2. /\ r \in Seq(Channel) /\ Len(r) = Len(s) - 1
        /\ \A j \in 1..(Len(s) - 1) : r[j] = IF j < k THEN s[j] ELSE s[j + 1]
    BY <1>1, Removed, ZenonT(40)
  <1>3. \A q, z \in Parents : \A i \in 1..Len(t[q]), j \in 1..Len(t[z]) :
          t[q][i] = t[z][j] => q = z /\ i = j
    BY DEF Lists
  <1>4. \A q \in Parents : Len(u[q]) \in Nat /\ Len(t[q]) \in Nat
    BY DEF Lists
  <1>5. m[c] = Place(p, Above(s, k))
    BY <1>1 DEF FitsBut
  <1>6. Above(s, k) \in Parents
    BY <1>1 DEF Above, Parents
  <1>7. m[c] \in Places /\ m[c] # Gone /\ m[c].parent = p /\ m[c].order = Above(s, k)
    BY <1>5, <1>6, PlacesAre
  <1>8. ASSUME NEW q \in Parents, NEW i \in 1..Len(u[q])
        PROVE  /\ Was(q, i) \in 1..Len(t[q]) /\ u[q][i] = t[q][Was(q, i)]
               /\ ~(q = p /\ Was(q, i) = k)
    <2>1. CASE q = p
      <3>1. i \in 1..(Len(s) - 1)
        BY <1>2, <2>1
      <3>2. CASE i < k
        BY <1>1, <1>2, <2>1, <3>1, <3>2
      <3>3. CASE ~(i < k)
        BY <1>1, <1>2, <2>1, <3>1, <3>3
      <3> QED
        BY <3>2, <3>3
    <2>2. CASE q # p
      BY <2>2
    <2> QED
      BY <2>1, <2>2
  <1>9. ASSUME NEW q \in Parents, NEW z \in Parents, NEW i \in 1..Len(u[q]), NEW j \in 1..Len(u[z]),
               u[q][i] = u[z][j]
        PROVE  q = z /\ i = j
    <2>1. q = z /\ Was(q, i) = Was(z, j)
      <3> DEFINE a == Was(q, i)
                 b == Was(z, j)
      <3>1. a \in 1..Len(t[q]) /\ u[q][i] = t[q][a]
        BY <1>8
      <3>2. b \in 1..Len(t[z]) /\ u[z][j] = t[z][b]
        BY <1>8
      <3> HIDE DEF a, b
      <3>3. t[q][a] = t[z][b]
        BY <1>9, <3>1, <3>2
      <3>4. q = z /\ a = b
        BY <3>1, <3>2, <3>3 DEF Lists
      <3> QED
        BY <3>4 DEF a, b
    <2>2. i \in Nat /\ j \in Nat
      BY <1>4
    <2> QED
      BY <1>1, <2>1, <2>2
  <1>10. Lists(u)
    BY <1>9 DEF Lists
  <1>11. ASSUME NEW q \in Parents, NEW i \in 1..Len(u[q])
         PROVE  u[q][i] # c
    <2> HIDE DEF Was
    <2>1. Was(q, i) \in 1..Len(t[q]) /\ u[q][i] = t[q][Was(q, i)] /\ ~(q = p /\ Was(q, i) = k)
      BY <1>8
    <2> QED
      BY <1>3, <2>1
  <1>12. ~Listed(u, c)
    BY <1>11 DEF Listed
  <1>13. f \in Models
    BY <1>1, <1>7, RelinkKeeps
  <1>14. \A d \in Channel : f[d] = IF d # c /\ m[d].parent = p /\ m[d].order = c
                                   THEN Place(p, Above(s, k)) ELSE m[d]
    BY <1>7 DEF RelinkOnLeave
  <1> HIDE DEF f
  <1>15. ASSUME NEW q \in Parents, NEW i \in 1..Len(u[q])
         PROVE  f[u[q][i]] = Place(q, Above(u[q], i))
    <2> DEFINE d == u[q][i]
               o == Was(q, i)
    <2>1. o \in 1..Len(t[q]) /\ d = t[q][o] /\ ~(q = p /\ o = k) /\ d # c
      BY <1>8, <1>11
    <2>2. d \in Channel /\ i \in Nat /\ i >= 1
      BY <1>4
    <2>3. m[d] = Place(q, Above(t[q], o)) /\ m[d].parent = q /\ m[d].order = Above(t[q], o)
      <3> HIDE DEF d, o
      <3>1. m[d] = Place(q, Above(t[q], o))
        BY <2>1 DEF FitsBut
      <3>2. Place(q, Above(t[q], o)).parent = q /\ Place(q, Above(t[q], o)).order = Above(t[q], o)
        BY PlacesAre
      <3> QED
        BY <3>1, <3>2
    <2>4. CASE q # p
      <3>1. o = i /\ u[q] = t[q]
        BY <2>4
      <3> HIDE DEF d, o
      <3>2. f[d] = m[d]
        BY <1>14, <2>2, <2>3, <2>4
      <3> QED
        BY <2>3, <3>1, <3>2 DEF d
    <2>5. CASE q = p /\ i < k
      <3>1. o = i
        BY <2>5
      <3>2. Above(s, i) # c
        <4>1. CASE i = 1
          BY <1>1, <4>1, PlacesAre DEF Above
        <4>2. CASE i # 1
          <5>1. i - 1 \in 1..Len(s) /\ i - 1 # k
            BY <1>1, <2>2, <2>5, <4>2
          <5>2. s[i - 1] # s[k]
            BY <1>3, <5>1
          <5> QED
            BY <4>2, <5>2 DEF Above
        <4> QED
          BY <4>1, <4>2
      <3>3. Above(r, i) = Above(s, i)
        <4>1. CASE i = 1
          BY <4>1 DEF Above
        <4>2. CASE i # 1
          <5>1. i - 1 \in 1..(Len(s) - 1) /\ i - 1 < k
            BY <1>1, <2>2, <2>5, <4>2
          <5>2. r[i - 1] = s[i - 1]
            BY <1>2, <5>1
          <5> QED
            BY <4>2, <5>2 DEF Above
        <4> QED
          BY <4>1, <4>2
      <3> HIDE DEF d, o
      <3>4. f[d] = m[d]
        BY <1>14, <2>2, <2>3, <2>5, <3>1, <3>2
      <3> QED
        BY <2>3, <2>5, <3>1, <3>3, <3>4 DEF d
    <2>6. CASE q = p /\ i = k
      <3>1. o = k + 1
        BY <2>6
      <3>2. Above(s, k + 1) = c
        BY <1>1 DEF Above
      <3>3. Above(r, k) = Above(s, k)
        <4>1. CASE k = 1
          BY <4>1 DEF Above
        <4>2. CASE k # 1
          <5>1. k - 1 \in 1..(Len(s) - 1) /\ k - 1 < k
            BY <1>1, <4>2
          <5>2. r[k - 1] = s[k - 1]
            BY <1>2, <5>1
          <5> QED
            BY <4>2, <5>2 DEF Above
        <4> QED
          BY <4>1, <4>2
      <3> HIDE DEF d, o
      <3>4. f[d] = Place(p, Above(s, k))
        BY <1>14, <2>1, <2>2, <2>3, <2>6, <3>1, <3>2
      <3> QED
        BY <2>6, <3>3, <3>4 DEF d
    <2>7. CASE q = p /\ i > k
      <3>1. o = i + 1
        BY <1>1, <2>2, <2>7
      <3>2. Above(s, i + 1) = s[i] /\ i \in 1..Len(s) /\ i # k
        <4>1. i \in 1..Len(s) /\ i # k /\ i + 1 # 1 /\ i + 1 - 1 = i
          BY <1>1, <1>2, <2>2, <2>7
        <4> QED
          BY <4>1 DEF Above
      <3>3. s[i] # c
        BY <1>3, <3>2
      <3>4. Above(r, i) = s[i]
        <4>1. i - 1 \in 1..(Len(s) - 1) /\ ~(i - 1 < k) /\ i # 1 /\ i - 1 + 1 = i
          BY <1>1, <1>2, <2>2, <2>7
        <4>2. r[i - 1] = s[i]
          BY <1>2, <4>1
        <4> QED
          BY <4>1, <4>2 DEF Above
      <3> HIDE DEF d, o
      <3>5. f[d] = m[d]
        BY <1>14, <2>2, <2>3, <2>7, <3>1, <3>2, <3>3
      <3> QED
        BY <2>3, <2>7, <3>1, <3>2, <3>4, <3>5 DEF d
    <2>8. i < k \/ i = k \/ i > k
      BY <1>1, <2>2
    <2> QED
      BY <2>4, <2>5, <2>6, <2>7, <2>8
  <1>16. ASSUME NEW d \in Channel, d # c, ~Listed(u, d)
         PROVE  f[d] = Gone
    <2>1. ASSUME NEW q \in Parents, NEW o \in 1..Len(t[q]), t[q][o] = d
          PROVE  FALSE
      <3>1. CASE q # p
        BY <1>16, <2>1, <3>1 DEF Listed
      <3>2. CASE q = p
        <4>1. o \in Nat /\ o # k /\ o >= 1 /\ o <= Len(s)
          BY <1>1, <1>16, <2>1, <3>2
        <4>2. CASE o < k
          <5>1. o \in 1..(Len(s) - 1)
            BY <1>1, <4>1, <4>2
          <5>2. r[o] = d /\ o \in 1..Len(r)
            BY <1>2, <2>1, <3>2, <4>2, <5>1
          <5> QED
            BY <1>16, <5>2 DEF Listed
        <4>3. CASE o > k
          <5>1. o - 1 \in 1..(Len(s) - 1) /\ ~(o - 1 < k) /\ o - 1 + 1 = o
            BY <1>1, <4>1, <4>3
          <5>2. r[o - 1] = d /\ o - 1 \in 1..Len(r)
            BY <1>2, <2>1, <3>2, <5>1
          <5> QED
            BY <1>16, <5>2 DEF Listed
        <4> QED
          BY <1>1, <4>1, <4>2, <4>3
      <3> QED
        BY <3>1, <3>2
    <2>2. ~Listed(t, d)
      BY <2>1 DEF Listed
    <2>3. m[d] = Gone
      BY <2>2 DEF FitsBut
    <2>4. m[d].parent # p
      BY <2>3, PlacesAre
    <2> QED
      BY <1>14, <2>3, <2>4
  <1>17. FitsBut(u, f, {c})
    BY <1>13, <1>15, <1>16 DEF FitsBut
  <1> QED
    BY <1>10, <1>12, <1>17 DEF f

\* A channel is put into a list: the new place is opened.
LEMMA PutInto ==
  ASSUME NEW t, Lists(t), NEW c \in Channel, NEW m, FitsBut(t, m, {c}), ~Listed(t, c),
         NEW p \in Parents, NEW i \in 1..(Len(t[p]) + 1),
         NEW u \in [Parents -> Seq(Channel)], u[p] = InsertAt(t[p], i, c),
         \A q \in Parents : q # p => u[q] = t[q],
         NEW at, at = PlaceIn(u, c),
         NEW g, g = [RelinkOnEnter(m, c, at) EXCEPT ![c] = at]
  PROVE  Lists(u) /\ FitsBut(u, g, {}) /\ at \in Places /\ at # Gone
  <1> DEFINE s == t[p]
             r == u[p]
             f == RelinkOnEnter(m, c, at)
             Was(q, j) == IF q = p /\ j > i THEN j - 1 ELSE j
  <1>1. /\ s \in Seq(Channel) /\ Len(s) \in Nat /\ m \in Models
        /\ i \in Nat /\ i >= 1 /\ i <= Len(s) + 1
    BY DEF Lists, FitsBut
  <1>2. /\ r \in Seq(Channel) /\ Len(r) = Len(s) + 1
        /\ \A j \in 1..(Len(s) + 1) :
             r[j] = IF j < i THEN s[j] ELSE IF j = i THEN c ELSE s[j - 1]
    <2> DEFINE w == InsertAt(s, i, c)
    <2>1. r = w
      OBVIOUS
    <2>2. i \in 1..(Len(s) + 1)
      OBVIOUS
    <2> HIDE DEF r, s
    <2>3. /\ w \in Seq(Channel) /\ Len(w) = Len(s) + 1 /\ w[i] = c
          /\ \A j \in 1..(Len(s) + 1) : j < i => w[j] = s[j]
          /\ \A j \in 1..(Len(s) + 1) : j > i => w[j] = s[j - 1]
      <3>1. s \in Seq(Channel)
        BY <1>1
      <3>2. w \in Seq(Channel) /\ Len(w) = Len(s) + 1
        BY <3>1, <2>2, Inserted
      <3>3. w[i] = c
        BY <3>1, <2>2, Inserted
      <3>4. \A j \in 1..(Len(s) + 1) : j < i => w[j] = s[j]
        BY <3>1, <2>2, Inserted
      <3>5. \A j \in 1..(Len(s) + 1) : j > i => w[j] = s[j - 1]
        BY <3>1, <2>2, Inserted
      <3> QED
        BY <3>2, <3>3, <3>4, <3>5
    <2> HIDE DEF w
    <2>4. \A j \in 1..(Len(s) + 1) : j < i \/ j = i \/ j > i
      BY <1>1
    <2> QED
      BY <2>3, <2>1, <2>4
  <1>3. \A q, z \in Parents : \A a \in 1..Len(t[q]), b \in 1..Len(t[z]) :
          t[q][a] = t[z][b] => q = z /\ a = b
    BY DEF Lists
  <1>4. \A q \in Parents : Len(u[q]) \in Nat /\ Len(t[q]) \in Nat
    BY DEF Lists
  <1>5. r[i] = c /\ i \in 1..Len(r)
    BY <1>1, <1>2
  <1>6. \A q \in Parents : \A j \in 1..Len(t[q]) : t[q][j] # c
    BY DEF Listed
  <1>7. ASSUME NEW q \in Parents, NEW j \in 1..Len(u[q]), ~(q = p /\ j = i)
        PROVE  Was(q, j) \in 1..Len(t[q]) /\ u[q][j] = t[q][Was(q, j)]
    <2>1. CASE q = p
      <3>1. j \in 1..(Len(s) + 1) /\ j # i
        BY <1>2, <1>7, <2>1
      <3>2. CASE j < i
        BY <1>1, <1>2, <2>1, <3>1, <3>2
      <3>3. CASE ~(j < i)
        BY <1>1, <1>2, <2>1, <3>1, <3>3
      <3> QED
        BY <3>2, <3>3
    <2>2. CASE q # p
      BY <2>2
    <2> QED
      BY <2>1, <2>2
  <1>8. ASSUME NEW q \in Parents, NEW j \in 1..Len(u[q]), u[q][j] = c
        PROVE  q = p /\ j = i
    <2>1. ASSUME ~(q = p /\ j = i)
          PROVE  FALSE
      <3> DEFINE a == Was(q, j)
      <3>1. a \in 1..Len(t[q]) /\ u[q][j] = t[q][a]
        BY <1>7, <2>1
      <3> HIDE DEF a
      <3> QED
        BY <1>6, <1>8, <3>1
    <2> QED
      BY <2>1
  <1>9. ASSUME NEW q \in Parents, NEW z \in Parents, NEW j \in 1..Len(u[q]), NEW l \in 1..Len(u[z]),
               u[q][j] = u[z][l]
        PROVE  q = z /\ j = l
    <2>1. CASE u[q][j] = c
      BY <1>8, <1>9, <2>1
    <2>2. CASE u[q][j] # c
      <3> DEFINE a == Was(q, j)
                 b == Was(z, l)
      <3>1. ~(q = p /\ j = i) /\ ~(z = p /\ l = i)
        BY <1>5, <1>9, <2>2
      <3>2. a \in 1..Len(t[q]) /\ u[q][j] = t[q][a]
        BY <1>7, <3>1
      <3>3. b \in 1..Len(t[z]) /\ u[z][l] = t[z][b]
        BY <1>7, <3>1
      <3>4. q = z /\ a = b
        <4> HIDE DEF a, b
        <4>1. t[q][a] = t[z][b]
          BY <1>9, <3>2, <3>3
        <4> QED
          BY <3>2, <3>3, <4>1 DEF Lists
      <3>5. j \in Nat /\ l \in Nat
        BY <1>4
      <3> QED
        BY <1>1, <3>1, <3>4, <3>5
    <2> QED
      BY <2>1, <2>2
  <1>10. Lists(u)
    BY <1>9 DEF Lists
  <1>11. at = Place(p, Above(r, i))
    BY <1>5, <1>10, PlaceFound
  <1>12. Above(r, i) = Above(s, i)
    <2>1. CASE i = 1
      BY <2>1 DEF Above
    <2>2. CASE i # 1
      <3>1. i - 1 \in 1..(Len(s) + 1) /\ i - 1 < i
        BY <1>1, <2>2
      <3>2. r[i - 1] = s[i - 1]
        BY <1>2, <3>1
      <3> QED
        BY <2>2, <3>2 DEF Above
    <2> QED
      BY <2>1, <2>2
  <1>13. Above(s, i) \in Parents
    <2>1. CASE i = 1
      BY <2>1 DEF Above, Parents
    <2>2. CASE i # 1
      <3>1. i - 1 \in 1..Len(s)
        BY <1>1, <2>2
      <3> QED
        BY <1>1, <2>2, <3>1 DEF Above, Parents
    <2> QED
      BY <2>1, <2>2
  <1>14. at \in Places /\ at # Gone /\ at.parent = p /\ at.order = Above(s, i)
    BY <1>11, <1>12, <1>13, PlacesAre
  <1>15. f \in Models /\ DOMAIN f = Channel
    <2>1. f \in Models
      BY <1>1, <1>14, RelinkKeeps
    <2> HIDE DEF f
    <2> QED
      BY <2>1 DEF Models
  <1>16. \A d \in Channel : f[d] = IF d # c /\ m[d].parent = p /\ m[d].order = Above(s, i)
                                   THEN Place(p, c) ELSE m[d]
    BY <1>14 DEF RelinkOnEnter
  <1>17. g = [f EXCEPT ![c] = at]
    OBVIOUS
  <1> HIDE DEF f
  <1>18. g \in Models /\ g[c] = at /\ \A d \in Channel : d # c => g[d] = f[d]
    BY <1>14, <1>15, <1>17 DEF Models
  <1>19. ASSUME NEW q \in Parents, NEW j \in 1..Len(u[q])
         PROVE  g[u[q][j]] = Place(q, Above(u[q], j))
    <2>1. CASE q = p /\ j = i
      BY <1>5, <1>11, <1>18, <2>1
    <2>2. CASE ~(q = p /\ j = i)
      <3> DEFINE d == u[q][j]
                 o == Was(q, j)
      <3>1. o \in 1..Len(t[q]) /\ d = t[q][o]
        BY <1>7, <2>2
      <3>2. d \in Channel /\ d # c /\ j \in Nat /\ j >= 1
        BY <1>4, <1>8, <2>2
      <3>3. m[d] = Place(q, Above(t[q], o)) /\ m[d].parent = q /\ m[d].order = Above(t[q], o)
        <4> HIDE DEF d, o
        <4>1. m[d] = Place(q, Above(t[q], o))
          BY <3>1, <3>2 DEF FitsBut
        <4>2. Place(q, Above(t[q], o)).parent = q /\ Place(q, Above(t[q], o)).order = Above(t[q], o)
          BY PlacesAre
        <4> QED
          BY <4>1, <4>2
      <3>4. g[d] = f[d]
        BY <1>18, <3>2
      <3>5. CASE q # p
        <4>1. o = j /\ u[q] = t[q]
          BY <3>5
        <4> HIDE DEF d, o
        <4>2. f[d] = m[d]
          BY <1>16, <3>2, <3>3, <3>5
        <4> QED
          BY <3>3, <3>4, <4>1, <4>2 DEF d
      <3>6. CASE q = p /\ j < i
        <4>1. o = j
          BY <1>1, <3>2, <3>6
        <4>2. Above(s, j) # Above(s, i)
          <5>1. i # 1 /\ i - 1 \in 1..Len(s)
            BY <1>1, <3>2, <3>6
          <5>2. Above(s, i) = s[i - 1]
            BY <5>1 DEF Above
          <5>3. CASE j = 1
            BY <1>1, <5>1, <5>2, <5>3, PlacesAre DEF Above
          <5>4. CASE j # 1
            <6>1. j - 1 \in 1..Len(s) /\ j - 1 # i - 1
              BY <1>1, <3>2, <3>6, <5>4
            <6>2. s[j - 1] # s[i - 1]
              BY <1>3, <5>1, <6>1
            <6> QED
              BY <5>2, <5>4, <6>2 DEF Above
          <5> QED
            BY <5>3, <5>4
        <4>3. Above(r, j) = Above(s, j)
          <5>1. CASE j = 1
            BY <5>1 DEF Above
          <5>2. CASE j # 1
            <6>1. j - 1 \in 1..(Len(s) + 1) /\ j - 1 < i
              BY <1>1, <3>2, <3>6, <5>2
            <6>2. r[j - 1] = s[j - 1]
              BY <1>2, <6>1
            <6> QED
              BY <5>2, <6>2 DEF Above
          <5> QED
            BY <5>1, <5>2
        <4> HIDE DEF d, o
        <4>4. f[d] = m[d]
          BY <1>16, <3>2, <3>3, <3>6, <4>1, <4>2
        <4> QED
          BY <3>3, <3>4, <3>6, <4>1, <4>3, <4>4 DEF d
      <3>7. CASE q = p /\ j = i + 1
        <4>1. o = i
          BY <1>1, <3>7
        <4>2. Above(r, i + 1) = c
          BY <1>1, <1>5 DEF Above
        <4> HIDE DEF d, o
        <4>3. f[d] = Place(p, c)
          BY <1>16, <3>2, <3>3, <3>7, <4>1
        <4> QED
          BY <3>4, <3>7, <4>2, <4>3 DEF d
      <3>8. CASE q = p /\ j > i + 1
        <4>1. o = j - 1
          BY <1>1, <3>2, <3>8
        <4>2. Above(s, j - 1) = s[j - 2] /\ j - 2 \in 1..Len(s) /\ j - 2 # i - 1
          <5>1. j - 2 \in 1..Len(s) /\ j - 2 # i - 1 /\ j - 1 # 1 /\ j - 1 - 1 = j - 2
            BY <1>1, <1>2, <3>2, <3>8
          <5> QED
            BY <5>1 DEF Above
        <4>3. Above(s, j - 1) # Above(s, i)
          <5>1. CASE i = 1
            BY <1>1, <4>2, <5>1, PlacesAre DEF Above
          <5>2. CASE i # 1
            <6>1. i - 1 \in 1..Len(s)
              BY <1>1, <5>2
            <6>2. s[j - 2] # s[i - 1]
              <7>1. \A a, b \in 1..Len(s) : s[a] = s[b] => a = b
                BY <1>3
              <7> HIDE DEF s
              <7> QED
                BY <4>2, <6>1, <7>1
            <6> QED
              BY <4>2, <5>2, <6>2 DEF Above
          <5> QED
            BY <5>1, <5>2
        <4>4. Above(r, j) = s[j - 2]
          <5>1. /\ j - 1 \in 1..(Len(s) + 1) /\ ~(j - 1 < i) /\ j - 1 # i /\ j # 1
                /\ j - 1 - 1 = j - 2
            BY <1>1, <1>2, <3>2, <3>8
          <5>2. r[j - 1] = s[j - 2]
            BY <1>2, <5>1
          <5> QED
            BY <5>1, <5>2 DEF Above
        <4> HIDE DEF d, o
        <4>5. f[d] = m[d]
          BY <1>16, <3>2, <3>3, <3>8, <4>1, <4>3
        <4> QED
          BY <3>3, <3>4, <3>8, <4>1, <4>2, <4>4, <4>5 DEF d
      <3>9. q # p \/ j < i \/ j = i + 1 \/ j > i + 1
        BY <1>1, <2>2, <3>2
      <3> QED
        BY <3>5, <3>6, <3>7, <3>8, <3>9
    <2> QED
      BY <2>1, <2>2
  <1>20. ASSUME NEW d \in Channel, ~Listed(u, d)
         PROVE  g[d] = Gone
    <2>1. d # c
      BY <1>5, <1>20 DEF Listed
    <2>2. ASSUME NEW q \in Parents, NEW o \in 1..Len(t[q]), t[q][o] = d
          PROVE  FALSE
      <3>1. CASE q # p
        BY <1>20, <2>2, <3>1 DEF Listed
      <3>2. CASE q = p
        <4>1. o \in Nat /\ o >= 1 /\ o <= Len(s)
          BY <1>1, <2>2, <3>2
        <4>2. CASE o < i
          <5>1. o \in 1..(Len(s) + 1)
            BY <1>1, <4>1
          <5>2. r[o] = d /\ o \in 1..Len(r)
            BY <1>2, <2>2, <3>2, <4>2, <5>1
          <5> QED
            BY <1>20, <5>2 DEF Listed
        <4>3. CASE ~(o < i)
          <5>1. o + 1 \in 1..(Len(s) + 1) /\ ~(o + 1 < i) /\ o + 1 # i /\ o + 1 - 1 = o
            BY <1>1, <4>1, <4>3
          <5>2. r[o + 1] = d /\ o + 1 \in 1..Len(r)
            BY <1>2, <2>2, <3>2, <5>1
          <5> QED
            BY <1>20, <5>2 DEF Listed
        <4> QED
          BY <4>2, <4>3
      <3> QED
        BY <3>1, <3>2
    <2>3. ~Listed(t, d)
      BY <2>2 DEF Listed
    <2>4. m[d] = Gone
      BY <2>1, <2>3 DEF FitsBut
    <2>5. m[d].parent # p
      BY <2>4, PlacesAre
    <2> QED
      BY <1>16, <1>18, <2>1, <2>4, <2>5
  <1>21. FitsBut(u, g, {})
    BY <1>18, <1>19, <1>20 DEF FitsBut
  <1> QED
    BY <1>10, <1>14, <1>21

\* Taken out and put back where it was, a channel leaves everything as it was: so a move
\* to where it is can be read like any other.
LEMMA BackInPlace ==
  ASSUME NEW t, Lists(t), NEW m, FitsBut(t, m, {}), NEW c \in Channel, m[c] # Gone
  PROVE  RelinkOnEnter(RelinkOnLeave(m, c, m[c]), c, m[c]) = m
  <1> DEFINE at == m[c]
             f == RelinkOnLeave(m, c, at)
             g == RelinkOnEnter(f, c, at)
  <1>1. m \in Models /\ at \in Places /\ at # Gone
    BY DEF FitsBut, Models
  <1>2. at = Place(at.parent, at.order)
    BY <1>1, PlacesAre
  <1>3. \A d \in Channel : f[d] = IF d # c /\ m[d].parent = at.parent /\ m[d].order = c
                                  THEN at ELSE m[d]
    BY <1>2 DEF RelinkOnLeave
  <1>4. /\ g = [d \in Channel |-> g[d]]
        /\ \A d \in Channel : g[d] = IF d # c /\ f[d].parent = at.parent /\ f[d].order = at.order
                                     THEN Place(at.parent, c) ELSE f[d]
    BY DEF RelinkOnEnter
  <1>5. m = [d \in Channel |-> m[d]]
    BY <1>1 DEF Models
  <1>6. \A d \in Channel : m[d] \in Places
    BY <1>1 DEF Models
  <1>7. \A d \in Channel : m[d] = at => d = c
    BY <1>1, OnePlace
  <1> HIDE DEF at, f, g
  <1>8. ASSUME NEW d \in Channel
        PROVE  g[d] = m[d]
    <2>1. m[d] = Place(m[d].parent, m[d].order)
      BY <1>6, PlacesAre
    <2>2. CASE d = c
      BY <1>3, <1>4, <2>2
    <2>3. CASE d # c /\ m[d].parent = at.parent /\ m[d].order = c
      <3>1. f[d] = at
        BY <1>3, <2>3
      <3> QED
        BY <1>4, <2>1, <2>3, <3>1
    <2>4. CASE d # c /\ ~(m[d].parent = at.parent /\ m[d].order = c)
      <3>1. f[d] = m[d] /\ m[d] # at
        BY <1>3, <1>7, <2>4
      <3>2. ~(m[d].parent = at.parent /\ m[d].order = at.order)
        BY <1>2, <2>1, <3>1
      <3> QED
        BY <1>4, <3>1, <3>2
    <2> QED
      BY <2>2, <2>3, <2>4
  <1>9. [d \in Channel |-> g[d]] = [d \in Channel |-> m[d]]
    BY <1>8
  <1> QED
    BY <1>4, <1>5, <1>9 DEF at, f, g

-----------------------------------------------------------------------------
(* A channel with all under it.                                            *)

LEMMA UnderIs ==
  ASSUME NEW c \in Channel
  PROVE  /\ Under(c) \subseteq Channel /\ c \in Under(c)
         /\ \A e \in Channel : channels[e].parent \in Under(c) => e \in Under(c)
         /\ \A e \in Under(c) : e # c => channels[e].parent \in Under(c)
  <1> DEFINE Closed(D) == c \in D /\ \A e \in Channel : channels[e].parent \in D => e \in D
             U == Under(c)
  <1>1. U \subseteq Channel
    BY DEF Under
  <1>2. \A d \in Channel : d \in U <=> \A D \in SUBSET Channel : Closed(D) => d \in D
    BY DEF Under
  <1> HIDE DEF U
  <1>3. c \in U
    BY <1>2
  <1>4. ASSUME NEW e \in Channel, channels[e].parent \in U
        PROVE  e \in U
    <2>1. ASSUME NEW D \in SUBSET Channel, Closed(D)
          PROVE  e \in D
      <3>1. channels[e].parent \in D
        BY <1>1, <1>2, <1>4, <2>1
      <3> QED
        BY <2>1, <3>1
    <2> HIDE DEF Closed
    <2> QED
      BY <1>2, <2>1
  <1>5. ASSUME NEW e \in U, e # c, channels[e].parent \notin U
        PROVE  FALSE
    <2> DEFINE D == U \ {e}
    <2>1. D \in SUBSET Channel /\ c \in D
      BY <1>1, <1>3, <1>5
    <2>2. \A d \in Channel : channels[d].parent \in D => d \in D
      BY <1>4, <1>5
    <2>3. Closed(D)
      BY <2>1, <2>2
    <2> HIDE DEF Closed, D
    <2>4. e \in D
      BY <1>1, <1>2, <1>5, <2>1, <2>3
    <2> QED
      BY <2>4 DEF D
  <1> QED
    BY <1>1, <1>3, <1>4, <1>5 DEF U

\* Without(c), seen from the list c is in.
LEMMA WithoutIs ==
  ASSUME Lists(tree), NEW p \in Parents, NEW k \in 1..Len(tree[p]), NEW c, c = tree[p][k]
  PROVE  /\ Without(c) \in [Parents -> Seq(Channel)]
         /\ Without(c)[p] = RemoveAt(tree[p], k)
         /\ \A q \in Parents : q # p => Without(c)[q] = tree[q]
  <1>1. \A q \in Parents : tree[q] \in Seq(Channel) /\ DOMAIN tree[q] = 1..Len(tree[q])
    BY DEF Lists
  <1>2. \A q \in Parents : c \in Range(tree[q]) <=> q = p
    <2>1. \A q \in Parents : c \in Range(tree[q]) <=> \E j \in 1..Len(tree[q]) : tree[q][j] = c
      BY <1>1 DEF Range
    <2> QED
      BY <2>1 DEF Lists
  <1>3. (CHOOSE i \in DOMAIN tree[p] : tree[p][i] = c) = k
    <2>1. k \in DOMAIN tree[p] /\ \A j \in DOMAIN tree[p] : tree[p][j] = c <=> j = k
      BY <1>1 DEF Lists
    <2> QED
      BY <2>1
  <1> DEFINE W(q) == IF c \in Range(tree[q])
                     THEN RemoveAt(tree[q], CHOOSE i \in DOMAIN tree[q] : tree[q][i] = c)
                     ELSE tree[q]
  <1>4. Without(c) = [q \in Parents |-> W(q)]
    BY DEF Without
  <1>5. W(p) = RemoveAt(tree[p], k)
    BY <1>2, <1>3
  <1>6. \A q \in Parents : q # p => W(q) = tree[q]
    BY <1>2
  <1> HIDE DEF W
  <1>7. RemoveAt(tree[p], k) \in Seq(Channel)
    BY <1>1, Removed
  <1>8. \A q \in Parents : W(q) \in Seq(Channel)
    BY <1>1, <1>5, <1>6, <1>7
  <1> QED
    BY <1>4, <1>5, <1>6, <1>8

\* What is left of the tree, and of the model of it, without c and all under it.
LEMMA TreeCut ==
  ASSUME Lists(tree), FitsBut(tree, channels, {}), NEW c \in Channel, Exists(c),
         NEW gone, gone = Under(c),
         NEW rest, rest = [d \in Channel |-> IF d \in gone THEN Gone ELSE channels[d]],
         NEW u, u = [p \in Parents |-> IF p \in gone THEN <<>> ELSE Without(c)[p]],
         NEW f, f = RelinkOnLeave(rest, c, channels[c])
  PROVE  /\ Lists(u) /\ FitsBut(u, f, {}) /\ rest \in Models
         /\ channels[c] \in Places /\ channels[c] # Gone
  <1> DEFINE at == channels[c]
             w == Without(c)
             L == RelinkOnLeave(channels, c, at)
  <1>1. channels \in Models /\ \A p \in Parents : tree[p] \in Seq(Channel) /\ DOMAIN tree[p] = 1..Len(tree[p])
    BY DEF Lists, FitsBut
  <1>2. PICK p \in Parents : c \in Range(tree[p])
    BY DEF Exists
  <1>3. PICK k \in 1..Len(tree[p]) : c = tree[p][k]
    BY <1>1, <1>2 DEF Range
  <1>4. /\ w \in [Parents -> Seq(Channel)] /\ w[p] = RemoveAt(tree[p], k)
        /\ \A q \in Parents : q # p => w[q] = tree[q]
    BY <1>3, WithoutIs
  <1>5. at = Place(p, Above(tree[p], k))
    BY <1>3 DEF FitsBut
  <1>6. at \in Places /\ at # Gone /\ at.parent \in Parents /\ at = Place(at.parent, at.order)
    <2>1. at \in Places
      BY <1>1 DEF Models
    <2>2. at.parent = p
      BY <1>5 DEF Place
    <2>3. at # Gone
      <3> HIDE DEF at
      <3> QED
        BY <2>2, PlacesAre
    <2> HIDE DEF at
    <2> QED
      BY <2>1, <2>2, <2>3, PlacesAre
  <1> HIDE DEF w
  <1>7. Lists(w) /\ FitsBut(w, L, {c})
    BY <1>3, <1>4, TakenOut
  <1>8. \A d \in Channel : L[d].parent = channels[d].parent
    BY <1>1, <1>6, RelinkKeeps
  <1>9. /\ gone \subseteq Channel /\ c \in gone
        /\ \A e \in Channel : channels[e].parent \in gone => e \in gone
        /\ \A e \in gone : e # c => channels[e].parent \in gone
    BY UnderIs
  <1>10. rest \in Models
    <2>1. \A d \in Channel : (IF d \in gone THEN Gone ELSE channels[d]) \in Places
      BY <1>1, PlacesAre DEF Models
    <2> QED
      BY <2>1 DEF Models
  <1>11. f \in Models
    BY <1>6, <1>10, RelinkKeeps
  <1>12. \A d \in Channel : d \in gone => f[d] = Gone
    <2>1. \A d \in Channel : d \in gone => rest[d] = Gone
      OBVIOUS
    <2> QED
      BY <1>6, <1>10, <2>1, RelinkKeeps
  <1>13. ASSUME NEW d \in Channel, d \notin gone
         PROVE  f[d] = L[d]
    <2>1. rest[d] = channels[d]
      BY <1>13
    <2>2. f[d] = IF d # c /\ rest[d].parent = at.parent /\ rest[d].order = c
                 THEN Place(at.parent, at.order) ELSE rest[d]
      BY DEF RelinkOnLeave
    <2>3. L[d] = IF d # c /\ channels[d].parent = at.parent /\ channels[d].order = c
                 THEN Place(at.parent, at.order) ELSE channels[d]
      BY DEF RelinkOnLeave
    <2> HIDE DEF at, L
    <2> QED
      BY <2>1, <2>2, <2>3
  <1>14. /\ \A q \in Parents : u[q] = IF q \in gone THEN <<>> ELSE w[q]
         /\ u \in [Parents -> Seq(Channel)]
    <2>1. \A q \in Parents : (IF q \in gone THEN <<>> ELSE w[q]) \in Seq(Channel)
      BY <1>4
    <2>2. u = [q \in Parents |-> IF q \in gone THEN <<>> ELSE w[q]]
      BY DEF w
    <2> QED
      BY <2>1, <2>2
  <1> HIDE DEF L, at
  <1>15. ASSUME NEW q \in Parents, NEW i \in 1..Len(u[q])
         PROVE  q \notin gone /\ u[q] = w[q] /\ i \in 1..Len(w[q]) /\ u[q][i] \in Channel
    <2>1. q \notin gone
      <3>1. ASSUME q \in gone
            PROVE  FALSE
        <4>1. u[q] = <<>>
          BY <1>14, <3>1
        <4> QED
          BY <4>1
      <3> QED
        BY <3>1
    <2> QED
      BY <1>14, <2>1
  <1>16. Lists(u)
    <2>1. ASSUME NEW q \in Parents, NEW z \in Parents, NEW i \in 1..Len(u[q]), NEW j \in 1..Len(u[z]),
                 u[q][i] = u[z][j]
          PROVE  q = z /\ i = j
      <3>1. u[q] = w[q] /\ u[z] = w[z] /\ i \in 1..Len(w[q]) /\ j \in 1..Len(w[z])
        BY <1>15
      <3>2. w[q][i] = w[z][j]
        BY <2>1, <3>1
      <3> QED
        BY <1>7, <3>1, <3>2 DEF Lists
    <2> QED
      BY <1>14, <2>1 DEF Lists
  <1>17. ASSUME NEW q \in Parents, NEW i \in 1..Len(u[q])
         PROVE  f[u[q][i]] = Place(q, Above(u[q], i))
    <2> DEFINE d == u[q][i]
    <2>1. q \notin gone /\ u[q] = w[q] /\ i \in 1..Len(w[q]) /\ d \in Channel /\ d = w[q][i]
      BY <1>15
    <2>2. d # c
      <3>1. ~Listed(w, c)
        BY <1>3, <1>4, TakenOut
      <3> QED
        BY <2>1, <3>1 DEF Listed
    <2> HIDE DEF d
    <2>3. L[d] = Place(q, Above(w[q], i))
      BY <1>7, <2>1, <2>2 DEF FitsBut
    <2>4. channels[d].parent = q
      <3>1. L[d].parent = q
        BY <2>3, PlacesAre
      <3> QED
        BY <1>8, <2>1, <3>1
    <2>5. d \notin gone
      BY <1>9, <2>1, <2>2, <2>4
    <2> QED
      BY <1>13, <2>1, <2>3, <2>5 DEF d
  <1>18. ASSUME NEW d \in Channel, ~Listed(u, d)
         PROVE  f[d] = Gone
    <2>1. CASE d \in gone
      BY <1>12, <2>1
    <2>2. CASE d \notin gone
      <3>1. ASSUME NEW q \in Parents, NEW i \in 1..Len(w[q]), w[q][i] = d
            PROVE  FALSE
        <4>1. CASE q \in gone
          <5>1. L[d] = Place(q, Above(w[q], i))
            BY <1>7, <1>9, <2>2, <3>1 DEF FitsBut
          <5>2. L[d].parent = q
            BY <5>1, PlacesAre
          <5> QED
            BY <1>8, <1>9, <2>2, <4>1, <5>2
        <4>2. CASE q \notin gone
          <5>1. u[q] = w[q]
            BY <1>14, <4>2
          <5> QED
            BY <1>18, <3>1, <5>1 DEF Listed
        <4> QED
          BY <4>1, <4>2
      <3>2. ~Listed(w, d)
        BY <3>1 DEF Listed
      <3>3. d # c
        BY <1>9, <2>2
      <3>4. L[d] = Gone
        BY <1>7, <3>2, <3>3 DEF FitsBut
      <3> QED
        BY <1>13, <2>2, <3>4
    <2> QED
      BY <2>1, <2>2
  <1>19. FitsBut(u, f, {})
    BY <1>11, <1>17, <1>18 DEF FitsBut
  <1> QED
    BY <1>6, <1>10, <1>16, <1>19 DEF at

-----------------------------------------------------------------------------
(* What the page makes of the patches.                                     *)

TreeMsgs ==
  [kind : {"added", "removed"}, id : Channel, at : Places]
    \cup [kind : {"placed", "ordered"}, id : Channel, at : Places \ {Gone}]
    \cup [kind : {"snapshot"}, all : Models]

PageReads ==
  [g \in Models |-> [x \in TreeMsgs |->
     IF x.kind = "snapshot" THEN x.all
     ELSE IF x.kind \in {"added", "removed"} THEN Put(g, x.id, x.at)
     ELSE IF g[x.id] = Gone THEN g
     ELSE IF x.kind = "placed" THEN Put(g, x.id, x.at)
     ELSE Put(g, x.id, Place(g[x.id].parent, x.at.order))]]

LEMMA ReadsSet ==
  ASSUME NEW g \in Models, NEW k \in {"added", "removed"}, NEW d \in Channel, NEW at \in Places
  PROVE  /\ [kind |-> k, id |-> d, at |-> at] \in TreeMsgs
         /\ PageReads[g][[kind |-> k, id |-> d, at |-> at]] = Put(g, d, at)
  <1> DEFINE x == [kind |-> k, id |-> d, at |-> at]
  <1>1. x \in TreeMsgs /\ x.kind \in {"added", "removed"} /\ x.kind # "snapshot" /\ x.id = d /\ x.at = at
    BY DEF TreeMsgs
  <1> HIDE DEF x
  <1>2. PageReads[g][x] = Put(g, x.id, x.at)
    BY <1>1 DEF PageReads
  <1> QED
    BY <1>1, <1>2 DEF x

LEMMA ReadsPlaced ==
  ASSUME NEW g \in Models, NEW d \in Channel, NEW at \in Places, at # Gone, g[d] # Gone
  PROVE  /\ [kind |-> "placed", id |-> d, at |-> at] \in TreeMsgs
         /\ PageReads[g][[kind |-> "placed", id |-> d, at |-> at]] = Put(g, d, at)
  <1> DEFINE x == [kind |-> "placed", id |-> d, at |-> at]
  <1>1. x \in TreeMsgs /\ x.kind = "placed" /\ x.id = d /\ x.at = at
    BY DEF TreeMsgs
  <1> HIDE DEF x
  <1>2. PageReads[g][x] = Put(g, x.id, x.at)
    BY <1>1 DEF PageReads
  <1> QED
    BY <1>1, <1>2 DEF x

LEMMA ReadsOrdered ==
  ASSUME NEW d \in Channel, NEW at \in Places, at # Gone
  PROVE  /\ [kind |-> "ordered", id |-> d, at |-> at] \in TreeMsgs
         /\ \A g \in Models : g[d] # Gone /\ g[d].parent = at.parent =>
              PageReads[g][[kind |-> "ordered", id |-> d, at |-> at]] = Put(g, d, at)
  <1> DEFINE x == [kind |-> "ordered", id |-> d, at |-> at]
  <1>1. x \in TreeMsgs /\ x.kind = "ordered" /\ x.id = d /\ x.at = at
    BY DEF TreeMsgs
  <1>2. at = Place(at.parent, at.order)
    BY PlacesAre
  <1> HIDE DEF x
  <1>3. ASSUME NEW g \in Models, g[d] # Gone, g[d].parent = at.parent
        PROVE  PageReads[g][x] = Put(g, d, at)
    <2>1. PageReads[g][x] = Put(g, x.id, Place(g[x.id].parent, x.at.order))
      BY <1>1, <1>3 DEF PageReads
    <2>2. Place(g[x.id].parent, x.at.order) = at
      BY <1>1, <1>2, <1>3
    <2> QED
      BY <1>1, <2>1, <2>2
  <1> QED
    BY <1>1, <1>3 DEF x

\* The patches of a fix lead a page that has the channels as they were to what they are.
LEMMA PatchesLead ==
  ASSUME NEW m \in Models, NEW fixed \in Models, NEW a \in Models, NEW b \in Models,
         \A d \in Channel : fixed[d] # m[d] =>
           m[d] # Gone /\ fixed[d] # Gone /\ fixed[d].parent = m[d].parent
             /\ a[d] = m[d] /\ b[d] = fixed[d],
         \A d \in Channel : fixed[d] = m[d] => a[d] = b[d]
  PROVE  Patches(m, fixed) \in Seq(TreeMsgs) /\ Leads(PageReads, Patches(m, fixed), a, b)
  <1> DEFINE K == {d \in Channel : fixed[d] # m[d]}
             q == SetToSeq(K)
             s == Patches(m, fixed)
             Msg1(d) == [kind |-> "ordered", id |-> d, at |-> fixed[d]]
  <1>1. IsFiniteSet(K) /\ K \subseteq Channel
    BY TreeAssumption, FS_Subset
  <1>2. q \in Seq(K) /\ Len(q) \in Nat
    BY <1>1, InOrder
  <1>3. s = [i \in DOMAIN q |-> Msg1(q[i])]
    BY DEF Patches
  <1>4. Once(q, K)
    BY <1>1, OnceEach
  <1> HIDE DEF s, q
  <1>5. DOMAIN q = 1..Len(q) /\ \A i \in 1..Len(q) : q[i] \in K
    BY <1>2
  <1>6. \A i \in 1..Len(q) : /\ q[i] \in Channel /\ s[i] = Msg1(q[i])
                             /\ fixed[q[i]] \in Places /\ fixed[q[i]] # Gone
                             /\ a[q[i]] # Gone /\ a[q[i]].parent = fixed[q[i]].parent
                             /\ b[q[i]] = fixed[q[i]]
    <2>1. \A i \in 1..Len(q) : q[i] \in Channel /\ fixed[q[i]] # m[q[i]]
      BY <1>5
    <2>2. \A i \in 1..Len(q) : s[i] = Msg1(q[i])
      BY <1>3, <1>5
    <2> HIDE DEF Msg1
    <2> QED
      BY <2>1, <2>2 DEF Models
  <1> HIDE DEF K
  <1>7. ASSUME NEW i \in 1..Len(q)
        PROVE  /\ s[i] \in TreeMsgs
               /\ \A g \in Models : g[q[i]] = a[q[i]] => PageReads[g][s[i]] = Put(g, q[i], b[q[i]])
    <2> DEFINE d == q[i]
               at == fixed[q[i]]
    <2>1. /\ d \in Channel /\ at \in Places /\ at # Gone /\ a[d] # Gone /\ a[d].parent = at.parent
          /\ b[d] = at /\ s[i] = Msg1(d)
      BY <1>6
    <2>2. s[i] = [kind |-> "ordered", id |-> d, at |-> at]
      BY <2>1
    <2> HIDE DEF d, at, Msg1
    <2>3. /\ s[i] \in TreeMsgs
          /\ \A g \in Models : g[d] # Gone /\ g[d].parent = at.parent =>
               PageReads[g][s[i]] = Put(g, d, at)
      BY <2>1, <2>2, ReadsOrdered
    <2>4. \A g \in Models : g[d] = a[d] => PageReads[g][s[i]] = Put(g, d, b[d])
      BY <2>1, <2>3
    <2> QED
      BY <2>3, <2>4 DEF d
  <1>8. s \in Seq(TreeMsgs) /\ Len(s) = Len(q)
    <2>1. s = [i \in 1..Len(q) |-> s[i]]
      BY <1>3, <1>5
    <2>2. s \in [1..Len(q) -> TreeMsgs]
      BY <1>7, <2>1
    <2> QED
      BY <1>2, <2>2
  <1>9. Differ(Channel, a, b) \subseteq K
    BY DEF Differ, K
  <1>10. SetsEach(PageReads, Channel, Places, s, q, a, b)
    BY <1>7, <1>8 DEF SetsEach, Models
  <1>11. a \in [Channel -> Places] /\ b \in [Channel -> Places]
    BY DEF Models
  <1>12. Leads(PageReads, s, a, b)
    BY <1>1, <1>4, <1>9, <1>10, <1>11, LeadsEach
  <1> QED
    BY <1>8, <1>12 DEF s

-----------------------------------------------------------------------------
(* The hub has the server's order, and its messages lead the page there.   *)

TreeInv ==
  /\ Lists(tree) /\ FitsBut(tree, channels, {})
  /\ pageChannels \in Models /\ treeFeed \in Seq(TreeMsgs)
  /\ snapshotSent \in BOOLEAN /\ treeChanges \in Nat
  /\ ~snapshotSent => treeFeed = <<>>
  /\ snapshotSent => Leads(PageReads, treeFeed, pageChannels, channels)

\* What is told of a change leads the page there, or waits for the snapshot.
LEMMA ChangeTold ==
  ASSUME TreeInv, NEW t, Lists(t), NEW m, FitsBut(t, m, {}), NEW s \in Seq(TreeMsgs),
         Leads(PageReads, s, channels, m), Changes(t, m, s)
  PROVE  TreeInv'
  <1>1. /\ pageChannels \in Models /\ treeFeed \in Seq(TreeMsgs)
        /\ snapshotSent \in BOOLEAN /\ treeChanges \in Nat /\ (~snapshotSent => treeFeed = <<>>)
    BY DEF TreeInv
  <1>2. /\ tree' = t /\ channels' = m /\ treeChanges' = treeChanges + 1
        /\ snapshotSent' = snapshotSent /\ pageChannels' = pageChannels
        /\ treeFeed' = IF snapshotSent THEN treeFeed \o s ELSE treeFeed
    BY DEF Changes
  <1>3. CASE snapshotSent
    <2>1. treeFeed' = treeFeed \o s
      BY <1>2, <1>3
    <2>2. Leads(PageReads, treeFeed, pageChannels, channels)
      BY <1>3 DEF TreeInv
    <2>3. Leads(PageReads, treeFeed \o s, pageChannels, m)
      BY <1>1, <2>2, LeadsOn
    <2>4. treeFeed \o s \in Seq(TreeMsgs)
      BY <1>1
    <2> QED
      BY <1>1, <1>2, <1>3, <2>1, <2>3, <2>4 DEF TreeInv
  <1>4. CASE ~snapshotSent
    BY <1>1, <1>2, <1>4 DEF TreeInv
  <1> QED
    BY <1>1, <1>3, <1>4

\* A change whose first message sets what the page has of c, and whose patches tell of
\* the others.
LEMMA OneAndPatches ==
  ASSUME channels \in Models, NEW c \in Channel, NEW at \in Places, at # Gone,
         NEW fixed \in Models, fixed[c] = channels[c],
         \A d \in Channel : fixed[d].parent = channels[d].parent,
         \A d \in Channel : fixed[d] # channels[d] => channels[d] # Gone,
         NEW x \in TreeMsgs, PageReads[channels][x] = Put(channels, c, at)
  PROVE  /\ <<x>> \o Patches(channels, fixed) \in Seq(TreeMsgs)
         /\ Leads(PageReads, <<x>> \o Patches(channels, fixed), channels, [fixed EXCEPT ![c] = at])
  <1> DEFINE a == Put(channels, c, at)
             b == [fixed EXCEPT ![c] = at]
             s == Patches(channels, fixed)
  <1>1. /\ a \in Models /\ b \in Models /\ a[c] = at /\ b[c] = at
        /\ \A d \in Channel : d # c => a[d] = channels[d] /\ b[d] = fixed[d]
    BY DEF Put, Models
  <1> HIDE DEF a, b
  <1>2. ASSUME NEW d \in Channel, fixed[d] # channels[d]
        PROVE  channels[d] # Gone /\ fixed[d] # Gone /\ fixed[d].parent = channels[d].parent
                 /\ a[d] = channels[d] /\ b[d] = fixed[d]
    <2>1. d # c /\ channels[d] # Gone /\ channels[d] \in Places
      BY <1>2 DEF Models
    <2>2. channels[d].parent \in Parents
      BY <2>1, PlacesAre
    <2>3. fixed[d] # Gone
      BY <2>2, PlacesAre
    <2> QED
      BY <1>1, <2>1, <2>3
  <1>3. \A d \in Channel : fixed[d] = channels[d] => a[d] = b[d]
    BY <1>1
  <1>4. s \in Seq(TreeMsgs) /\ Leads(PageReads, s, a, b)
    BY <1>1, <1>2, <1>3, PatchesLead
  <1>5. Leads(PageReads, <<x>>, channels, a)
    <2>1. Leads(PageReads, <<x>>, channels, PageReads[channels][x])
      BY LeadsOne
    <2> QED
      BY <2>1 DEF a
  <1>6. <<x>> \in Seq(TreeMsgs)
    OBVIOUS
  <1> HIDE DEF s
  <1>7. <<x>> \o s \in Seq(TreeMsgs)
    BY <1>4, <1>6
  <1>8. Leads(PageReads, <<x>> \o s, channels, b)
    BY <1>4, <1>5, <1>6, LeadsOn
  <1> QED
    BY <1>7, <1>8 DEF s, b

LEMMA ExistsListed == ASSUME Lists(tree), NEW c
                      PROVE  Exists(c) <=> Listed(tree, c)
  <1>1. \A q \in Parents : DOMAIN tree[q] = 1..Len(tree[q])
    BY DEF Lists
  <1> QED
    BY <1>1 DEF Exists, Listed, Range

LEMMA CreateKept ==
  ASSUME TreeInv, NEW c \in Channel, NEW p \in Parents, NEW i \in Nat, i >= 1, CreateChannel(c, p, i)
  PROVE  TreeInv'
  <1> DEFINE t == [tree EXCEPT ![p] = InsertAt(@, i, c)]
             at == PlaceIn(t, c)
             fixed == RelinkOnEnter(channels, c, at)
             new == [fixed EXCEPT ![c] = at]
             x == [kind |-> "added", id |-> c, at |-> at]
             s == <<x>> \o Patches(channels, fixed)
  <1>1. Lists(tree) /\ FitsBut(tree, channels, {}) /\ channels \in Models
    BY DEF TreeInv, FitsBut
  <1>2. ~Exists(c) /\ i <= Len(tree[p]) + 1 /\ Changes(t, new, s)
    BY DEF CreateChannel
  <1>3. ~Listed(tree, c)
    BY <1>1, <1>2, ExistsListed
  <1>4. FitsBut(tree, channels, {c})
    BY <1>1 DEF FitsBut
  <1>5. tree[p] \in Seq(Channel) /\ i \in 1..(Len(tree[p]) + 1) /\ tree \in [Parents -> Seq(Channel)]
    <2>1. tree[p] \in Seq(Channel) /\ tree \in [Parents -> Seq(Channel)]
      BY <1>1 DEF Lists
    <2>2. Len(tree[p]) \in Nat
      BY <2>1
    <2> QED
      BY <1>2, <2>1, <2>2
  <1>6. /\ t \in [Parents -> Seq(Channel)] /\ t[p] = InsertAt(tree[p], i, c)
        /\ \A q \in Parents : q # p => t[q] = tree[q]
    <2>1. InsertAt(tree[p], i, c) \in Seq(Channel)
      BY <1>5, Inserted
    <2> QED
      BY <1>5, <2>1
  <1> HIDE DEF t
  <1>7. Lists(t) /\ FitsBut(t, new, {}) /\ at \in Places /\ at # Gone
    BY <1>1, <1>3, <1>4, <1>5, <1>6, PutInto
  <1> HIDE DEF at
  <1>8. /\ fixed \in Models /\ fixed[c] = channels[c]
        /\ \A d \in Channel : fixed[d].parent = channels[d].parent
        /\ \A d \in Channel : fixed[d] # channels[d] => channels[d] # Gone
    BY <1>1, <1>7, RelinkKeeps
  <1>9. x \in TreeMsgs /\ PageReads[channels][x] = Put(channels, c, at)
    BY <1>1, <1>7, ReadsSet
  <1> HIDE DEF fixed, x
  <1>10. s \in Seq(TreeMsgs) /\ Leads(PageReads, s, channels, new)
    BY <1>1, <1>7, <1>8, <1>9, OneAndPatches
  <1> HIDE DEF s, new
  <1> QED
    BY <1>2, <1>7, <1>10, ChangeTold

LEMMA MoveKept ==
  ASSUME TreeInv, NEW c \in Channel, NEW p \in Parents, NEW i \in Nat, i >= 1, MoveChannel(c, p, i)
  PROVE  TreeInv'
  <1> DEFINE w == Without(c)
             t == [w EXCEPT ![p] = InsertAt(@, i, c)]
             at == PlaceIn(t, c)
             L == RelinkOnLeave(channels, c, channels[c])
             fixed == RelinkOnMove(channels, c, at)
             new == [fixed EXCEPT ![c] = at]
             x == [kind |-> "placed", id |-> c, at |-> at]
             s == <<x>> \o Patches(channels, fixed)
  <1>1. Lists(tree) /\ FitsBut(tree, channels, {}) /\ channels \in Models
    BY DEF TreeInv, FitsBut
  <1>2. Exists(c) /\ i <= Len(w[p]) + 1 /\ Changes(t, new, s)
    BY DEF MoveChannel
  <1>3. Listed(tree, c)
    BY <1>1, <1>2, ExistsListed
  <1>4. PICK z \in Parents : \E k \in 1..Len(tree[z]) : tree[z][k] = c
    BY <1>3 DEF Listed
  <1>5. PICK k \in 1..Len(tree[z]) : c = tree[z][k]
    BY <1>4
  <1>6. /\ w \in [Parents -> Seq(Channel)] /\ w[z] = RemoveAt(tree[z], k)
        /\ \A q \in Parents : q # z => w[q] = tree[q]
    BY <1>1, <1>5, WithoutIs
  <1>7. channels[c] \in Places /\ channels[c] # Gone
    <2>1. channels[c] = Place(z, Above(tree[z], k))
      BY <1>1, <1>5 DEF FitsBut
    <2>2. channels[c].parent # Nowhere
      BY <2>1, PlacesAre
    <2> QED
      BY <1>1, <2>2, PlacesAre DEF Models
  <1> HIDE DEF w
  <1>8. Lists(w) /\ ~Listed(w, c) /\ FitsBut(w, L, {c})
    BY <1>1, <1>5, <1>6, TakenOut
  <1>9. w[p] \in Seq(Channel) /\ i \in 1..(Len(w[p]) + 1)
    <2>1. w[p] \in Seq(Channel)
      BY <1>6
    <2>2. Len(w[p]) \in Nat
      BY <2>1
    <2> QED
      BY <1>2, <2>1, <2>2
  <1>10. /\ t \in [Parents -> Seq(Channel)] /\ t[p] = InsertAt(w[p], i, c)
         /\ \A q \in Parents : q # p => t[q] = w[q]
    <2>1. InsertAt(w[p], i, c) \in Seq(Channel)
      BY <1>9, Inserted
    <2> QED
      BY <1>6, <2>1
  <1>11. fixed = RelinkOnEnter(L, c, at)
    <2>1. CASE channels[c] = at
      <3>1. fixed = channels
        BY <2>1 DEF RelinkOnMove
      <3>2. RelinkOnEnter(RelinkOnLeave(channels, c, channels[c]), c, channels[c]) = channels
        BY <1>1, <1>7, BackInPlace
      <3> HIDE DEF at, fixed
      <3> QED
        BY <2>1, <3>1, <3>2
    <2>2. CASE channels[c] # at
      BY <2>2 DEF RelinkOnMove
    <2> QED
      BY <2>1, <2>2
  <1> HIDE DEF t, fixed, L
  <1>12. Lists(t) /\ FitsBut(t, new, {}) /\ at \in Places /\ at # Gone
    <2>1. new = [RelinkOnEnter(L, c, at) EXCEPT ![c] = at]
      BY <1>11
    <2> HIDE DEF new
    <2> QED
      BY <1>8, <1>9, <1>10, <2>1, PutInto, ZenonT(40)
  <1> HIDE DEF at
  <1>13. /\ L \in Models /\ L[c] = channels[c]
         /\ \A d \in Channel : L[d].parent = channels[d].parent
         /\ \A d \in Channel : channels[d] = Gone => L[d] = Gone
         /\ \A d \in Channel : L[d] # channels[d] => channels[d] # Gone
    BY <1>1, <1>7, RelinkKeeps DEF L
  <1>14. /\ fixed \in Models /\ fixed[c] = L[c]
         /\ \A d \in Channel : fixed[d].parent = L[d].parent
         /\ \A d \in Channel : fixed[d] # L[d] => L[d] # Gone
    BY <1>11, <1>12, <1>13, RelinkKeeps
  <1>15. x \in TreeMsgs /\ PageReads[channels][x] = Put(channels, c, at)
    BY <1>1, <1>7, <1>12, ReadsPlaced
  <1>16. /\ fixed[c] = channels[c]
         /\ \A d \in Channel : fixed[d].parent = channels[d].parent
         /\ \A d \in Channel : fixed[d] # channels[d] => channels[d] # Gone
    BY <1>13, <1>14
  <1> HIDE DEF x
  <1>17. s \in Seq(TreeMsgs) /\ Leads(PageReads, s, channels, new)
    BY <1>1, <1>12, <1>14, <1>15, <1>16, OneAndPatches
  <1> HIDE DEF s, new
  <1> QED
    BY <1>2, <1>12, <1>17, ChangeTold

\* The messages of those who go.
LEMMA RemovalsLead ==
  ASSUME channels \in Models, NEW gone, gone \subseteq Channel,
         NEW rest, rest = [d \in Channel |-> IF d \in gone THEN Gone ELSE channels[d]],
         rest \in Models,
         NEW s, s = [i \in DOMAIN SetToSeq(gone) |->
                       [kind |-> "removed", id |-> SetToSeq(gone)[i], at |-> Gone]]
  PROVE  s \in Seq(TreeMsgs) /\ Leads(PageReads, s, channels, rest)
  <1> DEFINE q == SetToSeq(gone)
             Msg1(d) == [kind |-> "removed", id |-> d, at |-> Gone]
  <1>1. IsFiniteSet(gone)
    BY TreeAssumption, FS_Subset
  <1>2. q \in Seq(gone) /\ Len(q) \in Nat
    BY <1>1, InOrder
  <1>3. s = [i \in DOMAIN q |-> Msg1(q[i])]
    OBVIOUS
  <1>4. Once(q, gone)
    BY <1>1, OnceEach
  <1> HIDE DEF q
  <1>5. DOMAIN q = 1..Len(q) /\ \A i \in 1..Len(q) : q[i] \in gone /\ q[i] \in Channel
    BY <1>2
  <1>6. \A d \in gone : rest[d] = Gone
    OBVIOUS
  <1>7. ASSUME NEW i \in 1..Len(q)
        PROVE  /\ s[i] \in TreeMsgs
               /\ \A g \in Models : PageReads[g][s[i]] = Put(g, q[i], rest[q[i]])
    <2> DEFINE d == q[i]
    <2>1. d \in Channel /\ s[i] = Msg1(d) /\ rest[d] = Gone /\ Gone \in Places
      BY <1>3, <1>5, <1>6, PlacesAre
    <2> HIDE DEF d
    <2>2. \A g \in Models : Msg1(d) \in TreeMsgs /\ PageReads[g][Msg1(d)] = Put(g, d, Gone)
      BY <2>1, ReadsSet
    <2>3. \A g \in Models : PageReads[g][s[i]] = Put(g, d, rest[d])
      BY <2>1, <2>2
    <2> QED
      BY <2>1, <2>2, <2>3 DEF d
  <1>8. s \in Seq(TreeMsgs) /\ Len(s) = Len(q)
    <2>1. s = [i \in 1..Len(q) |-> s[i]]
      BY <1>3, <1>5
    <2>2. s \in [1..Len(q) -> TreeMsgs]
      BY <1>7, <2>1
    <2> QED
      BY <1>2, <2>2
  <1>9. Differ(Channel, channels, rest) \subseteq gone
    BY DEF Differ
  <1>10. SetsEach(PageReads, Channel, Places, s, q, channels, rest)
    BY <1>7, <1>8 DEF SetsEach, Models
  <1>11. channels \in [Channel -> Places] /\ rest \in [Channel -> Places]
    BY DEF Models
  <1>12. Leads(PageReads, s, channels, rest)
    BY <1>4, <1>9, <1>10, <1>11, LeadsEach
  <1> QED
    BY <1>8, <1>12

LEMMA DeleteKept ==
  ASSUME TreeInv, NEW c \in Channel, DeleteChannel(c)
  PROVE  TreeInv'
  <1> DEFINE gone == Under(c)
             removed == SetToSeq(gone)
             rest == [d \in Channel |-> IF d \in gone THEN Gone ELSE channels[d]]
             fixed == RelinkOnLeave(rest, c, channels[c])
             u == [p \in Parents |-> IF p \in gone THEN <<>> ELSE Without(c)[p]]
             s == [i \in DOMAIN removed |-> [kind |-> "removed", id |-> removed[i], at |-> Gone]]
  <1>1. Lists(tree) /\ FitsBut(tree, channels, {}) /\ channels \in Models
    BY DEF TreeInv, FitsBut
  <1>2. Exists(c) /\ Changes(u, fixed, s \o Patches(rest, fixed))
    BY DEF DeleteChannel
  <1>3. /\ Lists(u) /\ FitsBut(u, fixed, {}) /\ rest \in Models
        /\ channels[c] \in Places /\ channels[c] # Gone
    BY <1>1, <1>2, TreeCut
  <1>4. gone \subseteq Channel
    BY UnderIs
  <1>5. s \in Seq(TreeMsgs) /\ Leads(PageReads, s, channels, rest)
    <2> HIDE DEF gone
    <2> QED
      BY <1>1, <1>3, <1>4, RemovalsLead
  <1> HIDE DEF s, rest, u, gone
  <1>6. /\ fixed \in Models
        /\ \A d \in Channel : fixed[d].parent = rest[d].parent
        /\ \A d \in Channel : fixed[d] # rest[d] => rest[d] # Gone
    BY <1>3, RelinkKeeps
  <1> HIDE DEF fixed
  <1>7. ASSUME NEW d \in Channel, fixed[d] # rest[d]
        PROVE  rest[d] # Gone /\ fixed[d] # Gone /\ fixed[d].parent = rest[d].parent
    <2>1. rest[d] # Gone /\ rest[d] \in Places
      BY <1>3, <1>6, <1>7 DEF Models
    <2>2. rest[d].parent \in Parents
      BY <2>1, PlacesAre
    <2> QED
      BY <1>6, <2>1, <2>2, PlacesAre
  <1>8. Patches(rest, fixed) \in Seq(TreeMsgs) /\ Leads(PageReads, Patches(rest, fixed), rest, fixed)
    BY <1>3, <1>6, <1>7, PatchesLead
  <1>9. /\ s \o Patches(rest, fixed) \in Seq(TreeMsgs)
        /\ Leads(PageReads, s \o Patches(rest, fixed), channels, fixed)
    <2>1. Leads(PageReads, s \o Patches(rest, fixed), channels, fixed)
      BY <1>5, <1>8, LeadsOn
    <2> QED
      BY <1>5, <1>8, <2>1
  <1> QED
    BY <1>2, <1>3, <1>9, ChangeTold

LEMMA SendSnapshotKept == ASSUME TreeInv, SendSnapshot
                          PROVE  TreeInv'
  <1> DEFINE x == [kind |-> "snapshot", all |-> channels]
  <1>1. /\ Lists(tree) /\ FitsBut(tree, channels, {}) /\ channels \in Models
        /\ pageChannels \in Models /\ treeChanges \in Nat
    BY DEF TreeInv, FitsBut
  <1>2. /\ snapshotSent' = TRUE /\ treeFeed' = <<x>>
        /\ tree' = tree /\ treeChanges' = treeChanges /\ channels' = channels
        /\ pageChannels' = pageChannels
    BY DEF SendSnapshot
  <1>3. x \in TreeMsgs /\ x.kind = "snapshot" /\ x.all = channels
    BY <1>1 DEF TreeMsgs
  <1> HIDE DEF x
  <1>4. PageReads[pageChannels][x] = channels
    BY <1>1, <1>3 DEF PageReads
  <1>5. Leads(PageReads, <<x>>, pageChannels, channels)
    <2>1. Leads(PageReads, <<x>>, pageChannels, PageReads[pageChannels][x])
      BY LeadsOne
    <2> QED
      BY <1>4, <2>1
  <1>6. <<x>> \in Seq(TreeMsgs)
    BY <1>3
  <1>7. treeFeed' \in Seq(TreeMsgs) /\ Leads(PageReads, treeFeed', pageChannels', channels')
    BY <1>2, <1>5, <1>6
  <1> QED
    BY <1>1, <1>2, <1>7 DEF TreeInv

LEMMA PageChannelsKept == ASSUME TreeInv, PageChannels
                          PROVE  TreeInv'
  <1> DEFINE m == Head(treeFeed)
  <1>1. /\ Lists(tree) /\ FitsBut(tree, channels, {}) /\ channels \in Models
        /\ pageChannels \in Models /\ treeChanges \in Nat /\ treeFeed \in Seq(TreeMsgs)
        /\ snapshotSent \in BOOLEAN
    BY DEF TreeInv, FitsBut
  <1>2. /\ treeFeed # <<>> /\ treeFeed' = Tail(treeFeed)
        /\ tree' = tree /\ treeChanges' = treeChanges /\ channels' = channels
        /\ snapshotSent' = snapshotSent
        /\ m.kind = "snapshot" => pageChannels' = m.all
        /\ m.kind \in {"added", "removed"} => pageChannels' = [pageChannels EXCEPT ![m.id] = m.at]
        /\ m.kind \in {"placed", "ordered"} /\ pageChannels[m.id] = Gone =>
             pageChannels' = pageChannels
        /\ m.kind = "placed" /\ pageChannels[m.id] # Gone =>
             pageChannels' = [pageChannels EXCEPT ![m.id] = m.at]
        /\ m.kind = "ordered" /\ pageChannels[m.id] # Gone =>
             pageChannels' = [pageChannels EXCEPT ![m.id].order = m.at.order]
    <2> DEFINE A == [pageChannels EXCEPT ![m.id] = m.at]
               B == [pageChannels EXCEPT ![m.id].order = m.at.order]
    <2>1. /\ treeFeed # <<>> /\ treeFeed' = Tail(treeFeed)
          /\ tree' = tree /\ treeChanges' = treeChanges /\ channels' = channels
          /\ snapshotSent' = snapshotSent
      BY DEF PageChannels
    <2>2. pageChannels' = IF m.kind \in {"placed", "ordered"} /\ pageChannels[m.id] = Gone
                          THEN pageChannels
                          ELSE CASE m.kind = "snapshot" -> m.all
                                 [] m.kind = "ordered"  -> B
                                 [] OTHER               -> A
      BY DEF PageChannels
    <2>3. m.kind \in {"snapshot", "added", "removed", "placed", "ordered"}
      <3>1. m \in TreeMsgs
        BY <1>1, <2>1
      <3> HIDE DEF m
      <3> QED
        BY <3>1 DEF TreeMsgs
    <2> HIDE DEF A, B, m
    <2>4. m.kind = "snapshot" => pageChannels' = m.all
      BY <2>2
    <2>5. m.kind \in {"added", "removed"} => pageChannels' = A
      BY <2>2
    <2>6. m.kind \in {"placed", "ordered"} /\ pageChannels[m.id] = Gone => pageChannels' = pageChannels
      BY <2>2
    <2>7. m.kind = "placed" /\ pageChannels[m.id] # Gone => pageChannels' = A
      BY <2>2
    <2>8. m.kind = "ordered" /\ pageChannels[m.id] # Gone => pageChannels' = B
      BY <2>2
    <2> QED
      BY <2>1, <2>4, <2>5, <2>6, <2>7, <2>8 DEF A, B
  <1>3. m \in TreeMsgs /\ treeFeed' \in Seq(TreeMsgs)
    BY <1>1, <1>2
  <1>4. snapshotSent
    BY <1>2 DEF TreeInv
  <1> HIDE DEF m
  <1>5. pageChannels' = PageReads[pageChannels][m] /\ pageChannels' \in Models
    <2>1. \/ m \in [kind : {"added", "removed"}, id : Channel, at : Places]
          \/ m \in [kind : {"placed", "ordered"}, id : Channel, at : Places \ {Gone}]
          \/ m \in [kind : {"snapshot"}, all : Models]
      BY <1>3 DEF TreeMsgs
    <2>2. CASE m \in [kind : {"snapshot"}, all : Models]
      <3>1. m.kind = "snapshot" /\ m.all \in Models
        BY <2>2
      <3>2. PageReads[pageChannels][m] = m.all
        BY <1>1, <1>3, <3>1 DEF PageReads
      <3> QED
        BY <1>2, <3>1, <3>2
    <2>3. CASE m \in [kind : {"added", "removed"}, id : Channel, at : Places]
      <3>1. m.kind \in {"added", "removed"} /\ m.kind # "snapshot" /\ m.id \in Channel /\ m.at \in Places
        BY <2>3
      <3>2. PageReads[pageChannels][m] = Put(pageChannels, m.id, m.at)
        BY <1>1, <1>3, <3>1 DEF PageReads
      <3>3. pageChannels' = Put(pageChannels, m.id, m.at)
        BY <1>2, <3>1 DEF Put
      <3>4. Put(pageChannels, m.id, m.at) \in Models
        BY <1>1, <3>1 DEF Put, Models
      <3> QED
        BY <3>2, <3>3, <3>4
    <2>4. CASE m \in [kind : {"placed", "ordered"}, id : Channel, at : Places \ {Gone}]
      <3>1. /\ m.kind \in {"placed", "ordered"} /\ m.kind # "snapshot"
            /\ m.kind \notin {"added", "removed"} /\ m.id \in Channel /\ m.at \in Places /\ m.at # Gone
        BY <2>4
      <3>2. CASE pageChannels[m.id] = Gone
        <4>1. PageReads[pageChannels][m] = pageChannels
          BY <1>1, <1>3, <3>1, <3>2 DEF PageReads
        <4> QED
          BY <1>1, <1>2, <3>1, <3>2, <4>1
      <3>3. CASE pageChannels[m.id] # Gone /\ m.kind = "placed"
        <4>1. PageReads[pageChannels][m] = Put(pageChannels, m.id, m.at)
          BY <1>1, <1>3, <3>1, <3>3 DEF PageReads
        <4>2. pageChannels' = Put(pageChannels, m.id, m.at)
          BY <1>2, <3>3 DEF Put
        <4>3. Put(pageChannels, m.id, m.at) \in Models
          BY <1>1, <3>1 DEF Put, Models
        <4> QED
          BY <4>1, <4>2, <4>3
      <3>4. CASE pageChannels[m.id] # Gone /\ m.kind = "ordered"
        <4> DEFINE g == pageChannels
                   d == m.id
                   v == Place(g[d].parent, m.at.order)
        <4>1. PageReads[g][m] = Put(g, d, v)
          BY <1>1, <1>3, <3>1, <3>4 DEF PageReads
        <4>2. g[d] \in Places /\ g[d] # Gone
          BY <1>1, <3>1, <3>4 DEF Models
        <4>3. g[d] = Place(g[d].parent, g[d].order) /\ g[d].parent \in Parents /\ m.at.order \in Parents
          BY <3>1, <4>2, PlacesAre
        <4>4. v \in Places
          BY <4>3, PlacesAre
        <4>5. pageChannels' = [g EXCEPT ![d].order = m.at.order]
          BY <1>2, <3>4
        <4>6. [g[d] EXCEPT !.order = m.at.order] = v
          <5> DEFINE e == g[d]
                     o == m.at.order
                     a == e.parent
                     b == e.order
          <5>1. e = [parent |-> a, order |-> b]
            BY <4>3 DEF Place
          <5> HIDE DEF a, b, e, o
          <5>2. [e EXCEPT !.order = o] = [parent |-> a, order |-> o]
            BY <5>1
          <5> QED
            BY <5>2 DEF a, e, o, Place
        <4>7. [g EXCEPT ![d].order = m.at.order] = Put(g, d, v)
          BY <1>1, <3>1, <4>6 DEF Put, Models
        <4>8. Put(g, d, v) \in Models
          <5> HIDE DEF v
          <5> QED
            BY <1>1, <3>1, <4>4 DEF Put, Models
        <4> QED
          BY <4>1, <4>5, <4>7, <4>8
      <3> QED
        BY <3>1, <3>2, <3>3, <3>4
    <2> QED
      BY <2>1, <2>2, <2>3, <2>4
  <1>6. Leads(PageReads, treeFeed', pageChannels', channels')
    <2>1. Leads(PageReads, treeFeed, pageChannels, channels)
      BY <1>4 DEF TreeInv
    <2>2. Leads(PageReads, Tail(treeFeed), PageReads[pageChannels][Head(treeFeed)], channels)
      BY <1>1, <1>2, <2>1, LeadsTail
    <2> QED
      BY <1>2, <1>5, <2>2 DEF m
  <1> QED
    BY <1>1, <1>2, <1>3, <1>4, <1>5, <1>6 DEF TreeInv

LEMMA TreeInvKept == ASSUME TreeInv, [TreeNext]_treeVars
                     PROVE  TreeInv'
  <1>1. ASSUME NEW c \in Channel, NEW p \in Parents, NEW i \in 1..Cardinality(Channel),
               CreateChannel(c, p, i) \/ MoveChannel(c, p, i)
        PROVE  TreeInv'
    <2>1. i \in Nat /\ i >= 1
      BY TreeAssumption, FS_CardinalityType
    <2> QED
      BY <1>1, <2>1, CreateKept, MoveKept
  <1>2. ASSUME NEW c \in Channel, DeleteChannel(c)
        PROVE  TreeInv'
    BY <1>2, DeleteKept
  <1>3. CASE SendSnapshot
    BY <1>3, SendSnapshotKept
  <1>4. CASE PageChannels
    BY <1>4, PageChannelsKept
  <1>5. CASE UNCHANGED treeVars
    BY <1>5 DEF treeVars, TreeInv
  <1> QED
    BY <1>1, <1>2, <1>3, <1>4, <1>5 DEF TreeNext

LEMMA TreeInvInit == TreeInit => TreeInv
  <1> SUFFICES ASSUME TreeInit
               PROVE  TreeInv
    OBVIOUS
  <1> DEFINE q == SetToSeq(Channel)
  <1>1. /\ q \in Seq(Channel)
        /\ \A i, j \in 1..Len(q) : q[i] = q[j] => i = j
    BY TreeAssumption, InOrder
  <1>2. PICK all \in {<<>>, q} : tree = [p \in Parents |-> IF p = Root THEN all ELSE <<>>]
    BY DEF TreeInit
  <1> HIDE DEF q
  <1>3. /\ all \in Seq(Channel)
        /\ \A i, j \in 1..Len(all) : all[i] = all[j] => i = j
    <2>1. CASE all = <<>>
      BY <2>1
    <2>2. CASE all = q
      BY <1>1, <2>2
    <2> QED
      BY <2>1, <2>2
  <1>4. /\ tree \in [Parents -> Seq(Channel)]
        /\ \A p \in Parents : tree[p] = IF p = Root THEN all ELSE <<>>
    <2>1. \A p \in Parents : (IF p = Root THEN all ELSE <<>>) \in Seq(Channel)
      BY <1>3
    <2> QED
      BY <1>2, <2>1
  <1>5. ASSUME NEW p \in Parents, NEW i \in 1..Len(tree[p])
        PROVE  p = Root /\ tree[p] = all
    <2>1. CASE p # Root
      <3>1. tree[p] = <<>>
        BY <1>4, <2>1
      <3> QED
        BY <3>1
    <2>2. CASE p = Root
      BY <1>4, <2>2
    <2> QED
      BY <2>1, <2>2
  <1>6. Lists(tree)
    BY <1>3, <1>4, <1>5 DEF Lists
  <1>7. channels = [c \in Channel |-> PlaceIn(tree, c)]
    BY DEF TreeInit
  <1>8. ASSUME NEW p \in Parents, NEW i \in 1..Len(tree[p])
        PROVE  /\ tree[p][i] \in Channel /\ PlaceIn(tree, tree[p][i]) = Place(p, Above(tree[p], i))
               /\ PlaceIn(tree, tree[p][i]) \in Places
    <2>1. tree[p] \in Seq(Channel)
      BY <1>4
    <2>2. PlaceIn(tree, tree[p][i]) = Place(p, Above(tree[p], i))
      BY <1>6, PlaceFound
    <2>3. Above(tree[p], i) \in Parents
      BY <2>1 DEF Above, Parents
    <2>4. Place(p, Above(tree[p], i)) \in Places
      BY <2>3, PlacesAre
    <2> QED
      BY <2>1, <2>2, <2>4
  <1>9. \A d \in Channel : ~Listed(tree, d) => PlaceIn(tree, d) = Gone
    BY <1>6, PlaceMissing
  <1>10. channels \in Models
    <2>1. \A d \in Channel : PlaceIn(tree, d) \in Places
      BY <1>8, <1>9, PlacesAre DEF Listed
    <2> QED
      BY <1>7, <2>1 DEF Models
  <1>11. FitsBut(tree, channels, {})
    BY <1>7, <1>8, <1>9, <1>10 DEF FitsBut
  <1>12. pageChannels \in Models
    BY PlacesAre DEF TreeInit, Models
  <1>13. treeFeed = <<>> /\ treeFeed \in Seq(TreeMsgs) /\ snapshotSent = FALSE /\ treeChanges = 0
    BY DEF TreeInit
  <1> QED
    BY <1>6, <1>11, <1>12, <1>13 DEF TreeInv

-----------------------------------------------------------------------------
(* The chain that the page sorts siblings by.                              *)

ChainStep(m, S, before) ==
  LET cursor == IF before = <<>> THEN Root ELSE Last(before)
      next == {c \in S \ Range(before) : m[c].order = cursor}
  IN IF next = {} THEN before ELSE Append(before, CHOOSE c \in next : TRUE)

ChainOf(m, S) ==
  CHOOSE f : f = [n \in Nat |-> IF n = 0 THEN <<>> ELSE ChainStep(m, S, f[n - 1])]

SiblingsOf(m, p) == {c \in Channel : m[c] # Gone /\ m[c].parent = p}

Found(m, p) == ChainOf(m, SiblingsOf(m, p))[Cardinality(SiblingsOf(m, p))]

LEMMA SortedBy ==
  ASSUME NEW m, NEW p
  PROVE  SortSiblings(m, p) = Found(m, p) \o SetToSeq(SiblingsOf(m, p) \ Range(Found(m, p)))
  BY DEF SortSiblings, Found, ChainOf, ChainStep, SiblingsOf

LEMMA ChainIs ==
  ASSUME NEW m, NEW S, NEW F, F = [n \in Nat |-> IF n = 0 THEN <<>> ELSE ChainStep(m, S, F[n - 1])]
  PROVE  ChainOf(m, S) = [n \in Nat |-> IF n = 0 THEN <<>> ELSE ChainStep(m, S, ChainOf(m, S)[n - 1])]
  BY DEF ChainOf

\* A set of numbers that is not empty has a least one.
LEMMA LeastOf ==
  ASSUME NEW S \in SUBSET Nat, S # {}
  PROVE  \E x \in S : \A y \in S : x <= y
  <1>1. IsWellFoundedOn(OpToRel(<, Nat), Nat)
    BY NatLessThanWellFounded
  <1>2. PICK x \in S : \A y \in S : ~ (<<y, x>> \in OpToRel(<, Nat))
    BY <1>1, WFMin
  <1>3. \A y \in S : ~ (y < x)
    BY <1>2 DEF OpToRel
  <1> QED
    BY <1>3

\* What the chain reaches: the list that the model was made for.
LEMMA ChainReaches ==
  ASSUME NEW t, Lists(t), NEW m, FitsBut(t, m, {}), NEW p \in Parents
  PROVE  /\ SiblingsOf(m, p) = Range(t[p])
         /\ Found(m, p) = t[p]
  <1> DEFINE s == t[p]
             L == Len(s)
             S == SiblingsOf(m, p)
             F == [n \in Nat |-> IF n <= L THEN SubSeq(s, 1, n) ELSE s]
  <1>1. /\ s \in Seq(Channel) /\ L \in Nat /\ DOMAIN s = 1..L
        /\ \A i \in 1..L : s[i] \in Channel
        /\ \A i, j \in 1..L : s[i] = s[j] => i = j
    BY DEF Lists
  <1>2. \A i \in 1..L : m[s[i]] = Place(p, Above(s, i))
    BY DEF FitsBut
  <1>3. \A i \in 1..L : m[s[i]].parent = p /\ m[s[i]].order = Above(s, i) /\ m[s[i]] # Gone
    <2> HIDE DEF s
    <2>1. \A i \in 1..L : m[s[i]].parent = p /\ m[s[i]].order = Above(s, i)
      BY <1>2, PlacesAre
    <2> QED
      BY <2>1, PlacesAre
  <1>4. ASSUME NEW c \in Channel, m[c] # Gone, m[c].parent = p
        PROVE  \E i \in 1..L : s[i] = c
    <2>1. PICK q \in Parents : \E i \in 1..Len(t[q]) : t[q][i] = c
      BY <1>4 DEF FitsBut, Listed
    <2>2. PICK i \in 1..Len(t[q]) : t[q][i] = c
      BY <2>1
    <2>3. m[c] = Place(q, Above(t[q], i))
      BY <2>2 DEF FitsBut
    <2>4. m[c].parent = q
      BY <2>3, PlacesAre
    <2> QED
      BY <1>4, <2>2, <2>4
  <1>5. \A c : c \in S <=> \E i \in 1..L : s[i] = c
    <2> HIDE DEF s, L
    <2> QED
      BY <1>1, <1>3, <1>4 DEF SiblingsOf
  <1>6. S = Range(s)
    BY <1>1, <1>5 DEF Range
  <1> HIDE DEF S
  <1>7. Cardinality(S) = L
    <2>1. s \in Bijection(1..L, S)
      <3>1. s \in [1..L -> S] /\ (\A a, b \in 1..L : s[a] = s[b] => a = b)
            /\ \A c \in S : \E i \in 1..L : s[i] = c
        <4>1. s = [i \in 1..L |-> s[i]]
          BY <1>1
        <4> QED
          BY <1>1, <1>5, <4>1
      <3> HIDE DEF s
      <3> QED
        BY <3>1, Fun_IsBij
    <2>2. ExistsBijection(1..L, S)
      BY <2>1 DEF ExistsBijection
    <2> HIDE DEF L
    <2> QED
      BY <1>1, <2>2, FS_CountingElements
  <1> HIDE DEF s, L
  <1>8. ASSUME NEW n \in Nat
        PROVE  /\ n <= L => /\ F[n] \in Seq(Channel) /\ Len(F[n]) = n
                            /\ \A i \in 1..n : F[n][i] = s[i]
               /\ n >= L => F[n] = s
    <2>1. CASE n <= L
      <3> DEFINE w == SubSeq(s, 1, n)
      <3>1. F[n] = w
        BY <2>1
      <3>2. w \in Seq(Channel) /\ Len(w) = n /\ \A i \in 1..n : w[i] = s[i]
        BY <1>1, <2>1
      <3>3. n >= L => w = s
        BY <1>1, <2>1, <3>2
      <3> HIDE DEF w, F
      <3> QED
        BY <3>1, <3>2, <3>3
    <2>2. CASE ~(n <= L)
      BY <1>1, <2>2
    <2> QED
      BY <2>1, <2>2
  <1>9. F[0] = <<>>
    <2>1. F[0] \in Seq(Channel) /\ Len(F[0]) = 0
      BY <1>1, <1>8
    <2> HIDE DEF F
    <2> QED
      BY <2>1
  <1>10. \A n \in Nat : n <= L \/ n >= L
    BY <1>1
  <1> HIDE DEF F
  <1>11. ASSUME NEW n \in Nat, n < L
         PROVE  ChainStep(m, S, F[n]) = F[n + 1]
    <2> DEFINE before == F[n]
               cursor == IF before = <<>> THEN Root ELSE Last(before)
               next == {c \in S \ Range(before) : m[c].order = cursor}
               x == s[n + 1]
    <2>1. /\ before \in Seq(Channel) /\ Len(before) = n /\ DOMAIN before = 1..n
          /\ \A i \in 1..n : before[i] = s[i]
      <3>1. n <= L
        BY <1>1, <1>11
      <3>2. F[n] \in Seq(Channel) /\ Len(F[n]) = n /\ \A i \in 1..n : F[n][i] = s[i]
        BY <1>8, <3>1
      <3> QED
        BY <3>2
    <2>2. n + 1 \in 1..L /\ n + 1 \in Nat /\ n + 1 <= L
      BY <1>1, <1>11
    <2>3. cursor = Above(s, n + 1)
      <3>1. CASE n = 0
        <4>1. before = <<>>
          BY <1>9, <3>1
        <4> QED
          BY <3>1, <4>1 DEF Above
      <3>2. CASE n # 0
        <4>1. before # <<>> /\ Last(before) = s[n]
          BY <2>1, <3>2 DEF Last
        <4>2. n + 1 # 1 /\ n + 1 - 1 = n
          BY <3>2
        <4> HIDE DEF before
        <4> QED
          BY <4>1, <4>2 DEF Above
      <3> QED
        BY <3>1, <3>2
    <2> HIDE DEF cursor, before
    <2>4. \A c \in Range(before) : \E i \in 1..n : c = s[i]
      BY <2>1 DEF Range
    <2>5. x \in next
      <3>1. x \in S /\ m[x].order = cursor
        BY <1>3, <1>5, <2>2, <2>3
      <3>2. \A i \in 1..n : i \in 1..L /\ i # n + 1
        BY <1>1, <1>11
      <3>3. x \notin Range(before)
        BY <1>1, <2>2, <2>4, <3>2
      <3> QED
        BY <3>1, <3>3
    <2>6. ASSUME NEW c \in next
          PROVE  c = x
      <3>1. PICK i \in 1..L : s[i] = c
        BY <1>5
      <3>2. m[s[i]].order = Above(s, n + 1)
        BY <2>3, <3>1
      <3>3. c \in Channel /\ x \in Channel
        BY <1>1, <2>2, <3>1
      <3>4. m[c] = m[x]
        <4>1. m[s[i]] = Place(p, Above(s, i)) /\ m[s[i]].order = Above(s, i)
          BY <1>2, <1>3
        <4>2. m[x] = Place(p, Above(s, n + 1))
          BY <1>2, <2>2
        <4> QED
          BY <3>1, <3>2, <4>1, <4>2
      <3>5. m[c] # Gone
        BY <1>3, <3>1
      <3> HIDE DEF x
      <3> QED
        BY <3>3, <3>4, <3>5, OnePlace
    <2>7. (CHOOSE c \in next : TRUE) = x /\ next # {}
      <3> HIDE DEF next, x
      <3> QED
        BY <2>5, <2>6
    <2>8. ChainStep(m, S, before) = Append(before, x)
      <3>1. ChainStep(m, S, before) = IF next = {} THEN before ELSE Append(before, CHOOSE c \in next : TRUE)
        BY DEF ChainStep, cursor
      <3> HIDE DEF next, x
      <3> QED
        BY <2>7, <3>1
    <2>9. Append(before, x) = F[n + 1]
      <3> DEFINE w == F[n + 1]
                 e == Append(before, x)
      <3>1. w \in Seq(Channel) /\ Len(w) = n + 1 /\ \A i \in 1..(n + 1) : w[i] = s[i]
        BY <1>8, <2>2
      <3>2. x \in Channel
        BY <1>1, <2>2
      <3>3. e \in Seq(Channel) /\ Len(e) = n + 1 /\ e[n + 1] = x /\ \A i \in 1..n : e[i] = before[i]
        <4> HIDE DEF x
        <4> QED
          BY <2>1, <3>2
      <3>4. \A i \in 1..(n + 1) : e[i] = s[i]
        BY <2>1, <3>3
      <3> HIDE DEF w, e
      <3>5. w = e
        BY <3>1, <3>3, <3>4
      <3> QED
        BY <3>5 DEF w, e
    <2> QED
      BY <2>8, <2>9 DEF before
  <1>12. ASSUME NEW n \in Nat, n >= L
         PROVE  ChainStep(m, S, F[n]) = F[n + 1]
    <2>1. F[n] = s /\ F[n + 1] = s
      BY <1>1, <1>8, <1>12
    <2> DEFINE cursor == IF s = <<>> THEN Root ELSE Last(s)
    <2>2. {c \in S \ Range(s) : m[c].order = cursor} = {}
      BY <1>6
    <2> HIDE DEF cursor
    <2>3. ChainStep(m, S, s) = s
      BY <2>2 DEF ChainStep, cursor
    <2> QED
      BY <2>1, <2>3
  <1>13. \A n \in Nat : F[n] = IF n = 0 THEN <<>> ELSE ChainStep(m, S, F[n - 1])
    <2>1. ASSUME NEW n \in Nat, n # 0
          PROVE  F[n] = ChainStep(m, S, F[n - 1])
      <3>1. n - 1 \in Nat /\ (n - 1) + 1 = n /\ (n - 1 < L \/ n - 1 >= L)
        BY <1>1, <2>1
      <3> QED
        BY <1>11, <1>12, <3>1
    <2> QED
      BY <1>9, <2>1
  <1>14. F = [n \in Nat |-> IF n = 0 THEN <<>> ELSE ChainStep(m, S, F[n - 1])]
    <2>1. F = [n \in Nat |-> F[n]]
      BY DEF F
    <2>2. [n \in Nat |-> F[n]] = [n \in Nat |-> IF n = 0 THEN <<>> ELSE ChainStep(m, S, F[n - 1])]
      BY <1>13
    <2> QED
      BY <2>1, <2>2
  <1>15. ChainOf(m, S) = [n \in Nat |-> IF n = 0 THEN <<>> ELSE ChainStep(m, S, ChainOf(m, S)[n - 1])]
    BY <1>14, ChainIs
  <1> DEFINE G == ChainOf(m, S)
  <1>16. \A n \in Nat : G[n] = IF n = 0 THEN <<>> ELSE ChainStep(m, S, G[n - 1])
    BY <1>15
  <1> HIDE DEF G
  <1> DEFINE Bad == {n \in Nat : G[n] # F[n]}
  <1>17. ASSUME Bad # {}
         PROVE  FALSE
    <2>1. PICK n \in Bad : \A k \in Bad : n <= k
      BY <1>17, LeastOf
    <2>2. n \in Nat /\ n # 0
      BY <1>9, <1>16, <2>1
    <2>3. n - 1 \in Nat /\ n - 1 \notin Bad
      BY <2>1, <2>2
    <2>4. G[n - 1] = F[n - 1]
      BY <2>3
    <2>5. G[n] = F[n]
      BY <1>13, <1>16, <2>2, <2>4
    <2> QED
      BY <2>1, <2>5
  <1>18. G[L] = F[L] /\ F[L] = s
    BY <1>1, <1>8, <1>17
  <1> QED
    BY <1>6, <1>7, <1>18 DEF Found, G, S, s, L

\* A page that has the server's places lists the server's order.
LEMMA ListsTheOrder ==
  ASSUME NEW t, Lists(t), NEW m, FitsBut(t, m, {}), NEW p \in Parents
  PROVE  SortSiblings(m, p) = t[p]
  <1> DEFINE s == t[p]
  <1>1. SiblingsOf(m, p) = Range(s) /\ Found(m, p) = s
    BY ChainReaches
  <1>2. SortSiblings(m, p) = s \o SetToSeq(Range(s) \ Range(s))
    BY <1>1, SortedBy
  <1>3. Range(s) \ Range(s) = {}
    OBVIOUS
  <1>4. SetToSeq({}) = <<>>
    <2>1. IsFiniteSet({}) /\ Cardinality({}) = 0
      BY FS_EmptySet
    <2>2. SetToSeq({}) \in Seq({}) /\ Len(SetToSeq({})) = 0
      BY <2>1, InOrder
    <2> QED
      BY <2>2
  <1>5. s \in Seq(Channel)
    BY DEF Lists
  <1>6. s \o <<>> = s
    <2> HIDE DEF s
    <2> QED
      BY <1>5
  <1> HIDE DEF s
  <1>7. SortSiblings(m, p) = s \o <<>>
    BY <1>2, <1>3, <1>4
  <1> QED
    BY <1>6, <1>7 DEF s

\* However channels come, go and move: once everything is read the page lists the
\* channels under each parent as the server orders them.
THEOREM PageListsServersOrder == TreeSpec => []PageListsAsServer
  <1>1. TreeInv => PageListsAsServer
    <2>1. ASSUME TreeInv, snapshotSent, treeFeed = <<>>, NEW p \in Parents
          PROVE  SortSiblings(pageChannels, p) = tree[p]
      <3>1. Leads(PageReads, <<>>, pageChannels, channels)
        BY <2>1 DEF TreeInv
      <3>2. pageChannels = channels
        BY <3>1, LeadsNowhere
      <3>3. Lists(tree) /\ FitsBut(tree, channels, {})
        BY <2>1 DEF TreeInv
      <3> QED
        BY <3>2, <3>3, ListsTheOrder
    <2> QED
      BY <2>1 DEF PageListsAsServer
  <1> QED
    BY <1>1, TreeInvInit, TreeInvKept, PTL DEF TreeSpec
=============================================================================
