------------------------- MODULE EventFetcher_proofs -------------------------
(***************************************************************************)
(* Proof that a measurement returns exactly the events that pass by the    *)
(* rule of process_events(), however the thread and get_events() cut them  *)
(* into batches: for any channels, any setting of the filter, any window   *)
(* and any bounds.  It is proved with every stray counted as owed, which   *)
(* is more than EventsAreExact asks for.                                   *)
(***************************************************************************)
EXTENDS EventFetcher, SequenceTheorems, FiniteSetTheorems, WellFoundedInduction, TLAPS

-----------------------------------------------------------------------------
(* Picking the elements of a sequence at some places                       *)

(* Every set of numbers has a smallest one.                                *)
Less == {p \in Nat \X Nat : p[1] < p[2]}
LEMMA Smallest ==
  ASSUME NEW T \in SUBSET Nat, T # {} PROVE \E n \in T : \A m \in T : n <= m
<1>1. IsWellFoundedOn(Less, Nat)
  BY NatLessThanWellFounded DEF OpToRel, Less
<1>2. PICK n \in T : \A m \in T : <<m, n>> \notin Less
  BY <1>1, WFMin
<1>3. \A m \in T : ~(m < n)  BY <1>2 DEF Less
<1> QED BY <1>3

(* f lists the places P in their order.                                    *)
Lists(f, n, P) ==
  /\ n \in Nat /\ P \subseteq Nat /\ f \in [1 .. n -> P]
  /\ \A a, b \in 1 .. n : a < b => f[a] < f[b]
  /\ \A p \in P : \E a \in 1 .. n : f[a] = p

(* r is made of the elements of s at the places P.                         *)
Picks(s, P, r) == \E n, f : Lists(f, n, P) /\ r = [k \in 1 .. n |-> s[f[k]]]

LEMMA PicksIntro ==
  ASSUME NEW s, NEW P, NEW n, NEW f, Lists(f, n, P) PROVE Picks(s, P, [k \in 1 .. n |-> s[f[k]]])
BY DEF Picks

(* There is one such list.                                                 *)
LEMMA ListsAgree ==
  ASSUME NEW P, NEW n, NEW m, NEW f, NEW g, Lists(f, n, P), Lists(g, m, P), NEW k \in 1 .. n
  PROVE  k \in 1 .. m /\ f[k] = g[k]
<1> DEFINE Bad == {j \in Nat : j \in 1 .. n /\ ~(j \in 1 .. m /\ f[j] = g[j])}
<1> SUFFICES ASSUME Bad # {} PROVE FALSE
  BY DEF Lists
<1>1. PICK j \in Bad : \A i \in Bad : j <= i
  BY Smallest
<1>2. \A i \in 1 .. n : i < j => i \in 1 .. m /\ f[i] = g[i]
  BY <1>1 DEF Lists
<1>3. PICK a \in 1 .. m : g[a] = f[j]
  BY <1>1 DEF Lists
<1>4. ~(a < j)
  <2> SUFFICES ASSUME a < j PROVE FALSE OBVIOUS
  <2>1. a \in 1 .. n /\ f[a] = g[a]  BY <1>1, <1>2 DEF Lists
  <2>2. f[a] < f[j] /\ f[a] \in Nat /\ f[j] \in Nat  BY <1>1, <2>1 DEF Lists
  <2> QED BY <1>3, <2>1, <2>2
<1>5. j \in 1 .. m /\ a # j /\ j < a
  BY <1>1, <1>3, <1>4 DEF Lists
<1>6. g[j] < g[a] /\ g[j] \in P /\ g[j] \in Nat /\ g[a] \in Nat
  BY <1>5 DEF Lists
<1>7. PICK b \in 1 .. n : f[b] = g[j]
  BY <1>6 DEF Lists
<1>8. b < j
  <2> SUFFICES ASSUME ~(b < j) PROVE FALSE OBVIOUS
  <2>1. b = j \/ j < b  BY <1>1 DEF Lists
  <2>2. b = j \/ f[j] < f[b]  BY <1>1, <2>1 DEF Lists
  <2>3. f[j] \in Nat /\ f[b] \in Nat  BY <1>1 DEF Lists
  <2> QED BY <1>3, <1>6, <1>7, <2>2, <2>3
<1>9. g[b] = g[j] /\ b \in 1 .. m  BY <1>2, <1>7, <1>8
<1>10. g[b] < g[j]  BY <1>5, <1>8, <1>9 DEF Lists
<1> QED BY <1>6, <1>9, <1>10

LEMMA PicksOnce ==
  ASSUME NEW s, NEW P, NEW q, NEW r, Picks(s, P, q), Picks(s, P, r) PROVE q = r
<1>1. PICK n, f : Lists(f, n, P) /\ q = [k \in 1 .. n |-> s[f[k]]]
  BY DEF Picks
<1>2. PICK m, g : Lists(g, m, P) /\ r = [k \in 1 .. m |-> s[g[k]]]
  BY DEF Picks
<1>3. \A k \in 1 .. n : k \in 1 .. m /\ f[k] = g[k]
  BY <1>1, <1>2, ListsAgree
<1>4. \A k \in 1 .. m : k \in 1 .. n
  BY <1>1, <1>2, ListsAgree
<1>5. n = m
  <2>1. n \in Nat /\ m \in Nat  BY <1>1, <1>2 DEF Lists
  <2>2. n > 0 => n \in 1 .. m  BY <1>3, <2>1
  <2>3. m > 0 => m \in 1 .. n  BY <1>4, <2>1
  <2> QED BY <2>1, <2>2, <2>3
<1> QED BY <1>1, <1>2, <1>3, <1>5

(* Nth() lists the places.                                                 *)
LEMMA NthLists ==
  ASSUME NEW N \in Nat, NEW P \in SUBSET (1 .. N)
  PROVE  /\ IsFiniteSet(P) /\ Cardinality(P) \in Nat
         /\ Lists([k \in 1 .. Cardinality(P) |-> Nth(P, k)], Cardinality(P), P)
<1> DEFINE UpTo(p) == {j \in P : j <= p}
           c == Cardinality(P)
           rank == [p \in P |-> Cardinality(UpTo(p))]
<1>0. \A p \in P : p \in Nat  OBVIOUS
<1>1. IsFiniteSet(P) /\ c \in Nat
  <2>1. IsFiniteSet(1 .. N)  BY FS_Interval
  <2> QED BY <2>1, FS_Subset, FS_CardinalityType
<1>2. \A p \in P : /\ UpTo(p) \in SUBSET P /\ IsFiniteSet(UpTo(p)) /\ p \in UpTo(p)
                   /\ Cardinality(UpTo(p)) \in Nat /\ Cardinality(UpTo(p)) <= c
  BY <1>1, FS_Subset, FS_CardinalityType
<1>3. \A p \in P : rank[p] \in 1 .. c
  <2> SUFFICES ASSUME NEW p \in P PROVE Cardinality(UpTo(p)) \in 1 .. c  OBVIOUS
  <2>1. Cardinality(UpTo(p)) # 0  BY <1>2, FS_EmptySet
  <2> HIDE DEF UpTo, c
  <2> QED BY <1>1, <1>2, <2>1
<1>4. \A p, q \in P : p < q => rank[p] < rank[q]
  <2> SUFFICES ASSUME NEW p \in P, NEW q \in P, p < q
               PROVE  Cardinality(UpTo(p)) < Cardinality(UpTo(q))
    OBVIOUS
  <2>0. p \in Nat /\ q \in Nat  BY <1>0
  <2>1. UpTo(p) \in SUBSET UpTo(q) /\ q \in UpTo(q) /\ q \notin UpTo(p)
    <3>1. ASSUME NEW j \in P, j <= p PROVE j <= q  BY <1>0, <2>0, <3>1
    <3>2. ~(q <= p) /\ q <= q  BY <2>0
    <3>3. UpTo(p) \subseteq UpTo(q)  BY <3>1
    <3>4. q \in UpTo(q) /\ q \notin UpTo(p)  BY <3>2
    <3> HIDE DEF UpTo
    <3> QED BY <3>3, <3>4
  <2>2. Cardinality(UpTo(p)) <= Cardinality(UpTo(q)) /\ Cardinality(UpTo(p)) # Cardinality(UpTo(q))
    BY <1>2, <2>1, FS_Subset
  <2> HIDE DEF UpTo
  <2> QED BY <1>2, <2>2
<1>5. \A k \in 1 .. c : \E p \in P : rank[p] = k
  <2> SUFFICES ASSUME NEW k \in 1 .. c, \A p \in P : rank[p] # k PROVE FALSE
    OBVIOUS
  <2>1. rank \in [P -> (1 .. c) \ {k}]  BY <1>3
  <2>2. IsFiniteSet((1 .. c) \ {k}) /\ Cardinality((1 .. c) \ {k}) = c - 1
    <3>1. IsFiniteSet(1 .. c) /\ Cardinality(1 .. c) = c  BY <1>1, FS_Interval
    <3>2. k \in 1 .. c  OBVIOUS
    <3> HIDE DEF c
    <3> QED BY <3>1, <3>2, FS_RemoveElement, Zenon
  <2>3. PICK p, q \in P : p # q /\ rank[p] = rank[q]
    <3>1. Cardinality((1 .. c) \ {k}) < Cardinality(P)  BY <1>1, <2>2
    <3> DEFINE T == (1 .. c) \ {k}
    <3>2. IsFiniteSet(T) /\ Cardinality(T) < Cardinality(P) /\ rank \in [P -> T]
      BY <2>1, <2>2, <3>1
    <3> HIDE DEF rank, T
    <3> QED BY <1>1, <3>2, FS_PigeonHole, Zenon
  <2> HIDE DEF rank
  <2>4. p < q \/ q < p  BY <2>3
  <2> QED BY <1>3, <1>4, <2>3, <2>4
<1>6. \A k \in 1 .. c : Nth(P, k) \in P /\ rank[Nth(P, k)] = k
  <2> SUFFICES ASSUME NEW k \in 1 .. c PROVE Nth(P, k) \in P /\ rank[Nth(P, k)] = k  OBVIOUS
  <2> DEFINE K == {p \in P : Cardinality({j \in P : j <= p}) = k}
  <2>1. K # {}  BY <1>5
  <2>2. Nth(P, k) \in K  BY <2>1 DEF Nth
  <2> QED BY <2>2
<1>7. \A a, b \in 1 .. c : a < b => Nth(P, a) < Nth(P, b)
  <2> SUFFICES ASSUME NEW a \in 1 .. c, NEW b \in 1 .. c, a < b PROVE Nth(P, a) < Nth(P, b)
    OBVIOUS
  <2>1. Nth(P, a) \in P /\ Nth(P, b) \in P /\ rank[Nth(P, a)] = a /\ rank[Nth(P, b)] = b
    BY <1>6
  <2> HIDE DEF rank, c
  <2>2. ~(Nth(P, b) < Nth(P, a)) /\ Nth(P, b) # Nth(P, a)
    <3>1. Nth(P, b) < Nth(P, a) => b < a  BY <1>4, <2>1
    <3>2. a \in Nat /\ b \in Nat /\ a # b  BY <1>1 DEF c
    <3> QED BY <2>1, <3>1, <3>2
  <2>3. Nth(P, a) \in Nat /\ Nth(P, b) \in Nat  BY <1>0, <2>1
  <2> QED BY <2>2, <2>3
<1>8. \A p \in P : \E a \in 1 .. c : Nth(P, a) = p
  <2> SUFFICES ASSUME NEW p \in P PROVE \E a \in 1 .. c : Nth(P, a) = p  OBVIOUS
  <2> HIDE DEF rank, c
  <2>1. rank[p] \in 1 .. c  BY <1>3
  <2>2. Nth(P, rank[p]) \in P /\ rank[Nth(P, rank[p])] = rank[p]  BY <1>6, <2>1
  <2>3. Nth(P, rank[p]) < p => rank[p] < rank[p]  BY <1>4, <2>2
  <2>4. p < Nth(P, rank[p]) => rank[p] < rank[p]  BY <1>4, <2>2
  <2>5. rank[p] \in Nat  BY <2>1
  <2>6. p \in Nat /\ Nth(P, rank[p]) \in Nat  BY <1>0, <2>2
  <2>7. Nth(P, rank[p]) = p  BY <2>3, <2>4, <2>5, <2>6
  <2> QED BY <2>1, <2>7
<1> HIDE DEF rank
<1> QED BY <1>1, <1>6, <1>7, <1>8 DEF Lists

LEMMA PickedPicks ==
  ASSUME NEW S, NEW s \in Seq(S), NEW P \in SUBSET (1 .. Len(s))
  PROVE  /\ Picks(s, P, Picked(s, P)) /\ Picked(s, P) \in Seq(S)
         /\ Len(Picked(s, P)) = Cardinality(P)
<1>1. Len(s) \in Nat /\ \A i \in 1 .. Len(s) : s[i] \in S
  BY LenProperties, ElementOfSeq
<1> DEFINE n == Cardinality(P)
           f == [k \in 1 .. n |-> Nth(P, k)]
           r == Picked(s, P)
<1>2. n \in Nat /\ Lists(f, n, P)  BY <1>1, NthLists
<1>3. r = [k \in 1 .. n |-> s[f[k]]]  BY DEF Picked
<1>4. \A k \in 1 .. n : r[k] \in S
  <2> HIDE DEF n, f, r
  <2> TAKE k \in 1 .. n
  <2>1. f[k] \in 1 .. Len(s)  BY <1>2 DEF Lists
  <2> QED BY <1>1, <1>3, <2>1
<1> HIDE DEF n, f, r
<1>5. r \in Seq(S) /\ Len(r) = n
  <2>1. /\ SubSeq(r, 1, n) \in Seq(S) /\ Len(SubSeq(r, 1, n)) = n
        /\ \A k \in 1 .. n : SubSeq(r, 1, n)[k] = r[k]
    BY <1>2, <1>4, SubSeqProperties
  <2>2. SubSeq(r, 1, n) \in [1 .. n -> S]  BY <2>1, LenProperties
  <2>3. SubSeq(r, 1, n) = r  BY <1>3, <2>1, <2>2
  <2> QED BY <2>1, <2>3
<1>6. Picks(s, P, r)  BY <1>2, <1>3 DEF Picks
<1> QED BY <1>5, <1>6 DEF n, r

(* g moves the places P of s to the places Q of u.                         *)
Moves(g, s, P, u, Q) ==
  /\ Q \subseteq Nat
  /\ \A p \in P : g[p] \in Q /\ u[g[p]] = s[p]
  /\ \A p, q \in P : p < q => g[p] < g[q]
  /\ \A q \in Q : \E p \in P : g[p] = q

(* The same elements, picked from another sequence.                        *)
LEMMA PicksElsewhere ==
  ASSUME NEW s, NEW u, NEW P, NEW Q, NEW r, NEW g, Picks(s, P, r), Moves(g, s, P, u, Q)
  PROVE  Picks(u, Q, r)
<1> USE DEF Moves
<1>1. PICK n, f : Lists(f, n, P) /\ r = [k \in 1 .. n |-> s[f[k]]]
  BY DEF Picks
<1> DEFINE h == [k \in 1 .. n |-> g[f[k]]]
<1>2. n \in Nat /\ \A k \in 1 .. n : f[k] \in P
  BY <1>1 DEF Lists
<1>3. h \in [1 .. n -> Q]  BY <1>2
<1>4. \A a, b \in 1 .. n : a < b => h[a] < h[b]
  BY <1>1, <1>2 DEF Lists
<1>5. \A q \in Q : \E a \in 1 .. n : h[a] = q
  <2> TAKE q \in Q
  <2>1. PICK p \in P : g[p] = q  OBVIOUS
  <2>2. PICK a \in 1 .. n : f[a] = p  BY <1>1 DEF Lists
  <2> QED BY <2>1, <2>2
<1>6. r = [k \in 1 .. n |-> u[h[k]]]
  BY <1>1, <1>2
<1> HIDE DEF h
<1>7. Lists(h, n, Q)  BY <1>2, <1>3, <1>4, <1>5 DEF Lists
<1> QED BY <1>6, <1>7 DEF Picks

(* The places of a pick are picked in turn.                                *)
LEMMA PicksOfPicks ==
  ASSUME NEW s, NEW P, NEW n, NEW f, Lists(f, n, P),
         NEW K \in SUBSET (1 .. n), NEW q, Picks([k \in 1 .. n |-> s[f[k]]], K, q)
  PROVE  Picks(s, {f[k] : k \in K}, q)
<1> DEFINE r == [k \in 1 .. n |-> s[f[k]]]
<1>1. \A k \in K : k \in 1 .. n /\ f[k] \in P /\ f[k] \in Nat /\ r[k] = s[f[k]]
  BY DEF Lists
<1>2. \A a, b \in K : a < b => f[a] < f[b]  BY <1>1 DEF Lists
<1> DEFINE Q == {f[k] : k \in K}
<1>3. Q \subseteq Nat  BY <1>1
<1>4. \A k \in K : f[k] \in Q /\ s[f[k]] = r[k]  BY <1>1
<1>5. \A x \in Q : \E k \in K : f[k] = x  OBVIOUS
<1> HIDE DEF r
<1>6. Moves(f, r, K, s, Q)  BY <1>2, <1>3, <1>4, <1>5 DEF Moves
<1>7. Picks(r, K, q)  BY DEF r
<1> QED BY <1>6, <1>7, PicksElsewhere

(* What is picked before and what is picked behind.                        *)
LEMMA PicksJoin ==
  ASSUME NEW S, NEW u, NEW P, NEW Q, NEW r \in Seq(S), NEW q \in Seq(S),
         Picks(u, P, r), Picks(u, Q, q), \A a \in P, b \in Q : a < b
  PROVE  Picks(u, P \cup Q, r \o q)
<1>1. PICK n, f : Lists(f, n, P) /\ r = [k \in 1 .. n |-> u[f[k]]]
  BY DEF Picks
<1>2. PICK m, g : Lists(g, m, Q) /\ q = [k \in 1 .. m |-> u[g[k]]]
  BY DEF Picks
<1>3. n \in Nat /\ m \in Nat /\ n = Len(r) /\ m = Len(q)
  BY <1>1, <1>2 DEF Lists
<1> DEFINE h == [k \in 1 .. n + m |-> IF k <= n THEN f[k] ELSE g[k - n]]
<1>4. \A k \in 1 .. n : k \in 1 .. n + m /\ k <= n /\ h[k] = f[k] /\ f[k] \in P
  <2> TAKE k \in 1 .. n
  <2>1. k \in 1 .. n + m /\ k <= n  BY <1>3
  <2> QED BY <1>1, <2>1 DEF Lists
<1>5. \A k \in 1 .. m : n + k \in 1 .. n + m /\ ~(n + k <= n) /\ h[n + k] = g[k] /\ g[k] \in Q
  <2> TAKE k \in 1 .. m
  <2>1. n + k \in 1 .. n + m /\ ~(n + k <= n) /\ (n + k) - n = k  BY <1>3
  <2> QED BY <1>2, <2>1 DEF Lists
<1>6. \A k \in 1 .. n + m : k \in 1 .. n \/ (k > n /\ k - n \in 1 .. m /\ k = n + (k - n))
  BY <1>3
<1>7. h \in [1 .. n + m -> P \cup Q]
  <2>1. \A k \in 1 .. n + m : h[k] \in P \cup Q
    <3> TAKE k \in 1 .. n + m
    <3> HIDE DEF h
    <3>1. CASE k \in 1 .. n  BY <1>4, <3>1
    <3>2. CASE k - n \in 1 .. m /\ k = n + (k - n)  BY <1>5, <3>2
    <3> QED BY <1>6, <3>1, <3>2
  <2> QED BY <2>1
<1> HIDE DEF h
<1>8. \A a, b \in 1 .. n + m : a < b => h[a] < h[b]
  <2> SUFFICES ASSUME NEW a \in 1 .. n + m, NEW b \in 1 .. n + m, a < b PROVE h[a] < h[b]
    OBVIOUS
  <2>1. CASE a \in 1 .. n /\ b \in 1 .. n
    BY <1>1, <1>4, <2>1 DEF Lists
  <2>2. CASE a \in 1 .. n /\ b - n \in 1 .. m /\ b = n + (b - n)
    BY <1>4, <1>5, <2>2
  <2>3. CASE a - n \in 1 .. m /\ a = n + (a - n) /\ b - n \in 1 .. m /\ b = n + (b - n)
    <3>1. a - n < b - n  BY <1>3
    <3>2. g[a - n] < g[b - n]  BY <1>2, <2>3, <3>1 DEF Lists
    <3> QED BY <1>5, <2>3, <3>2
  <2>4. ~(a > n /\ b \in 1 .. n)  BY <1>3
  <2> QED BY <1>6, <2>1, <2>2, <2>3, <2>4
<1>9. \A p \in P \cup Q : \E a \in 1 .. n + m : h[a] = p
  <2> TAKE p \in P \cup Q
  <2>1. CASE p \in P
    <3>1. PICK a \in 1 .. n : f[a] = p  BY <1>1, <2>1 DEF Lists
    <3> QED BY <1>4, <3>1
  <2>2. CASE p \in Q
    <3>1. PICK a \in 1 .. m : g[a] = p  BY <1>2, <2>2 DEF Lists
    <3> QED BY <1>5, <3>1
  <2> QED BY <2>1, <2>2
<1>10. Lists(h, n + m, P \cup Q)
  <2>1. P \subseteq Nat /\ Q \subseteq Nat  BY <1>1, <1>2 DEF Lists
  <2>2. n + m \in Nat  BY <1>3
  <2> QED BY <2>1, <2>2, <1>7, <1>8, <1>9 DEF Lists
<1>11. r \o q = [k \in 1 .. n + m |-> u[h[k]]]
  <2>1. /\ r \o q \in Seq(S) /\ Len(r \o q) = n + m
        /\ \A k \in 1 .. n + m : (r \o q)[k] = IF k <= n THEN r[k] ELSE q[k - n]
    BY <1>3, ConcatProperties
  <2>2. r \o q \in [1 .. n + m -> S]  BY <2>1, LenProperties
  <2>3. \A k \in 1 .. n + m : (r \o q)[k] = u[h[k]]
    <3> TAKE k \in 1 .. n + m
    <3>1. CASE k \in 1 .. n  BY <1>1, <1>4, <2>1, <3>1
    <3>2. CASE k > n /\ k - n \in 1 .. m /\ k = n + (k - n)
      <4>1. (r \o q)[k] = q[k - n]  BY <1>3, <2>1, <3>2
      <4> QED BY <1>2, <1>5, <3>2, <4>1
    <3> QED BY <1>6, <3>1, <3>2
  <2> QED BY <2>2, <2>3
<1> QED BY <1>10, <1>11, PicksIntro

-----------------------------------------------------------------------------
(* One batch                                                               *)

(* What the filter remembers of the stream s it has been given.            *)
FilterInv(s) ==
  /\ s \in Seq(Events)
  /\ mode \in [Types -> {"none", "all", "aperture"}]
  /\ previous \in {Never} \cup 1 .. MaxEvents /\ reported \in BOOLEAN
  /\ LastSync(s, Len(s)) = {} => previous = Never
  /\ \A j \in LastSync(s, Len(s)) : previous = s[j].time
  /\ mode[Sync] = "aperture" => (reported <=> \E j \in LastSync(s, Len(s)) : j \in Due(s))
  /\ mode[Sync] # "aperture" /\ previous # Never => reported

(* The places of e, presented to the filter with the batch, in the stream  *)
(* u == s \o batch: d is 1 if the last SYNC of s, at place L, comes again. *)
Placed(s, e, u, d, L) ==
  /\ s \in Seq(Events) /\ e \in Seq(Events) /\ u \in Seq(Events)
  /\ Len(s) \in Nat /\ Len(e) \in Nat /\ d \in {0, 1}
  /\ Len(u) = Len(s) + Len(e) - d
  /\ \A p \in 1 .. Len(s) : u[p] = s[p]
  /\ \A i \in 1 .. Len(e) : i > d => u[Len(s) + i - d] = e[i]
  /\ d = 1 => /\ 1 \in 1 .. Len(e) /\ L \in 1 .. Len(s) /\ s[L] = e[1] /\ s[L].type = Sync
              /\ \A k \in (L + 1) .. Len(s) : s[k].type # Sync
  /\ d = 0 /\ (\E c \in Types : mode[c] = "aperture") => \A k \in 1 .. Len(s) : s[k].type # Sync

LEMMA SyncExists ==
  ASSUME NEW s, NEW n \in Nat, NEW i \in 1 .. n, s[i].type = Sync
  PROVE  LastSync(s, n) # {}
<1> DEFINE T == {m \in Nat : m <= n /\ n - m \in 1 .. n /\ s[n - m].type = Sync}
<1>1. n - i \in T
  <2>1. n - i \in Nat /\ n - i <= n /\ n - (n - i) = i  OBVIOUS
  <2> QED BY <2>1
<1>2. PICK m \in T : \A k \in T : m <= k  BY <1>1, Smallest
<1>3. \A k \in (n - m + 1) .. n : s[k].type # Sync
  <2> SUFFICES ASSUME NEW k \in (n - m + 1) .. n, s[k].type = Sync PROVE FALSE  OBVIOUS
  <2>1. m \in Nat /\ k \in 1 .. n /\ n - k \in Nat /\ n - k <= n /\ n - (n - k) = k /\ n - k < m
    BY <1>2
  <2>2. n - k \in T  BY <2>1
  <2> HIDE DEF T
  <2> QED BY <1>2, <2>1, <2>2
<1>4. n - m \in LastSync(s, n)  BY <1>2, <1>3 DEF LastSync
<1> QED BY <1>4

LEMMA Placement ==
  ASSUME NEW s, FilterInv(s), NEW batch \in Seq(Events)
  PROVE  \E d, L : Placed(s, Presented(batch), s \o batch, d, L) /\ (d = 1 <=> Reinserted)
<1> DEFINE u == s \o batch
<1>1. s \in Seq(Events) /\ u \in Seq(Events) /\ Len(s) \in Nat /\ Len(batch) \in Nat
      /\ Len(u) = Len(s) + Len(batch)
      /\ \A i \in 1 .. Len(s) + Len(batch) : u[i] = IF i <= Len(s) THEN s[i] ELSE batch[i - Len(s)]
  BY ConcatProperties, LenProperties DEF FilterInv
<1> HIDE DEF u
<1>2. \A p \in 1 .. Len(s) : u[p] = s[p]
  <2> TAKE p \in 1 .. Len(s)
  <2>1. p \in 1 .. Len(s) + Len(batch) /\ p <= Len(s)  BY <1>1
  <2> QED BY <1>1, <2>1
<1>3. \A i \in 1 .. Len(batch) : u[Len(s) + i] = batch[i]
  <2> TAKE i \in 1 .. Len(batch)
  <2>1. Len(s) + i \in 1 .. Len(s) + Len(batch) /\ ~(Len(s) + i <= Len(s)) /\ Len(s) + i - Len(s) = i
    BY <1>1
  <2> QED BY <1>1, <2>1
<1>4. CASE ~Reinserted
  <2>1. Presented(batch) = batch  BY <1>4 DEF Presented
  <2>2. (\E c \in Types : mode[c] = "aperture") => \A k \in 1 .. Len(s) : s[k].type # Sync
    <3> SUFFICES ASSUME NEW k \in 1 .. Len(s), s[k].type = Sync, previous = Never PROVE FALSE
      BY <1>4 DEF Reinserted
    <3>1. PICK j : j \in LastSync(s, Len(s))  BY <1>1, SyncExists
    <3>2. j \in 1 .. Len(s) /\ previous = s[j].time  BY <3>1 DEF FilterInv, LastSync
    <3>3. s[j] \in Events  BY <1>1, <3>2, ElementOfSeq
    <3> QED BY <3>2, <3>3 DEF Events, Never
  <2>3. \A i \in 1 .. Len(batch) : i > 0 => u[Len(s) + i - 0] = batch[i]
    <3> TAKE i \in 1 .. Len(batch)
    <3>1. Len(s) + i - 0 = Len(s) + i  BY <1>1
    <3> QED BY <1>3, <3>1
  <2>4. Len(u) = Len(s) + Len(batch) - 0  BY <1>1
  <2>5. Placed(s, batch, u, 0, 0)
    BY <1>1, <1>2, <2>2, <2>3, <2>4 DEF Placed
  <2> QED BY <1>4, <2>1, <2>5 DEF u
<1>5. CASE Reinserted
  <2>1. previous # Never /\ previous \in 1 .. MaxEvents  BY <1>5 DEF Reinserted, FilterInv
  <2>2. PICK L : L \in LastSync(s, Len(s))  BY <2>1 DEF FilterInv
  <2>3. /\ L \in 1 .. Len(s) /\ s[L].type = Sync /\ \A k \in (L + 1) .. Len(s) : s[k].type # Sync
        /\ previous = s[L].time
    BY <2>2 DEF FilterInv, LastSync
  <2> DEFINE x == [type |-> Sync, time |-> previous]
             e == <<x>> \o batch
  <2>4. x \in Events  BY <2>1 DEF Events, Types
  <2>5. s[L] = x
    <3>1. s[L] \in Events  BY <1>1, <2>3, ElementOfSeq
    <3> QED BY <2>3, <2>4, <3>1 DEF Events
  <2> HIDE DEF x
  <2>6. <<x>> \in Seq(Events) /\ Len(<<x>>) = 1 /\ <<x>>[1] = x  BY <2>4
  <2>7. e \in Seq(Events) /\ Len(e) = 1 + Len(batch)
        /\ \A i \in 1 .. 1 + Len(batch) : e[i] = IF i <= 1 THEN <<x>>[i] ELSE batch[i - 1]
    <3>1. /\ <<x>> \o batch \in Seq(Events)
          /\ Len(<<x>> \o batch) = Len(<<x>>) + Len(batch)
          /\ \A i \in 1 .. Len(<<x>>) + Len(batch) :
               (<<x>> \o batch)[i] = IF i <= Len(<<x>>) THEN <<x>>[i] ELSE batch[i - Len(<<x>>)]
      BY <2>6, ConcatProperties
    <3> QED BY <2>6, <3>1
  <2> HIDE DEF e
  <2>8. 1 \in 1 .. Len(e) /\ s[L] = e[1]
    <3>1. 1 \in 1 .. 1 + Len(batch) /\ 1 <= 1  BY <1>1
    <3>2. e[1] = x  BY <2>6, <2>7, <3>1
    <3> QED BY <2>5, <2>7, <3>1, <3>2
  <2>9. \A i \in 1 .. Len(e) : i > 1 => u[Len(s) + i - 1] = e[i]
    <3> SUFFICES ASSUME NEW i \in 1 .. Len(e), i > 1 PROVE u[Len(s) + i - 1] = e[i]  OBVIOUS
    <3>1. i \in 1 .. 1 + Len(batch) /\ ~(i <= 1) /\ i - 1 \in 1 .. Len(batch)
          /\ Len(s) + (i - 1) = Len(s) + i - 1
      BY <1>1, <2>7
    <3>2. e[i] = batch[i - 1]  BY <2>7, <3>1
    <3>3. u[Len(s) + (i - 1)] = batch[i - 1]  BY <1>3, <3>1
    <3> QED BY <3>1, <3>2, <3>3
  <2>10. Len(u) = Len(s) + Len(e) - 1 /\ Len(e) \in Nat  BY <1>1, <2>7
  <2>11. Placed(s, e, u, 1, L)
    BY <1>1, <1>2, <2>3, <2>7, <2>8, <2>9, <2>10 DEF Placed
  <2>12. Presented(batch) = e  BY <1>5 DEF Presented, e, x
  <2> QED BY <1>5, <2>11, <2>12 DEF u
<1> QED BY <1>4, <1>5

(* The events of the stream are accepted as they were.                     *)
LEMMA AdmittedBefore ==
  ASSUME NEW s, NEW e, NEW u, NEW d, NEW L, Placed(s, e, u, d, L), NEW p \in 1 .. Len(s)
  PROVE  u[p] = s[p] /\ (Admitted(u, p) <=> Admitted(s, p))
<1>1. \A k \in 1 .. p : u[k] = s[k]  BY DEF Placed
<1>2. p \in 1 .. p /\ u[p] = s[p]  BY DEF Placed
<1>3. LastSync(u, p) = LastSync(s, p)
  <2>1. \A j \in 1 .. p : \A k \in (j + 1) .. p : k \in 1 .. p  BY DEF Placed
  <2> QED BY <1>1, <2>1 DEF LastSync
<1>4. \A j \in LastSync(s, p) : u[j] = s[j]  BY <1>1 DEF LastSync
<1> QED BY <1>2, <1>3, <1>4 DEF Admitted

(* Those of a batch are accepted in the stream as they are in the batch.   *)
LEMMA AdmittedBehind ==
  ASSUME NEW s, NEW e, NEW u, NEW d, NEW L, Placed(s, e, u, d, L), NEW i \in 1 .. Len(e), i > d,
         mode \in [Types -> {"none", "all", "aperture"}], e[i].type # Sync
  PROVE  Admitted(u, Len(s) + i - d) <=> Admitted(e, i)
<1> DEFINE N == Len(s)
<1>0. /\ N \in Nat /\ Len(e) \in Nat /\ d \in {0, 1} /\ N + i - d \in 1 .. N + Len(e) - d
      /\ u[N + i - d] = e[i]
  BY DEF Placed
<1>1. e[i].type \in Types
  <2>1. e[i] \in Events  BY ElementOfSeq DEF Placed
  <2> QED BY <2>1 DEF Events
<1>2. \A k \in (N + 1) .. (N + i - d) :
        /\ k - N + d \in 1 .. i /\ k - N + d > d /\ k = N + (k - N + d) - d /\ k - N + d \in 1 .. Len(e)
        /\ u[k] = e[k - N + d]
  <2> TAKE k \in (N + 1) .. (N + i - d)
  <2>0. /\ k \in Int /\ N \in Int /\ d \in Int /\ i \in Int /\ 0 <= d /\ N + 1 <= k /\ k <= N + i - d
        /\ i <= Len(e) /\ Len(e) \in Int
    BY <1>0
  <2> HIDE DEF N
  <2>1. /\ k - N + d \in 1 .. i /\ k - N + d > d /\ k = N + (k - N + d) - d
        /\ k - N + d \in 1 .. Len(e)
    BY <2>0
  <2> QED BY <2>1 DEF Placed, N
<1>3. \A k \in 1 .. i : k > d => u[N + k - d] = e[k] /\ N + k - d \in (N + 1) .. (N + i - d)
  <2> TAKE k \in 1 .. i
  <2>1. k \in 1 .. Len(e) /\ (k > d => N + k - d \in (N + 1) .. (N + i - d))  BY <1>0
  <2> QED BY <2>1 DEF Placed
<1>4. ASSUME mode[e[i].type] = "aperture", NEW j \in LastSync(e, i)
      PROVE  \E q \in LastSync(u, N + i - d) : u[q] = e[j]
  <2>1. j \in 1 .. i /\ e[j].type = Sync /\ \A k \in (j + 1) .. i : e[k].type # Sync
    BY <1>4 DEF LastSync
  <2>2. CASE j > d
    <3>1. u[N + j - d] = e[j] /\ N + j - d \in 1 .. (N + i - d)  BY <1>0, <1>3, <2>1, <2>2
    <3>2. \A k \in (N + j - d + 1) .. (N + i - d) : u[k].type # Sync
      <4> TAKE k \in (N + j - d + 1) .. (N + i - d)
      <4>1. k \in (N + 1) .. (N + i - d) /\ k - N + d \in (j + 1) .. i  BY <1>0, <2>1, <2>2
      <4> QED BY <1>2, <2>1, <4>1
    <3>3. N + j - d \in LastSync(u, N + i - d)  BY <2>1, <3>1, <3>2 DEF LastSync
    <3> QED BY <3>1, <3>3
  <2>3. CASE ~(j > d)
    <3>1. d = 1 /\ j = 1  BY <1>0, <2>1, <2>3
    <3>2. /\ L \in 1 .. N /\ s[L] = e[1] /\ s[L].type = Sync
          /\ \A k \in (L + 1) .. N : s[k].type # Sync
      BY <3>1 DEF Placed
    <3>3. \A k \in (L + 1) .. (N + i - d) : u[k].type # Sync
      <4> TAKE k \in (L + 1) .. (N + i - d)
      <4>1. k \in (L + 1) .. N \/ (k \in (N + 1) .. (N + i - d) /\ k - N + d \in (j + 1) .. i)
        BY <1>0, <3>1, <3>2
      <4>2. CASE k \in (L + 1) .. N
        <5>1. k \in 1 .. N  BY <1>0, <3>2, <4>2
        <5>2. u[k] = s[k]  BY <5>1 DEF Placed
        <5> QED BY <3>2, <4>2, <5>2
      <4> QED BY <1>2, <2>1, <4>1, <4>2
    <3>4. L \in 1 .. (N + i - d) /\ u[L] = s[L]  BY <1>0, <3>1, <3>2 DEF Placed
    <3>5. L \in LastSync(u, N + i - d)  BY <3>2, <3>3, <3>4 DEF LastSync
    <3> QED BY <3>1, <3>2, <3>4, <3>5
  <2> QED BY <2>2, <2>3
<1>5. ASSUME mode[e[i].type] = "aperture", NEW q \in LastSync(u, N + i - d)
      PROVE  \E j \in LastSync(e, i) : u[q] = e[j]
  <2>1. /\ q \in 1 .. (N + i - d) /\ u[q].type = Sync
        /\ \A k \in (q + 1) .. (N + i - d) : u[k].type # Sync
    BY <1>5 DEF LastSync
  <2>2. CASE q > N
    <3>1. q \in (N + 1) .. (N + i - d)  BY <1>0, <2>1, <2>2
    <3>2. q - N + d \in 1 .. i /\ u[q] = e[q - N + d]  BY <1>2, <3>1
    <3>3. \A k \in (q - N + d + 1) .. i : e[k].type # Sync
      <4> TAKE k \in (q - N + d + 1) .. i
      <4>1. k \in 1 .. i /\ k > d /\ N + k - d \in (q + 1) .. (N + i - d)  BY <1>0, <3>1, <3>2
      <4> QED BY <1>3, <2>1, <4>1
    <3>4. q - N + d \in LastSync(e, i)  BY <2>1, <3>2, <3>3 DEF LastSync
    <3> QED BY <3>2, <3>4
  <2>3. CASE ~(q > N)
    <3>1. q \in 1 .. N /\ u[q] = s[q]
      <4>1. q \in 1 .. N  BY <1>0, <2>1, <2>3
      <4> QED BY <4>1 DEF Placed
    <3>2. d = 1
      <4> SUFFICES ASSUME d = 0 PROVE FALSE  BY <1>0
      <4>1. \E c \in Types : mode[c] = "aperture"  BY <1>1, <1>5
      <4>2. \A k \in 1 .. N : s[k].type # Sync  BY <4>1 DEF Placed
      <4> QED BY <2>1, <3>1, <4>2
    <3>3. /\ 1 \in 1 .. Len(e) /\ L \in 1 .. N /\ s[L] = e[1] /\ s[L].type = Sync
          /\ \A k \in (L + 1) .. N : s[k].type # Sync
      BY <3>2 DEF Placed
    <3>4. u[L] = s[L] /\ L \in 1 .. (N + i - d)  BY <1>0, <3>2, <3>3 DEF Placed
    <3>5. q = L
      <4>1. ~(q < L)
        <5> SUFFICES ASSUME q < L PROVE FALSE  OBVIOUS
        <5>1. L \in (q + 1) .. (N + i - d)  BY <1>0, <2>1, <3>1, <3>4
        <5> QED BY <2>1, <3>3, <3>4, <5>1
      <4>2. ~(L < q)
        <5> SUFFICES ASSUME L < q PROVE FALSE  OBVIOUS
        <5>1. q \in (L + 1) .. N  BY <1>0, <3>1, <3>3
        <5> QED BY <2>1, <3>1, <3>3, <5>1
      <4> QED BY <1>0, <3>1, <3>3, <4>1, <4>2
    <3>6. \A k \in 2 .. i : e[k].type # Sync
      <4> TAKE k \in 2 .. i
      <4>1. k \in 1 .. i /\ k > d /\ N + k - d \in (q + 1) .. (N + i - d)  BY <1>0, <3>1, <3>2
      <4> QED BY <1>3, <2>1, <4>1
    <3>7. 1 \in LastSync(e, i)
      <4>1. 1 \in 1 .. i /\ 1 + 1 = 2  BY <1>0
      <4> QED BY <3>3, <3>6, <4>1 DEF LastSync
    <3> QED BY <3>3, <3>4, <3>5, <3>7
  <2> QED BY <2>2, <2>3
<1>6. CASE mode[e[i].type] = "aperture"
  <2>1. Admitted(e, i) => Admitted(u, N + i - d)
    <3>1. "aperture" # "all"  OBVIOUS
    <3>2. Admitted(e, i) => \E j \in LastSync(e, i) : InWindow(e[i].time - e[j].time)
      BY <1>6, <3>1 DEF Admitted
    <3>3. ASSUME NEW j \in LastSync(e, i), InWindow(e[i].time - e[j].time)
          PROVE  Admitted(u, N + i - d)
      <4>1. PICK q \in LastSync(u, N + i - d) : u[q] = e[j]  BY <1>4, <1>6
      <4> QED BY <1>0, <1>6, <3>3, <4>1 DEF Admitted
    <3> QED BY <3>2, <3>3
  <2>2. Admitted(u, N + i - d) => Admitted(e, i)
    <3>1. "aperture" # "all"  OBVIOUS
    <3>2. Admitted(u, N + i - d) =>
            \E q \in LastSync(u, N + i - d) : InWindow(u[N + i - d].time - u[q].time)
      BY <1>0, <1>6, <3>1 DEF Admitted
    <3>3. ASSUME NEW q \in LastSync(u, N + i - d), InWindow(u[N + i - d].time - u[q].time)
          PROVE  Admitted(e, i)
      <4>1. PICK j \in LastSync(e, i) : u[q] = e[j]  BY <1>5, <1>6
      <4> QED BY <1>0, <1>6, <3>3, <4>1 DEF Admitted
    <3> QED BY <3>2, <3>3
  <2> QED BY <2>1, <2>2
<1>7. CASE mode[e[i].type] # "aperture"
  <2>1. Admitted(e, i) <=> mode[e[i].type] = "all"  BY <1>7 DEF Admitted
  <2>2. Admitted(u, N + i - d) <=> mode[e[i].type] = "all"  BY <1>0, <1>7 DEF Admitted
  <2> QED BY <2>1, <2>2
<1> QED BY <1>6, <1>7

(* A SYNC of a batch passes in the stream if it does in the batch, one of  *)
(* the stream if it did or if it is the last and an event of the batch     *)
(* passes behind it.                                                       *)
LEMMA SyncBehind ==
  ASSUME NEW s, NEW e, NEW u, NEW d, NEW L, Placed(s, e, u, d, L), NEW i \in 1 .. Len(e), i > d,
         mode \in [Types -> {"none", "all", "aperture"}]
  PROVE  /\ EventPasses(u, Len(s) + i - d) <=> EventPasses(e, i)
         /\ SyncPasses(u, Len(s) + i - d) <=> SyncPasses(e, i)
<1> DEFINE N == Len(s)
<1>0. /\ N \in Nat /\ Len(e) \in Nat /\ d \in {0, 1} /\ Len(u) = N + Len(e) - d
      /\ \A k \in 1 .. Len(e) : k > d => u[N + k - d] = e[k]
  BY DEF Placed
<1>1. \A k \in 1 .. Len(e) : k > d => (EventPasses(u, N + k - d) <=> EventPasses(e, k))
  BY <1>0, AdmittedBehind DEF EventPasses
<1>2. ASSUME NEW k \in (i + 1) .. Len(e), EventPasses(e, k), \A j \in (i + 1) .. k : e[j].type # Sync
      PROVE  /\ N + k - d \in (N + i - d + 1) .. Len(u) /\ EventPasses(u, N + k - d)
             /\ \A j \in (N + i - d + 1) .. (N + k - d) : u[j].type # Sync
  <2>1. N + k - d \in (N + i - d + 1) .. Len(u) /\ k \in 1 .. Len(e) /\ k > d  BY <1>0
  <2>2. \A j \in (N + i - d + 1) .. (N + k - d) : u[j].type # Sync
    <3> TAKE j \in (N + i - d + 1) .. (N + k - d)
    <3>1. j - N + d \in (i + 1) .. k /\ j - N + d \in 1 .. Len(e) /\ j - N + d > d
          /\ j = N + (j - N + d) - d
      BY <1>0
    <3> QED BY <1>0, <1>2, <3>1
  <2> QED BY <1>1, <1>2, <2>1, <2>2
<1>3. ASSUME NEW q \in (N + i - d + 1) .. Len(u), EventPasses(u, q),
             \A j \in (N + i - d + 1) .. q : u[j].type # Sync
      PROVE  /\ q - N + d \in (i + 1) .. Len(e) /\ EventPasses(e, q - N + d)
             /\ \A j \in (i + 1) .. (q - N + d) : e[j].type # Sync
  <2>1. q - N + d \in (i + 1) .. Len(e) /\ q - N + d \in 1 .. Len(e) /\ q - N + d > d
        /\ q = N + (q - N + d) - d
    BY <1>0
  <2>2. \A j \in (i + 1) .. (q - N + d) : e[j].type # Sync
    <3> TAKE j \in (i + 1) .. (q - N + d)
    <3>1. N + j - d \in (N + i - d + 1) .. q /\ j \in 1 .. Len(e) /\ j > d  BY <1>0, <2>1
    <3> QED BY <1>0, <1>3, <3>1
  <2> QED BY <1>1, <1>3, <2>1, <2>2
<1>4. u[N + i - d] = e[i]  BY <1>0
<1>5. SyncPasses(e, i) => SyncPasses(u, N + i - d)
  BY <1>2, <1>4 DEF SyncPasses
<1>6. SyncPasses(u, N + i - d) => SyncPasses(e, i)
  BY <1>3, <1>4 DEF SyncPasses
<1> QED BY <1>1, <1>5, <1>6

LEMMA DueBefore ==
  ASSUME NEW s, NEW e, NEW u, NEW d, NEW L, Placed(s, e, u, d, L), NEW p \in 1 .. Len(s),
         mode \in [Types -> {"none", "all", "aperture"}]
  PROVE  /\ p \in Due(s) => p \in Due(u)
         /\ p \in Due(u) /\ p \notin Due(s) =>
              mode[Sync] = "aperture" /\ d = 1 /\ p = L /\ SyncPasses(e, 1)
<1> DEFINE N == Len(s)
<1>0. /\ N \in Nat /\ Len(e) \in Nat /\ d \in {0, 1} /\ Len(u) = N + Len(e) - d
      /\ d = 1 => Len(e) >= 1
      /\ \A k \in 1 .. Len(e) : k > d => u[N + k - d] = e[k]
  BY DEF Placed
<1>1. \A k \in 1 .. N : u[k] = s[k] /\ (EventPasses(u, k) <=> EventPasses(s, k))
  BY AdmittedBefore DEF EventPasses
<1>2. p \in 1 .. Len(u) /\ \A k \in (p + 1) .. N : k \in 1 .. N /\ k \in (p + 1) .. Len(u)
  BY <1>0
<1>3. \A k \in (p + 1) .. N : \A j \in (p + 1) .. k : j \in 1 .. N
  BY <1>0
<1>4. SyncPasses(s, p) => SyncPasses(u, p)
  BY <1>1, <1>2, <1>3 DEF SyncPasses
<1>5. ASSUME SyncPasses(u, p), ~SyncPasses(s, p)
      PROVE  mode[Sync] = "aperture" /\ d = 1 /\ p = L /\ SyncPasses(e, 1)
  <2>1. u[p] = s[p] /\ u[p].type = Sync /\ mode[Sync] = "aperture"  BY <1>1, <1>5 DEF SyncPasses
  <2>2. PICK k \in (p + 1) .. Len(u) :
          EventPasses(u, k) /\ \A j \in (p + 1) .. k : u[j].type # Sync
    BY <1>5, <2>1 DEF SyncPasses
  <2>3. k > N
    <3> SUFFICES ASSUME ~(k > N) PROVE FALSE  OBVIOUS
    <3>1. k \in (p + 1) .. N  BY <1>0, <2>2
    <3>2. \A j \in (p + 1) .. k : s[j].type # Sync  BY <1>1, <1>3, <2>2, <3>1
    <3>3. EventPasses(s, k)  BY <1>1, <1>2, <2>2, <3>1
    <3> QED BY <1>5, <2>1, <3>1, <3>2, <3>3 DEF SyncPasses
  <2>4. \A j \in (p + 1) .. N : s[j].type # Sync
    <3> TAKE j \in (p + 1) .. N
    <3>1. j \in (p + 1) .. k /\ j \in 1 .. N  BY <1>0, <2>2, <2>3
    <3> QED BY <1>1, <2>2, <3>1
  <2>5. d = 1
    <3> SUFFICES ASSUME d = 0 PROVE FALSE  BY <1>0
    <3>1. \E c \in Types : mode[c] = "aperture"  BY <2>1 DEF Types
    <3>2. s[p].type # Sync  BY <3>1 DEF Placed
    <3> QED BY <2>1, <3>2
  <2>6. L \in 1 .. N /\ s[L] = e[1] /\ s[L].type = Sync /\ \A j \in (L + 1) .. N : s[j].type # Sync
    BY <2>5 DEF Placed
  <2>7. p = L
    <3>1. ~(p < L)
      <4> SUFFICES ASSUME p < L PROVE FALSE  OBVIOUS
      <4>1. L \in (p + 1) .. N  BY <1>0, <2>6
      <4> QED BY <2>4, <2>6, <4>1
    <3>2. ~(L < p)
      <4> SUFFICES ASSUME L < p PROVE FALSE  OBVIOUS
      <4>1. p \in (L + 1) .. N  BY <1>0, <2>6
      <4> QED BY <2>1, <2>6, <4>1
    <3> QED BY <1>0, <2>6, <3>1, <3>2
  <2>8. /\ k - N + 1 \in 2 .. Len(e) /\ k = N + (k - N + 1) - d /\ k - N + 1 \in 1 .. Len(e)
        /\ k - N + 1 > d
    <3>1. k \in Int /\ N < k /\ k <= Len(u) /\ Len(u) = N + Len(e) - 1  BY <1>0, <2>2, <2>3, <2>5
    <3> QED BY <1>0, <2>5, <3>1
  <2>9. EventPasses(e, k - N + 1)  BY <2>2, <2>8, SyncBehind
  <2>10. \A j \in 2 .. (k - N + 1) : e[j].type # Sync
    <3> TAKE j \in 2 .. (k - N + 1)
    <3>1. j \in 1 .. Len(e) /\ j > d /\ N + j - d \in (p + 1) .. k  BY <1>0, <2>2, <2>5, <2>8
    <3> QED BY <1>0, <2>2, <3>1
  <2>11. SyncPasses(e, 1)
    <3>1. 1 + 1 = 2  OBVIOUS
    <3> QED BY <2>1, <2>6, <2>8, <2>9, <2>10, <3>1 DEF SyncPasses
  <2> QED BY <2>1, <2>5, <2>7, <2>11
<1> QED BY <1>1, <1>2, <1>4, <1>5 DEF Due

LEMMA ListsOrder ==
  ASSUME NEW P, NEW n, NEW f, Lists(f, n, P), NEW a \in 1 .. n, NEW b \in 1 .. n
  PROVE  /\ a \in Nat /\ b \in Nat /\ f[a] \in P /\ f[a] \in Nat /\ f[b] \in P /\ f[b] \in Nat
         /\ a < b <=> f[a] < f[b]
         /\ a <= b <=> f[a] <= f[b]
<1>0. n \in Nat /\ P \subseteq Nat /\ f \in [1 .. n -> P]  BY DEF Lists
<1>1. a \in Nat /\ b \in Nat /\ f[a] \in P /\ f[a] \in Nat /\ f[b] \in P /\ f[b] \in Nat
  <2>1. a \in Nat /\ b \in Nat  BY <1>0
  <2>2. f[a] \in P /\ f[b] \in P  BY <1>0
  <2> QED BY <1>0, <2>1, <2>2
<1>2. (a < b => f[a] < f[b]) /\ (b < a => f[b] < f[a])
  BY DEF Lists
<1>3. a = b => f[a] = f[b]  OBVIOUS
<1> QED BY <1>1, <1>2, <1>3

(* The places of the presented events that pass.                           *)
Again == IF Reinserted /\ reported THEN {1} ELSE {}

LEMMA ChosenIs ==
  ASSUME NEW e \in Seq(Events), mode \in [Types -> {"none", "all", "aperture"}],
         Reinserted => 1 \in 1 .. Len(e) /\ e[1].type = Sync
  PROVE  /\ Chosen(e) \in SUBSET (1 .. Len(e)) /\ Due(e) \in SUBSET (1 .. Len(e))
         /\ mode[Sync] # "aperture" => Chosen(e) = Due(e) \ Again
         /\ mode[Sync] = "aperture" =>
              \A i \in 1 .. Len(e) :
                i \in Chosen(e) <=> i \notin Again /\ (e[i].type = Sync \/ EventPasses(e, i))
         /\ \A i \in 1 .. Len(e) : EventPasses(e, i) => i \notin Again
<1>1. Chosen(e) \in SUBSET (1 .. Len(e)) /\ Due(e) \in SUBSET (1 .. Len(e))
  BY DEF Chosen, Due
<1>2. \A i \in 1 .. Len(e) : i \in Again <=> Reinserted /\ reported /\ i = 1
  BY DEF Again
<1>3. \A i \in 1 .. Len(e) : EventPasses(e, i) => i \notin Again
  BY <1>2 DEF EventPasses
<1>4. ASSUME mode[Sync] # "aperture" PROVE Chosen(e) = Due(e) \ Again
  <2>1. \A i \in 1 .. Len(e) : e[i].type = Sync => (Admitted(e, i) <=> mode[Sync] = "all")
    BY <1>4 DEF Admitted
  <2>2. \A i \in 1 .. Len(e) : SyncPasses(e, i) <=> e[i].type = Sync /\ mode[Sync] = "all"
    BY <1>4 DEF SyncPasses
  <2>3. \A i \in 1 .. Len(e) : i \in Chosen(e) <=> i \notin Again /\ Admitted(e, i)
    BY <1>2, <1>4 DEF Chosen
  <2>4. \A i \in 1 .. Len(e) : i \in Due(e) <=> Admitted(e, i)
    BY <2>1, <2>2 DEF Due, EventPasses
  <2> QED BY <1>1, <2>3, <2>4
<1>5. ASSUME mode[Sync] = "aperture", NEW i \in 1 .. Len(e)
      PROVE  i \in Chosen(e) <=> i \notin Again /\ (e[i].type = Sync \/ EventPasses(e, i))
  <2>1. i \in Chosen(e) <=> i \notin Again /\ (Admitted(e, i) \/ e[i].type = Sync)
    BY <1>2, <1>5 DEF Chosen
  <2> QED BY <2>1 DEF EventPasses
<1> QED BY <1>1, <1>3, <1>4, <1>5

LEMMA PassedPicks ==
  ASSUME NEW batch, NEW e \in Seq(Events), e = Presented(batch),
         mode \in [Types -> {"none", "all", "aperture"}],
         Reinserted => 1 \in 1 .. Len(e) /\ e[1].type = Sync
  PROVE  Picks(e, Due(e) \ Again, Passed(batch)) /\ Passed(batch) \in Seq(Events)
<1> DEFINE C == Chosen(e)
           n == Cardinality(C)
           f == [k \in 1 .. n |-> Nth(C, k)]
           r == Selected(batch)
<1>0. Len(e) \in Nat  BY LenProperties
<1>1. C \in SUBSET (1 .. Len(e))  BY ChosenIs
<1>2. r = Picked(e, C)  BY DEF Selected
<1>3. Picks(e, C, r) /\ r \in Seq(Events) /\ Len(r) = n  BY <1>1, <1>2, PickedPicks
<1>4. n \in Nat /\ Lists(f, n, C)  BY <1>0, <1>1, NthLists
<1>5. r = [k \in 1 .. n |-> e[f[k]]]  BY <1>2 DEF Picked
<1>6. CASE mode[Sync] # "aperture"
  <2>1. Passed(batch) = r  BY <1>6 DEF Passed
  <2>2. C = Due(e) \ Again  BY <1>6, ChosenIs
  <2> QED BY <1>3, <2>1, <2>2
<1>7. CASE mode[Sync] = "aperture"
  <2> DEFINE F == {i \in 1 .. Len(r) :
                     r[i].type # Sync \/ (i < Len(r) /\ r[i + 1].type # Sync)}
             Q == {f[k] : k \in F}
  <2>1. Passed(batch) = Picked(r, F)  BY <1>7 DEF Passed, Followed
  <2>2. F \in SUBSET (1 .. n) /\ F \in SUBSET (1 .. Len(r))  BY <1>3
  <2>3. Picks(r, F, Passed(batch)) /\ Passed(batch) \in Seq(Events)
    BY <1>3, <2>1, <2>2, PickedPicks
  <2>4. \A i \in 1 .. Len(e) :
          i \in C <=> i \notin Again /\ (e[i].type = Sync \/ EventPasses(e, i))
    BY <1>7, ChosenIs
  <2>5. \A k \in 1 .. n : r[k] = e[f[k]]  BY <1>5
  <2>6. \A k \in F : k \in 1 .. n /\ (r[k].type # Sync \/ (k + 1 \in 1 .. n /\ r[k + 1].type # Sync))
    BY <1>3, <1>4
  <2>7. \A k \in 1 .. n : (r[k].type # Sync \/ (k + 1 \in 1 .. n /\ r[k + 1].type # Sync)) => k \in F
    BY <1>3, <1>4
  <2> HIDE DEF C, n, f, r, F
  <2>8. Picks(e, Q, Passed(batch))
    <3>1. Picks([k \in 1 .. n |-> e[f[k]]], F, Passed(batch))  BY <1>5, <2>3
    <3>2. Picks(e, {f[k] : k \in F}, Passed(batch))  BY <1>4, <2>2, <3>1, PicksOfPicks
    <3> QED BY <3>2
  <2>9. ASSUME NEW m \in F PROVE f[m] \in Due(e) \ Again
    <3>1. m \in 1 .. n /\ f[m] \in C /\ f[m] \in 1 .. Len(e)  BY <1>1, <1>4, <2>6 DEF Lists
    <3>2. CASE e[f[m]].type # Sync
      <4>1. EventPasses(e, f[m]) /\ f[m] \notin Again  BY <2>4, <3>1, <3>2
      <4> QED BY <3>1, <4>1 DEF Due
    <3>3. CASE e[f[m]].type = Sync
      <4> DEFINE k == f[m + 1]
      <4>1. m + 1 \in 1 .. n /\ e[k].type # Sync  BY <2>5, <2>6, <3>1, <3>3
      <4>2. m \in Nat /\ m < m + 1 /\ k \in C /\ f[m] < k  BY <1>4, <3>1, <4>1, ListsOrder
      <4> HIDE DEF k
      <4>3. k \in (f[m] + 1) .. Len(e) /\ k \in 1 .. Len(e)
        <5>1. k \in 1 .. Len(e)  BY <1>1, <4>2 DEF C
        <5> QED BY <1>0, <3>1, <4>2, <5>1
      <4>4. EventPasses(e, k)  BY <2>4, <4>1, <4>2, <4>3
      <4>5. \A j \in (f[m] + 1) .. k : e[j].type # Sync
        <5> SUFFICES ASSUME NEW j \in (f[m] + 1) .. k, e[j].type = Sync PROVE FALSE  OBVIOUS
        <5>1. j \in 1 .. Len(e) /\ j # 1 /\ f[m] < j /\ j < k  BY <1>0, <3>1, <4>1, <4>3
        <5>2. j \in C  BY <2>4, <5>1 DEF Again
        <5>3. PICK c \in 1 .. n : f[c] = j  BY <1>4, <5>2 DEF Lists
        <5>4. m < c  BY <1>4, <3>1, <5>1, <5>3, ListsOrder
        <5>5. c < m + 1  BY <1>4, <4>1, <5>1, <5>3, ListsOrder DEF k
        <5>6. c \in Nat  BY <1>4
        <5> QED BY <4>2, <5>4, <5>5, <5>6
      <4>6. SyncPasses(e, f[m])  BY <1>7, <3>3, <4>3, <4>4, <4>5 DEF SyncPasses
      <4> QED BY <2>4, <3>1, <4>6 DEF Due
    <3> QED BY <3>2, <3>3
  <2>10. ASSUME NEW i \in Due(e) \ Again PROVE \E m \in F : f[m] = i
    <3>1. i \in 1 .. Len(e) /\ i \notin Again /\ (EventPasses(e, i) \/ SyncPasses(e, i))
      BY DEF Due
    <3>2. i \in C  BY <2>4, <3>1 DEF SyncPasses
    <3>3. PICK m \in 1 .. n : f[m] = i  BY <1>4, <3>2 DEF Lists
    <3>4. CASE e[i].type # Sync
      BY <2>5, <2>7, <3>3, <3>4
    <3>5. CASE e[i].type = Sync
      <4>1. SyncPasses(e, i)  BY <3>1, <3>5 DEF EventPasses
      <4>2. PICK k \in (i + 1) .. Len(e) : EventPasses(e, k) /\ \A j \in (i + 1) .. k : e[j].type # Sync
        BY <1>7, <4>1 DEF SyncPasses
      <4>3. k \in 1 .. Len(e) /\ i < k  BY <1>0, <3>1
      <4>4. k \in C  BY <2>4, <4>2, <4>3, ChosenIs
      <4>5. PICK c \in 1 .. n : f[c] = k  BY <1>4, <4>4 DEF Lists
      <4>6. m < c  BY <1>4, <3>3, <4>3, <4>5, ListsOrder
      <4>7. m + 1 \in 1 .. n /\ m + 1 <= c /\ m < m + 1  BY <1>4, <4>6
      <4>8. f[m + 1] <= k  BY <1>4, <4>5, <4>7, ListsOrder
      <4>9. i < f[m + 1] /\ f[m + 1] \in Nat  BY <1>4, <3>3, <4>7, ListsOrder
      <4>10. f[m + 1] \in (i + 1) .. k  BY <3>1, <4>3, <4>8, <4>9
      <4>11. r[m + 1].type # Sync  BY <2>5, <4>2, <4>7, <4>10
      <4> QED BY <2>7, <3>3, <4>7, <4>11
    <3> QED BY <3>4, <3>5
  <2>11. Q = Due(e) \ Again  BY <2>9, <2>10
  <2> QED BY <2>3, <2>8, <2>11
<1> QED BY <1>6, <1>7

(* The last that is selected is withheld if it is a SYNC.                  *)
LEMMA WithheldIs ==
  ASSUME NEW batch, NEW e \in Seq(Events), e = Presented(batch),
         mode \in [Types -> {"none", "all", "aperture"}], mode[Sync] = "aperture"
  PROVE  Withheld(Selected(batch)) <=>
           \E i \in Chosen(e) : e[i].type = Sync /\ \A k \in Chosen(e) : k <= i
<1> DEFINE C == Chosen(e)
           n == Cardinality(C)
           f == [k \in 1 .. n |-> Nth(C, k)]
           r == Selected(batch)
<1>0. Len(e) \in Nat  BY LenProperties
<1>1. C \in SUBSET (1 .. Len(e))  BY DEF Chosen
<1>2. r = Picked(e, C)  BY DEF Selected
<1>3. r \in Seq(Events) /\ Len(r) = n  BY <1>1, <1>2, PickedPicks
<1>4. n \in Nat /\ Lists(f, n, C)  BY <1>0, <1>1, NthLists
<1>5. \A k \in 1 .. n : r[k] = e[f[k]]  BY <1>2 DEF Picked
<1>6. Withheld(r) <=> n # 0 /\ r[n].type = Sync
  <2>1. r # <<>> <=> n # 0  BY <1>3, EmptySeq
  <2> QED BY <1>3, <2>1 DEF Withheld, Last
<1> HIDE DEF C, n, f, r
<1>7. ASSUME n # 0 PROVE f[n] \in C /\ \A k \in C : k <= f[n]
  <2>1. n \in 1 .. n  BY <1>4, <1>7
  <2>2. \A k \in C : k <= f[n]
    <3> TAKE k \in C
    <3>1. PICK c \in 1 .. n : f[c] = k  BY <1>4 DEF Lists
    <3>2. c <= n  BY <1>4
    <3> QED BY <1>4, <2>1, <3>1, <3>2, ListsOrder
  <2> QED BY <1>4, <2>1, <2>2 DEF Lists
<1>8. Withheld(r) => \E i \in C : e[i].type = Sync /\ \A k \in C : k <= i
  <2>1. n # 0 => n \in 1 .. n  BY <1>4
  <2> QED BY <1>5, <1>6, <1>7, <2>1
<1>9. ASSUME NEW i \in C, e[i].type = Sync, \A k \in C : k <= i PROVE Withheld(r)
  <2>1. PICK c \in 1 .. n : f[c] = i  BY <1>4 DEF Lists
  <2>2. n # 0 /\ n \in 1 .. n  BY <1>4
  <2>3. f[n] \in C /\ i <= f[n] /\ f[n] <= i  BY <1>7, <1>9, <2>2
  <2>4. i \in Nat /\ f[n] \in Nat  BY <1>4, <2>1, <2>2, ListsOrder
  <2>5. f[n] = i  BY <2>3, <2>4
  <2> QED BY <1>5, <1>6, <1>9, <2>2, <2>5
<1> QED BY <1>8, <1>9 DEF C, r

(* Of the SYNCs of the stream, the filter knows whether the last passed.   *)
LEMMA LastIs ==
  ASSUME NEW s, NEW n \in Nat, NEW L \in 1 .. n, s[L].type = Sync,
         \A k \in (L + 1) .. n : s[k].type # Sync
  PROVE  LastSync(s, n) = {L}
<1>1. L \in LastSync(s, n)  BY DEF LastSync
<1>2. ASSUME NEW j \in LastSync(s, n), j # L PROVE FALSE
  <2>1. j \in 1 .. n /\ s[j].type = Sync /\ \A k \in (j + 1) .. n : s[k].type # Sync
    BY <1>2 DEF LastSync
  <2>2. L \in (j + 1) .. n \/ j \in (L + 1) .. n  BY <1>2, <2>1
  <2> QED BY <2>1, <2>2
<1> QED BY <1>1, <1>2

Move(s, e, d, L) == [i \in 1 .. Len(e) |-> IF i > d THEN Len(s) + i - d ELSE L]

LEMMA DueOfMore ==
  ASSUME NEW s, NEW e, NEW u, NEW d, NEW L, Placed(s, e, u, d, L), d = 1 <=> Reinserted,
         FilterInv(s), NEW P, P = Due(e) \ Again, NEW g, g = Move(s, e, d, L),
         NEW Q, Q = {g[i] : i \in P}
  PROVE  /\ Due(u) = Due(s) \cup Q
         /\ \A a \in Due(s), b \in Q : a < b
         /\ Moves(g, e, P, u, Q)
<1> DEFINE N == Len(s)
<1>0. /\ N \in Nat /\ Len(e) \in Nat /\ d \in {0, 1} /\ Len(u) = N + Len(e) - d
      /\ d = 1 => 1 \in 1 .. Len(e)
      /\ s \in Seq(Events) /\ e \in Seq(Events) /\ u \in Seq(Events)
      /\ mode \in [Types -> {"none", "all", "aperture"}]
  BY DEF Placed, FilterInv
<1>1. \A i \in P : i \in 1 .. Len(e) /\ i \in Due(e) /\ i \notin Again
  BY DEF Due
<1>2. ASSUME NEW i \in 1 .. Len(e), i > d
      PROVE  /\ g[i] = N + i - d /\ u[g[i]] = e[i] /\ g[i] > N /\ g[i] \in 1 .. Len(u)
             /\ g[i] \in Due(u) <=> i \in Due(e)
             /\ i \notin Again
  <2>1. g[i] = N + i - d  BY <1>2 DEF Move
  <2>2. u[N + i - d] = e[i]  BY <1>2 DEF Placed
  <2>3. N + i - d > N /\ N + i - d \in 1 .. Len(u)  BY <1>0, <1>2
  <2>4. i \notin Again  BY <1>0, <1>2 DEF Again
  <2>5. /\ EventPasses(u, N + i - d) <=> EventPasses(e, i)
        /\ SyncPasses(u, N + i - d) <=> SyncPasses(e, i)
    BY <1>0, <1>2, SyncBehind
  <2>6. N + i - d \in Due(u) <=> i \in Due(e)  BY <2>3, <2>5 DEF Due
  <2> QED BY <2>1, <2>2, <2>3, <2>4, <2>6
(* The place of the SYNC that comes again                                  *)
<1>3. ASSUME NEW i \in 1 .. Len(e), ~(i > d)
      PROVE  /\ i = 1 /\ d = 1 /\ g[i] = L /\ L \in 1 .. N /\ u[g[i]] = e[i] /\ e[i].type = Sync
             /\ LastSync(s, N) = {L} /\ previous # Never
             /\ \A k \in (L + 1) .. N : s[k].type # Sync
  <2>1. i = 1 /\ d = 1  BY <1>0, <1>3
  <2>2. /\ L \in 1 .. N /\ s[L] = e[1] /\ s[L].type = Sync
        /\ \A k \in (L + 1) .. N : s[k].type # Sync
    BY <2>1 DEF Placed
  <2>3. g[i] = L  BY <1>3 DEF Move
  <2>4. u[L] = s[L]  BY <2>2 DEF Placed
  <2>5. LastSync(s, N) = {L}  BY <1>0, <2>2, LastIs
  <2> QED BY <2>1, <2>2, <2>3, <2>4, <2>5 DEF Reinserted
<1>4. ASSUME NEW i \in P, ~(i > d)
      PROVE  mode[Sync] = "aperture" /\ L \notin Due(s) /\ L \in Due(u)
  <2>1. i \in 1 .. Len(e) /\ i = 1 /\ d = 1 /\ LastSync(s, N) = {L} /\ previous # Never
    BY <1>1, <1>3, <1>4
  <2>2. ~reported  BY <1>1, <2>1 DEF Again
  <2>3. mode[Sync] = "aperture" /\ L \notin Due(s)  BY <2>1, <2>2 DEF FilterInv
  <2>4. SyncPasses(e, 1)
    <3>1. e[1].type = Sync  BY <1>3, <1>4, <2>1
    <3> QED BY <1>1, <2>1, <3>1 DEF Due, EventPasses
  <2>5. PICK k \in 2 .. Len(e) : EventPasses(e, k) /\ \A j \in 2 .. k : e[j].type # Sync
    <3>1. 1 + 1 = 2 /\ "aperture" # "all"  OBVIOUS
    <3> QED BY <2>3, <2>4, <3>1 DEF SyncPasses
  <2>6. /\ L \in 1 .. N /\ s[L].type = Sync /\ \A j \in (L + 1) .. N : s[j].type # Sync
        /\ u[L] = s[L]
    BY <2>1 DEF Placed
  <2>7. k \in 1 .. Len(e) /\ k > d /\ N + k - d \in (L + 1) .. Len(u)  BY <1>0, <2>1, <2>5, <2>6
  <2>8. EventPasses(u, N + k - d)  BY <1>0, <2>5, <2>7, SyncBehind
  <2>9. \A j \in (L + 1) .. (N + k - d) : u[j].type # Sync
    <3> TAKE j \in (L + 1) .. (N + k - d)
    <3>1. CASE j <= N
      <4>1. j \in (L + 1) .. N /\ j \in 1 .. N  BY <1>0, <2>6, <3>1
      <4>2. u[j] = s[j]  BY <4>1 DEF Placed
      <4> QED BY <2>6, <4>1, <4>2
    <3>2. CASE ~(j <= N)
      <4>0. j \in Int /\ N < j /\ j <= N + k - 1  BY <1>0, <2>1, <2>6, <3>2
      <4>1. j - N + d \in 2 .. k /\ j - N + d \in 1 .. Len(e) /\ j - N + d > d
            /\ j = N + (j - N + d) - d
        BY <1>0, <2>1, <2>5, <4>0
      <4>2. u[j] = e[j - N + d]  BY <4>1 DEF Placed
      <4> QED BY <2>5, <4>1, <4>2
    <3> QED BY <3>1, <3>2
  <2>10. SyncPasses(u, L)  BY <2>3, <2>6, <2>7, <2>8, <2>9 DEF SyncPasses
  <2>11. L \in 1 .. Len(u)  BY <1>0, <2>1, <2>6
  <2> QED BY <2>3, <2>10, <2>11 DEF Due
<1>5. ASSUME NEW p \in Due(u) PROVE p \in Due(s) \cup Q
  <2>0. p \in 1 .. Len(u)  BY DEF Due
  <2>1. CASE p \in 1 .. N
    <3> SUFFICES ASSUME p \notin Due(s) PROVE p \in Q  OBVIOUS
    <3>1. mode[Sync] = "aperture" /\ d = 1 /\ p = L /\ SyncPasses(e, 1)
      BY <1>0, <2>1, DueBefore
    <3>2. 1 \in 1 .. Len(e) /\ ~(1 > d)  BY <1>0, <3>1
    <3>3. g[1] = L /\ LastSync(s, N) = {L} /\ previous # Never  BY <1>3, <3>2
    <3>4. ~reported  BY <3>1, <3>3 DEF FilterInv
    <3>5. 1 \in P  BY <3>1, <3>2, <3>4 DEF Due, Again
    <3> QED BY <3>1, <3>3, <3>5
  <2>2. CASE ~(p \in 1 .. N)
    <3>0. p \in Int /\ N < p /\ p <= N + Len(e) - d  BY <1>0, <2>0, <2>2
    <3>1. p - N + d \in 1 .. Len(e) /\ p - N + d > d /\ p = N + (p - N + d) - d  BY <1>0, <3>0
    <3>2. p = g[p - N + d] /\ p - N + d \in Due(e) /\ p - N + d \notin Again  BY <1>2, <3>1
    <3>3. p - N + d \in P  BY <3>2
    <3> QED BY <3>2, <3>3
  <2> QED BY <2>1, <2>2
<1>6. Due(s) \subseteq Due(u)
  <2>1. Due(s) \subseteq 1 .. N  BY DEF Due
  <2> QED BY <1>0, <2>1, DueBefore
<1>7. \A i \in P : g[i] \in Due(u)
  <2> TAKE i \in P
  <2>1. CASE i > d  BY <1>1, <1>2, <2>1
  <2>2. CASE ~(i > d)  BY <1>1, <1>3, <1>4, <2>2
  <2> QED BY <2>1, <2>2
<1>8. Due(u) = Due(s) \cup Q  BY <1>5, <1>6, <1>7
<1>9. ASSUME NEW a \in Due(s), NEW i \in P PROVE a < g[i]
  <2>1. a \in 1 .. N  BY DEF Due
  <2>2. CASE i > d
    <3>1. g[i] > N /\ g[i] \in 1 .. Len(u)  BY <1>1, <1>2, <2>2
    <3> QED BY <1>0, <2>1, <3>1
  <2>3. CASE ~(i > d)
    <3>1. /\ g[i] = L /\ L \in 1 .. N /\ \A k \in (L + 1) .. N : s[k].type # Sync
          /\ mode[Sync] = "aperture" /\ L \notin Due(s)
      BY <1>1, <1>3, <1>4, <2>3
    <3>2. ~(L < a)
      <4> SUFFICES ASSUME L < a PROVE FALSE  OBVIOUS
      <4>1. a \in (L + 1) .. N  BY <1>0, <2>1, <3>1
      <4>2. EventPasses(s, a)  BY <3>1, <4>1 DEF Due, SyncPasses
      <4>3. \A j \in (L + 1) .. a : j \in (L + 1) .. N  BY <1>0, <2>1
      <4>4. s[L].type = Sync
        <5>1. d = 1  BY <1>1, <1>3, <2>3
        <5> QED BY <5>1 DEF Placed
      <4>5. SyncPasses(s, L)  BY <3>1, <4>1, <4>2, <4>3, <4>4 DEF SyncPasses
      <4> QED BY <3>1, <4>5 DEF Due
    <3> QED BY <1>0, <2>1, <3>1, <3>2
  <2> QED BY <2>2, <2>3
<1>10. Moves(g, e, P, u, Q)
  <2>1. \A i \in P : g[i] \in Q /\ u[g[i]] = e[i]
    <3> TAKE i \in P
    <3>1. u[g[i]] = e[i]  BY <1>1, <1>2, <1>3
    <3> QED BY <3>1
  <2>2. \A i \in P : g[i] \in Nat
    <3> TAKE i \in P
    <3>1. CASE i > d  BY <1>0, <1>1, <1>2, <3>1
    <3>2. CASE ~(i > d)  BY <1>0, <1>1, <1>3, <3>2
    <3> QED BY <3>1, <3>2
  <2>3. Q \subseteq Nat  BY <2>2
  <2>4. \A i, j \in P : i < j => g[i] < g[j]
    <3> SUFFICES ASSUME NEW i \in P, NEW j \in P, i < j PROVE g[i] < g[j]  OBVIOUS
    <3>1. i \in 1 .. Len(e) /\ j \in 1 .. Len(e)  BY <1>1
    <3>2. j > d  BY <1>0, <3>1
    <3>3. g[j] = N + j - d /\ g[j] > N  BY <1>2, <3>1, <3>2
    <3>4. CASE i > d
      <4>1. g[i] = N + i - d  BY <1>2, <3>1, <3>4
      <4> QED BY <1>0, <3>1, <3>3, <4>1
    <3>5. CASE ~(i > d)
      <4>1. g[i] = L /\ L \in 1 .. N  BY <1>3, <3>1, <3>5
      <4> QED BY <1>0, <2>2, <3>3, <4>1
    <3> QED BY <3>4, <3>5
  <2> QED BY <2>1, <2>3, <2>4 DEF Moves
<1> QED BY <1>8, <1>9, <1>10

(* What should pass of the stream and a batch is what should pass of the   *)
(* stream, and what the filter passes of the batch.                        *)
LEMMA WantedOfMore ==
  ASSUME NEW s, FilterInv(s), NEW batch \in Seq(Events)
  PROVE  /\ Wanted(s) \in Seq(Events) /\ Passed(batch) \in Seq(Events)
         /\ Wanted(s \o batch) = Wanted(s) \o Passed(batch)
<1> DEFINE e == Presented(batch)
           u == s \o batch
<1>1. PICK d, L : Placed(s, e, u, d, L) /\ (d = 1 <=> Reinserted)  BY Placement
<1> HIDE DEF u
<1>2. /\ s \in Seq(Events) /\ e \in Seq(Events) /\ u \in Seq(Events) /\ Len(s) \in Nat
      /\ \A p \in 1 .. Len(s) : u[p] = s[p]
      /\ Reinserted => 1 \in 1 .. Len(e) /\ e[1].type = Sync
  BY <1>1 DEF Placed
<1> DEFINE P == Due(e) \ Again
           g == Move(s, e, d, L)
           Q == {g[i] : i \in P}
<1> HIDE DEF e
<1>3. Picks(e, P, Passed(batch)) /\ Passed(batch) \in Seq(Events)
  BY <1>2, PassedPicks DEF e, FilterInv
<1>4. /\ Due(u) = Due(s) \cup Q
      /\ \A a \in Due(s), b \in Q : a < b
      /\ Moves(g, e, P, u, Q)
  BY <1>1, DueOfMore
<1> HIDE DEF P, g, Q
<1>5. Due(s) \in SUBSET (1 .. Len(s)) /\ Due(u) \in SUBSET (1 .. Len(u))  BY DEF Due
<1>6. Picks(s, Due(s), Wanted(s)) /\ Wanted(s) \in Seq(Events)
  BY <1>2, <1>5, PickedPicks DEF Wanted
<1>7. Picks(u, Due(u), Wanted(u))
  BY <1>2, <1>5, PickedPicks DEF Wanted
<1>8. Picks(u, Q, Passed(batch))  BY <1>3, <1>4, PicksElsewhere
<1>9. Picks(u, Due(s), Wanted(s))
  <2> DEFINE f == [p \in Due(s) |-> p]
  <2>1. \A p \in Due(s) : f[p] = p /\ u[p] = s[p] /\ p \in Nat  BY <1>2, <1>5
  <2> HIDE DEF f
  <2>2. Moves(f, s, Due(s), u, Due(s))  BY <2>1 DEF Moves
  <2> QED BY <1>6, <2>2, PicksElsewhere
<1>10. Picks(u, Due(s) \cup Q, Wanted(s) \o Passed(batch))
  BY <1>3, <1>4, <1>6, <1>8, <1>9, PicksJoin
<1>11. Wanted(u) = Wanted(s) \o Passed(batch)
  BY <1>4, <1>7, <1>10, PicksOnce
<1> QED BY <1>3, <1>6, <1>11 DEF u

(* What the filter remembers afterwards. *)
LEMMA FilterKept ==
  ASSUME FilterInv(stream), NEW batch \in Seq(Events), Remember(batch)
  PROVE  FilterInv(stream)'
<1> DEFINE s == stream
           e == Presented(batch)
           u == s \o batch
           sync == LastSync(batch, Len(batch))
           B == Len(batch)
<1>1. PICK d, L : Placed(s, e, u, d, L) /\ (d = 1 <=> Reinserted)  BY Placement
<1>2. /\ stream' = u /\ mode' = mode
      /\ previous' = IF sync = {} THEN previous ELSE batch[CHOOSE i \in sync : TRUE].time
      /\ reported' = (~Withheld(Selected(batch)) /\ (reported \/ Reinserted \/ sync # {}))
  BY DEF Remember
<1> DEFINE N == Len(s)
           P == Due(e) \ Again
           g == Move(s, e, d, L)
           Q == {g[i] : i \in P}
<1>3. /\ N \in Nat /\ B \in Nat /\ Len(u) = N + B
      /\ \A p \in 1 .. N : u[p] = s[p]
      /\ \A p \in 1 .. B : u[N + p] = batch[p] /\ N + p \in 1 .. Len(u)
      /\ s \in Seq(Events) /\ u \in Seq(Events)
  <2>1. s \in Seq(Events)  BY DEF FilterInv
  <2>2. /\ u \in Seq(Events) /\ N \in Nat /\ B \in Nat /\ Len(u) = N + B
        /\ \A i \in 1 .. N + B : u[i] = IF i <= N THEN s[i] ELSE batch[i - N]
    BY <2>1, ConcatProperties, LenProperties
  <2> HIDE DEF u
  <2>3. \A p \in 1 .. N : u[p] = s[p]
    <3> TAKE p \in 1 .. N
    <3>1. p \in 1 .. N + B /\ p <= N  BY <2>2
    <3> QED BY <2>2, <3>1
  <2>4. \A p \in 1 .. B : u[N + p] = batch[p] /\ N + p \in 1 .. Len(u)
    <3> TAKE p \in 1 .. B
    <3>1. N + p \in 1 .. N + B /\ ~(N + p <= N) /\ N + p - N = p  BY <2>2
    <3> QED BY <2>2, <3>1
  <2> QED BY <2>1, <2>2, <2>3, <2>4
<1> HIDE DEF u, e
<1>4. /\ e \in Seq(Events) /\ Len(e) \in Nat /\ Len(u) = N + Len(e) - d /\ d \in {0, 1}
      /\ \A i \in 1 .. Len(e) : i > d => u[N + i - d] = e[i]
  BY <1>1 DEF Placed
<1>41. Len(e) = B + d /\ d \in Int
  <2> HIDE DEF N, B
  <2> QED BY <1>3, <1>4
<1>42. ASSUME d = 1
       PROVE  /\ L \in 1 .. N /\ 1 \in 1 .. Len(e) /\ s[L] = e[1] /\ s[L].type = Sync
              /\ \A k \in (L + 1) .. N : s[k].type # Sync
  BY <1>1, <1>42 DEF Placed
<1>43. Reinserted => 1 \in 1 .. Len(e) /\ e[1].type = Sync  BY <1>1, <1>42
<1>5. /\ mode \in [Types -> {"none", "all", "aperture"}]
      /\ previous \in {Never} \cup 1 .. MaxEvents /\ reported \in BOOLEAN
      /\ LastSync(s, N) = {} => previous = Never
      /\ \A j \in LastSync(s, N) : previous = s[j].time
      /\ mode[Sync] = "aperture" => (reported <=> \E j \in LastSync(s, N) : j \in Due(s))
      /\ mode[Sync] # "aperture" /\ previous # Never => reported
  BY DEF FilterInv
<1>6. Due(u) = Due(s) \cup Q /\ \A i \in P : g[i] \in Q
  <2>1. FilterInv(s)  OBVIOUS
  <2>2. /\ Due(u) = Due(s) \cup Q
        /\ \A a \in Due(s), b \in Q : a < b
        /\ Moves(g, e, P, u, Q)
    <3> HIDE DEF s
    <3> QED BY <1>1, <2>1, DueOfMore
  <2> QED BY <2>2
<1>7. mode[Sync] = "aperture" => (Reinserted <=> previous # Never)
  BY DEF Reinserted, Types
<1>8. Due(e) \subseteq 1 .. Len(e) /\ Due(s) \subseteq 1 .. N /\ Chosen(e) \subseteq 1 .. Len(e)
  BY DEF Due, Chosen
<1>9. ASSUME mode[Sync] = "aperture"
      PROVE  \A i \in 1 .. Len(e) :
               i \in Chosen(e) <=> i \notin Again /\ (e[i].type = Sync \/ EventPasses(e, i))
  BY <1>4, <1>43, <1>5, <1>9, ChosenIs
<1>10. mode[Sync] = "aperture" =>
         (Withheld(Selected(batch)) <=>
            \E i \in Chosen(e) : e[i].type = Sync /\ \A k \in Chosen(e) : k <= i)
  BY <1>4, <1>5, WithheldIs DEF e
<1>11. \A i \in 1 .. Len(e) : g[i] = IF i > d THEN N + i - d ELSE L
  BY DEF Move
(* A SYNC of e that is the last in e is withheld if it is not followed.    *)
<1>12. ASSUME mode[Sync] = "aperture", NEW l \in 1 .. Len(e), e[l].type = Sync,
              \A k \in (l + 1) .. Len(e) : e[k].type # Sync
       PROVE  ~Withheld(Selected(batch)) <=> l \in Again \/ SyncPasses(e, l)
  <2>1. ASSUME l \notin Again, ~SyncPasses(e, l) PROVE Withheld(Selected(batch))
    <3>1. l \in Chosen(e)  BY <1>9, <1>12, <2>1
    <3>2. \A k \in Chosen(e) : k <= l
      <4> SUFFICES ASSUME NEW k \in Chosen(e), ~(k <= l) PROVE FALSE  OBVIOUS
      <4>1. k \in 1 .. Len(e) /\ k \in (l + 1) .. Len(e)  BY <1>3, <1>4, <1>41, <1>8
      <4>2. EventPasses(e, k)  BY <1>9, <1>12, <4>1
      <4>3. \A j \in (l + 1) .. k : j \in (l + 1) .. Len(e)  BY <1>3, <1>4, <1>41, <4>1
      <4>4. SyncPasses(e, l)  BY <1>12, <4>1, <4>2, <4>3 DEF SyncPasses
      <4> QED BY <2>1, <4>4
    <3> QED BY <1>10, <1>12, <3>1, <3>2
  <2>2. ASSUME l \in Again \/ SyncPasses(e, l), Withheld(Selected(batch)) PROVE FALSE
    <3>1. PICK i \in Chosen(e) : e[i].type = Sync /\ \A k \in Chosen(e) : k <= i
      BY <1>10, <1>12, <2>2
    <3>2. i \in 1 .. Len(e) /\ i \notin Again  BY <1>8, <1>9, <1>12
    <3>3. i <= l
      <4> SUFFICES ASSUME ~(i <= l) PROVE FALSE  OBVIOUS
      <4>1. i \in (l + 1) .. Len(e)  BY <1>3, <1>4, <1>41, <3>2
      <4> QED BY <1>12, <3>1, <4>1
    <3>4. CASE l \in Again
      <4>1. l = 1  BY <3>4 DEF Again
      <4> QED BY <3>2, <3>3, <3>4, <4>1
    <3>5. CASE SyncPasses(e, l)
      <4>1. PICK k \in (l + 1) .. Len(e) : EventPasses(e, k)
        <5>1. "aperture" # "all"  OBVIOUS
        <5> QED BY <1>12, <3>5, <5>1 DEF SyncPasses
      <4>2. k \in 1 .. Len(e) /\ l < k  BY <1>3, <1>4, <1>41
      <4>3. k \notin Again  BY <4>1, <4>2 DEF Again
      <4>4. k \in Chosen(e)  BY <1>9, <1>12, <4>1, <4>2, <4>3
      <4> QED BY <3>1, <3>2, <3>3, <4>2, <4>4
    <3> QED BY <2>2, <3>4, <3>5
  <2> QED BY <2>1, <2>2
<1>13. Due(stream)' = Due(u)
  BY <1>2 DEF u, Due, EventPasses, SyncPasses, Admitted
(* There is a last SYNC, or there is none.                                 *)
<1>14. ASSUME NEW l, LastSync(u, N + B) = {l}, previous' = u[l].time, u[l] \in Events,
              mode[Sync] = "aperture" => (reported' <=> l \in Due(u)),
              mode[Sync] # "aperture" => reported', reported' \in BOOLEAN
       PROVE  FilterInv(stream)'
  <2>1. previous' \in {Never} \cup 1 .. MaxEvents  BY <1>14 DEF Events
  <2> HIDE DEF u
  <2> QED BY <1>2, <1>3, <1>5, <1>13, <1>14, <2>1 DEF FilterInv
<1>15. ASSUME LastSync(u, N + B) = {}, previous' = Never, mode[Sync] = "aperture" => ~reported',
              reported' \in BOOLEAN
       PROVE  FilterInv(stream)'
  <2> HIDE DEF u
  <2> QED BY <1>2, <1>3, <1>5, <1>13, <1>15 DEF FilterInv
<1>16. reported' \in BOOLEAN  BY <1>2 DEF Withheld
<1>17. mode[Sync] # "aperture" => ~Withheld(Selected(batch))  BY DEF Withheld
<1>20. CASE sync # {}
  <2>1. PICK j : j \in sync  BY <1>20
  <2>2. j \in 1 .. B /\ batch[j].type = Sync /\ \A k \in (j + 1) .. B : batch[k].type # Sync
    BY <2>1 DEF LastSync
  <2>3. sync = {j}  BY <1>3, <2>2, LastIs
  <2>4. previous' = batch[j].time  BY <1>2, <2>3
  <2> HIDE DEF u, e, sync, N, B, P, g, Q
  <2>5. N + j \in 1 .. N + B /\ N + j \in 1 .. Len(u) /\ u[N + j] = batch[j]  BY <1>3, <2>2
  <2>6. \A k \in (N + j + 1) .. (N + B) : u[k].type # Sync
    <3> TAKE k \in (N + j + 1) .. (N + B)
    <3>1. k - N \in (j + 1) .. B /\ k - N \in 1 .. B /\ k = N + (k - N)  BY <1>3, <2>2
    <3> QED BY <1>3, <2>2, <3>1
  <2>7. LastSync(u, N + B) = {N + j}
    <3>1. N + B \in Nat  BY <1>3
    <3> QED BY <2>2, <2>5, <2>6, <3>1, LastIs
  <2>8. u[N + j] \in Events  BY <1>3, <2>5, ElementOfSeq
  <2> DEFINE l == j + d
  <2>9. l \in 1 .. Len(e) /\ l > d /\ N + l - d = N + j  BY <1>3, <1>4, <1>41, <2>2
  <2>10. e[l] = u[N + j]  BY <1>4, <2>9
  <2>11. \A k \in (l + 1) .. Len(e) : e[k].type # Sync
    <3> TAKE k \in (l + 1) .. Len(e)
    <3>1. N \in Nat /\ B \in Nat /\ d \in 0 .. 1 /\ Len(e) = B + d /\ j \in 1 .. B
      BY <1>3, <1>4, <1>41, <2>2
    <3>2. k \in 1 .. Len(e) /\ k > d /\ N + k - d \in (N + j + 1) .. (N + B)
      BY <3>1 DEF l
    <3> QED BY <1>4, <2>6, <3>2
  <2>12. l \notin Again  BY <1>1, <2>9 DEF Again
  <2> HIDE DEF l
  <2>13. mode[Sync] = "aperture" => (~Withheld(Selected(batch)) <=> SyncPasses(e, l))
    BY <1>12, <2>2, <2>5, <2>9, <2>10, <2>11, <2>12
  <2>14. SyncPasses(u, N + j) <=> SyncPasses(e, l)  BY <1>1, <1>5, <2>9, SyncBehind DEF N
  <2>15. N + j \in Due(u) <=> SyncPasses(u, N + j)
    BY <2>2, <2>5 DEF Due, EventPasses
  <2> QED BY <1>2, <1>14, <1>16, <1>17, <1>20, <2>4, <2>5, <2>7, <2>8, <2>13, <2>14, <2>15
<1>30. ASSUME sync = {}
       PROVE  /\ \A k \in 1 .. B : batch[k].type # Sync
              /\ \A k \in (N + 1) .. (N + B) : u[k].type # Sync
  <2>1. \A k \in 1 .. B : batch[k].type # Sync  BY <1>3, <1>30, SyncExists
  <2>2. \A k \in (N + 1) .. (N + B) : u[k].type # Sync
    <3> HIDE DEF u, N, B
    <3> TAKE k \in (N + 1) .. (N + B)
    <3>1. k - N \in 1 .. B /\ k = N + (k - N)  BY <1>3
    <3> QED BY <1>3, <2>1, <3>1
  <2> QED BY <2>1, <2>2
<1>21. CASE sync = {} /\ LastSync(s, N) # {}
  <2>1. PICK l : l \in LastSync(s, N)  BY <1>21
  <2>2. l \in 1 .. N /\ s[l].type = Sync /\ \A k \in (l + 1) .. N : s[k].type # Sync
    BY <2>1 DEF LastSync
  <2>3. LastSync(s, N) = {l}  BY <1>3, <2>2, LastIs
  <2>4. previous' = s[l].time /\ previous = s[l].time  BY <1>2, <1>5, <1>21, <2>1
  <2>0. \A k \in (N + 1) .. (N + B) : u[k].type # Sync  BY <1>21, <1>30
  <2>5. u[l] = s[l] /\ u[l] \in Events /\ l \in 1 .. N + B /\ l \in 1 .. Len(u)
    <3> HIDE DEF u, N, B
    <3>1. u[l] = s[l] /\ l \in 1 .. N + B /\ l \in 1 .. Len(u)  BY <1>3, <2>2
    <3> QED BY <1>3, <3>1, ElementOfSeq
  <2> HIDE DEF u, e, sync, N, B, P, g, Q
  <2>6. LastSync(u, N + B) = {l}
    <3>1. \A k \in (l + 1) .. (N + B) : u[k].type # Sync
      <4> TAKE k \in (l + 1) .. (N + B)
      <4>1. CASE k <= N
        <5>1. k \in (l + 1) .. N /\ k \in 1 .. N  BY <1>3, <2>2, <4>1
        <5> QED BY <1>3, <2>2, <5>1
      <4>2. CASE ~(k <= N)
        <5>1. k \in (N + 1) .. (N + B)  BY <1>3, <2>2, <4>2
        <5> QED BY <2>0, <5>1
      <4> QED BY <4>1, <4>2
    <3>2. N + B \in Nat  BY <1>3
    <3> QED BY <2>2, <2>5, <3>1, <3>2, LastIs
  <2>7. previous # Never  BY <2>4, <2>5 DEF Events, Never
  <2>8. CASE mode[Sync] # "aperture"
    <3>1. reported'  BY <1>2, <1>5, <1>17, <2>7, <2>8
    <3> QED BY <1>14, <1>16, <2>4, <2>5, <2>6, <2>8, <3>1
  <2>9. CASE mode[Sync] = "aperture"
    <3>1. Reinserted /\ d = 1  BY <1>1, <1>7, <2>7, <2>9
    <3>2. 1 \in 1 .. Len(e) /\ L \in 1 .. N /\ s[L] = e[1] /\ s[L].type = Sync
          /\ \A k \in (L + 1) .. N : s[k].type # Sync
      BY <1>42, <3>1
    <3>3. L = l
      <4>1. LastSync(s, N) = {L}  BY <1>3, <3>2, LastIs
      <4> QED BY <2>3, <4>1
    <3>4. \A k \in 2 .. Len(e) : e[k].type # Sync
      <4> TAKE k \in 2 .. Len(e)
      <4>1. k \in 1 .. Len(e) /\ k > d /\ N + k - d \in (N + 1) .. (N + B)  BY <1>3, <1>4, <1>41, <3>1
      <4> QED BY <1>4, <2>0, <4>1
    <3>5. ~Withheld(Selected(batch)) <=> 1 \in Again \/ SyncPasses(e, 1)
      <4>1. 1 + 1 = 2  OBVIOUS
      <4> QED BY <1>12, <2>9, <3>2, <3>4, <4>1
    <3>6. reported <=> L \in Due(s)  BY <1>5, <2>3, <2>9, <3>3
    <3>7. 1 \in Again <=> reported  BY <3>1 DEF Again
    <3>8. L \in Q <=> 1 \in P
      <4>1. 1 \in P => L \in Q  BY <1>6, <1>11, <3>1, <3>2
      <4>2. ASSUME L \in Q PROVE 1 \in P
        <5>1. PICK i \in P : g[i] = L  BY <4>2 DEF Q
        <5>2. i \in 1 .. Len(e)  BY <1>8 DEF P
        <5>3. ~(i > 1)  BY <1>3, <1>11, <3>1, <3>2, <5>1, <5>2
        <5>4. i = 1  BY <1>41, <1>4, <5>2, <5>3
        <5> QED BY <5>1, <5>4
      <4> QED BY <4>1, <4>2
    <3>9. 1 \in P <=> SyncPasses(e, 1) /\ ~reported
      BY <3>2, <3>7 DEF P, Due, EventPasses
    <3>10. L \in Due(u) <=> reported \/ SyncPasses(e, 1)  BY <1>6, <3>6, <3>8, <3>9
    <3>11. reported' <=> L \in Due(u)  BY <1>2, <3>1, <3>5, <3>7, <3>10
    <3> QED BY <1>14, <1>16, <2>4, <2>5, <2>6, <2>9, <3>3, <3>11
  <2> QED BY <2>8, <2>9
<1>22. CASE sync = {} /\ LastSync(s, N) = {}
  <2>1. previous' = Never /\ previous = Never  BY <1>2, <1>5, <1>22
  <2>2. \A k \in 1 .. N : s[k].type # Sync  BY <1>3, <1>22, SyncExists
  <2>3. \A k \in (N + 1) .. (N + B) : u[k].type # Sync  BY <1>22, <1>30
  <2>4. mode[Sync] = "aperture" => ~reported'
    <3>1. ~Reinserted  BY <2>1 DEF Reinserted
    <3> QED BY <1>2, <1>5, <1>22, <3>1
  <2> HIDE DEF u, e, sync, N, B, P, g, Q
  <2>5. \A k \in 1 .. N + B : u[k].type # Sync
    <3> TAKE k \in 1 .. N + B
    <3>1. k \in 1 .. N \/ k \in (N + 1) .. (N + B)  BY <1>3
    <3> QED BY <1>3, <2>2, <2>3, <3>1
  <2>6. LastSync(u, N + B) = {}  BY <2>5 DEF LastSync
  <2> QED BY <1>15, <1>16, <2>1, <2>4, <2>6
<1> QED BY <1>20, <1>21, <1>22

-----------------------------------------------------------------------------
(* The batches, one behind the other                                       *)

(* f is what the first batches of seqs make, one behind the other.         *)
Flat(f, n, seqs) ==
  f = [i \in 1 .. n |-> IF i = 1 THEN seqs[i] ELSE f[i - 1] \o seqs[i]]

LEMMA FlatExists ==
  ASSUME NEW S, NEW seqs \in Seq(Seq(S)), NEW n \in 1 .. Len(seqs)
  PROVE  \E f \in [1 .. n -> Seq(S)] : Flat(f, n, seqs)
<1>0. Len(seqs) \in Nat /\ \A i \in 1 .. Len(seqs) : seqs[i] \in Seq(S)
  BY LenProperties, ElementOfSeq
<1> DEFINE Has(m) == \E f \in [1 .. m -> Seq(S)] : Flat(f, m, seqs)
           Bad == {m \in Nat : m \in 1 .. Len(seqs) /\ ~Has(m)}
<1> SUFFICES ASSUME ~Has(n) PROVE FALSE  OBVIOUS
<1> HIDE DEF Has
<1>9. n \in Bad  BY <1>0
<1>1. PICK m \in Bad : \A k \in Bad : m <= k  BY <1>9, Smallest
<1>2. m \in Nat /\ m \in 1 .. Len(seqs) /\ ~Has(m)  BY <1>1
<1>3. CASE m = 1
  <2> DEFINE f == [i \in 1 .. 1 |-> seqs[i]]
  <2>1. f \in [1 .. 1 -> Seq(S)]  BY <1>0, <1>2, <1>3
  <2>2. Flat(f, 1, seqs)  BY DEF Flat
  <2> HIDE DEF f
  <2> QED BY <1>2, <1>3, <2>1, <2>2 DEF Has
<1>4. CASE m # 1
  <2>1. m - 1 \in Nat /\ m - 1 \in 1 .. Len(seqs) /\ m - 1 < m  BY <1>0, <1>2, <1>4
  <2>2. Has(m - 1)
    <3>1. ~(m <= m - 1)  BY <1>2
    <3> QED BY <1>1, <2>1, <3>1
  <2>3. PICK g \in [1 .. m - 1 -> Seq(S)] : Flat(g, m - 1, seqs)  BY <2>2 DEF Has
  <2> DEFINE f == [i \in 1 .. m |-> IF i = m THEN g[m - 1] \o seqs[m] ELSE g[i]]
  <2>4. m - 1 \in 1 .. m - 1  BY <2>1
  <2>5. g[m - 1] \o seqs[m] \in Seq(S)
    <3>1. g[m - 1] \in Seq(S) /\ seqs[m] \in Seq(S)  BY <1>0, <1>2, <2>4
    <3> QED BY <3>1, ConcatProperties
  <2>6. \A i \in 1 .. m : i = m \/ i \in 1 .. m - 1  BY <1>2
  <2>7. f \in [1 .. m -> Seq(S)]  BY <2>3, <2>5, <2>6
  <2>8. \A i \in 1 .. m - 1 : i \in 1 .. m /\ i # m /\ f[i] = g[i] /\ (i # 1 => i - 1 \in 1 .. m - 1)
    <3> TAKE i \in 1 .. m - 1
    <3>1. i \in 1 .. m /\ i # m /\ (i # 1 => i - 1 \in 1 .. m - 1)  BY <1>2
    <3> QED BY <3>1
  <2>9. m \in 1 .. m /\ f[m] = g[m - 1] \o seqs[m]
    <3>1. m \in 1 .. m  BY <1>2
    <3> QED BY <3>1
  <2> HIDE DEF f
  <2>10. \A i \in 1 .. m : f[i] = IF i = 1 THEN seqs[i] ELSE f[i - 1] \o seqs[i]
    <3> TAKE i \in 1 .. m
    <3>1. CASE i = m
      <4>1. f[m - 1] = g[m - 1]  BY <2>4, <2>8
      <4> QED BY <1>4, <2>9, <3>1, <4>1
    <3>2. CASE i \in 1 .. m - 1
      <4>1. g[i] = IF i = 1 THEN seqs[i] ELSE g[i - 1] \o seqs[i]  BY <2>3, <3>2 DEF Flat
      <4> QED BY <2>8, <3>2, <4>1
    <3> QED BY <2>6, <3>1, <3>2
  <2>11. Flat(f, m, seqs)
    <3>1. f = [i \in 1 .. m |-> f[i]]  BY <2>7
    <3> QED BY <2>10, <3>1 DEF Flat
  <2> QED BY <1>2, <2>7, <2>11 DEF Has
<1> QED BY <1>3, <1>4

LEMMA FlattenIs ==
  ASSUME NEW S, NEW seqs \in Seq(Seq(S)), Len(seqs) # 0
  PROVE  \E f : Flat(f, Len(seqs), seqs) /\ FlattenSeq(seqs) = f[Len(seqs)]
<1>0. Len(seqs) \in Nat  BY LenProperties
<1>1. Len(seqs) \in 1 .. Len(seqs)  BY <1>0
<1>2. PICK f : Flat(f, Len(seqs), seqs)  BY <1>1, FlatExists
<1> DEFINE c == CHOOSE g : Flat(g, Len(seqs), seqs)
<1>3. Flat(c, Len(seqs), seqs)  BY <1>2
<1>4. FlattenSeq(seqs) = c[Len(seqs)]  BY DEF FlattenSeq, Flat
<1> QED BY <1>3, <1>4

(* Two of them are the same as far as their batches are.                   *)
Same(s, t, k) == \A i \in 1 .. k : s[i] = t[i]

LEMMA FlatAgrees ==
  ASSUME NEW f, NEW g, NEW n \in Nat, NEW m \in Nat, NEW k \in Nat, k <= n, k <= m,
         NEW seqs, NEW more, Same(seqs, more, k), Flat(f, n, seqs), Flat(g, m, more)
  PROVE  Same(f, g, k)
<1> USE DEF Same
<1> DEFINE Bad == {i \in Nat : i \in 1 .. k /\ f[i] # g[i]}
<1> SUFFICES ASSUME Bad # {} PROVE FALSE  OBVIOUS
<1>1. PICK b \in Bad : \A i \in Bad : b <= i  BY Smallest
<1>2. b \in 1 .. k /\ b \in 1 .. n /\ b \in 1 .. m /\ b \in Nat  BY <1>1
<1>3. f[b] = IF b = 1 THEN seqs[b] ELSE f[b - 1] \o seqs[b]  BY <1>2 DEF Flat
<1>4. g[b] = IF b = 1 THEN more[b] ELSE g[b - 1] \o more[b]  BY <1>2 DEF Flat
<1>5. b # 1 => f[b - 1] = g[b - 1]
  <2> SUFFICES ASSUME b # 1 PROVE f[b - 1] = g[b - 1]  OBVIOUS
  <2>1. b - 1 \in 1 .. k /\ b - 1 \in Nat /\ ~(b <= b - 1)  BY <1>2
  <2> QED BY <1>1, <2>1
<1> QED BY <1>1, <1>2, <1>3, <1>4, <1>5

LEMMA FlattenType ==
  ASSUME NEW S, NEW seqs \in Seq(Seq(S))
  PROVE  FlattenSeq(seqs) \in Seq(S) /\ FlattenSeq(<<>>) = <<>>
<1>0. Len(seqs) \in Nat  BY LenProperties
<1>1. FlattenSeq(<<>>) = <<>>  BY DEF FlattenSeq
<1>2. CASE Len(seqs) = 0
  <2>1. FlattenSeq(seqs) = <<>>
    <3>1. seqs = <<>>  BY <1>2, EmptySeq
    <3> QED BY <1>1, <3>1
  <2>2. <<>> \in Seq(S)  OBVIOUS
  <2> QED BY <1>1, <2>1, <2>2
<1>3. CASE Len(seqs) # 0
  <2>1. PICK f : Flat(f, Len(seqs), seqs) /\ FlattenSeq(seqs) = f[Len(seqs)]
    BY <1>3, FlattenIs
  <2>2. Len(seqs) \in 1 .. Len(seqs)  BY <1>0, <1>3
  <2>3. PICK g \in [1 .. Len(seqs) -> Seq(S)] : Flat(g, Len(seqs), seqs)  BY <2>2, FlatExists
  <2>4. \A i \in 1 .. Len(seqs) : f[i] = g[i]
    <3> DEFINE n == Len(seqs)
    <3>1. /\ n \in Nat /\ n <= n /\ Flat(f, n, seqs) /\ Flat(g, n, seqs)
          /\ Same(seqs, seqs, n)
      BY <1>0, <2>1, <2>3 DEF Same
    <3> HIDE DEF n
    <3>2. Same(f, g, n)  BY <3>1, FlatAgrees
    <3> QED BY <3>2 DEF n, Same
  <2> QED BY <1>1, <2>1, <2>2, <2>3, <2>4
<1> QED BY <1>2, <1>3

LEMMA FlattenAppend ==
  ASSUME NEW S, NEW seqs \in Seq(Seq(S)), NEW x \in Seq(S)
  PROVE  FlattenSeq(Append(seqs, x)) = FlattenSeq(seqs) \o x
<1> DEFINE more == Append(seqs, x)
           n == Len(seqs)
<1>1. /\ more \in Seq(Seq(S)) /\ n \in Nat /\ Len(more) = n + 1
      /\ \A i \in 1 .. n : more[i] = seqs[i]
      /\ more[n + 1] = x
  BY LenProperties, AppendProperties
<1> HIDE DEF more
<1>2. PICK g : Flat(g, n + 1, more) /\ FlattenSeq(more) = g[n + 1]
  <2>1. Len(more) # 0  BY <1>1
  <2> QED BY <1>1, <2>1, FlattenIs
<1>3. n + 1 \in 1 .. n + 1  BY <1>1
<1>4. g[n + 1] = IF n + 1 = 1 THEN x ELSE g[(n + 1) - 1] \o x
  BY <1>1, <1>2, <1>3 DEF Flat
<1>5. CASE n = 0
  <2>1. seqs = <<>>  BY <1>5, EmptySeq
  <2>2. FlattenSeq(seqs) \o x = x  BY <2>1, FlattenType, ConcatEmptySeq
  <2> QED BY <1>2, <1>4, <1>5, <2>2 DEF more
<1>6. CASE n # 0
  <2>1. PICK f : Flat(f, n, seqs) /\ FlattenSeq(seqs) = f[n]  BY <1>6, FlattenIs
  <2>2. n \in 1 .. n /\ (n + 1) - 1 = n /\ n + 1 # 1 /\ n <= n + 1 /\ n + 1 \in Nat  BY <1>1, <1>6
  <2>3. f[n] = g[n]
    <3> HIDE DEF n
    <3>0. n \in Nat /\ n <= n /\ Same(seqs, more, n)  BY <1>1 DEF Same
    <3>1. Same(f, g, n)  BY <1>2, <2>1, <2>2, <3>0, FlatAgrees
    <3> QED BY <2>2, <3>1 DEF Same
  <2> QED BY <1>2, <1>4, <2>1, <2>2, <2>3 DEF more
<1> QED BY <1>5, <1>6

(* Concatenation, with its types in one hypothesis.                        *)
Three(S, a, b, c) == a \in Seq(S) /\ b \in Seq(S) /\ c \in Seq(S)
LEMMA Regroup ==
  ASSUME NEW S, NEW a, NEW b, NEW c, Three(S, a, b, c)
  PROVE  (a \o b) \o c = a \o (b \o c)
BY ConcatAssociative DEF Three

LEMMA FlattenConcat ==
  ASSUME NEW S, NEW seqs \in Seq(Seq(S)), NEW more \in Seq(Seq(S))
  PROVE  FlattenSeq(seqs \o more) = FlattenSeq(seqs) \o FlattenSeq(more)
<1> DEFINE Wrong(t) == FlattenSeq(seqs \o t) # FlattenSeq(seqs) \o FlattenSeq(t)
           Bad == {n \in Nat : \E t \in Seq(Seq(S)) : Len(t) = n /\ Wrong(t)}
<1> SUFFICES ASSUME Bad # {} PROVE FALSE
  <2>1. Len(more) \in Nat  BY LenProperties
  <2> QED BY <2>1
<1>1. PICK n \in Bad : \A k \in Bad : n <= k  BY Smallest
<1>2. PICK t \in Seq(Seq(S)) : Len(t) = n /\ Wrong(t)  BY <1>1
<1>3. n \in Nat  BY <1>1
<1>4. FlattenSeq(seqs) \in Seq(S)  BY FlattenType
<1> HIDE DEF Wrong, Bad
<1>5. CASE n = 0
  <2>1. t = <<>>  BY <1>2, <1>5, EmptySeq
  <2>2. seqs \o t = seqs  BY <2>1, ConcatEmptySeq
  <2>3. FlattenSeq(seqs) \o FlattenSeq(t) = FlattenSeq(seqs)
    BY <1>4, <2>1, FlattenType, ConcatEmptySeq
  <2> QED BY <1>2, <2>2, <2>3 DEF Wrong
<1>6. CASE n # 0
  <2> DEFINE d == SubSeq(t, 1, n - 1)
             x == t[n]
  <2>0. n \in 1 .. n /\ 1 \in 1 .. n /\ n - 1 \in Nat /\ ~(n <= n - 1)  BY <1>3, <1>6
  <2>1. x \in Seq(S)  BY <1>2, <2>0, ElementOfSeq
  <2>2. d \in Seq(Seq(S)) /\ Len(d) = n - 1
    <3>1. \A i \in 1 .. n - 1 : t[i] \in Seq(S)
      <4>1. \A i \in 1 .. n - 1 : i \in 1 .. Len(t)  BY <1>2, <1>3
      <4> QED BY <1>2, <4>1, ElementOfSeq
    <3>2. 1 <= n - 1 \/ n - 1 = 0  BY <2>0
    <3> QED BY <2>0, <3>1, <3>2, SubSeqProperties
  <2>3. t = d \o <<x>>
    <3>1. SubSeq(t, 1, n) = d \o <<x>>  BY <1>2, <2>0, SubSeqRecursiveSecond
    <3>2. SubSeq(t, 1, n) = t  BY <1>2, SubSeqFull
    <3> QED BY <3>1, <3>2
  <2> HIDE DEF d, x
  <2>4. <<x>> \in Seq(Seq(S))  BY <2>1
  <2>5. Append(d, x) = d \o <<x>>  BY <2>1, <2>2, AppendIsConcat
  <2>6. seqs \o t = Append(seqs \o d, x)
    <3>1. seqs \o d \in Seq(Seq(S))  BY <2>2, ConcatProperties
    <3>2. Append(seqs \o d, x) = (seqs \o d) \o <<x>>  BY <2>1, <3>1, AppendIsConcat
    <3>3. (seqs \o d) \o <<x>> = seqs \o (d \o <<x>>)
      <4> DEFINE y == <<x>>
                 T == Seq(S)
      <4>1. Three(T, seqs, d, y)  BY <2>2, <2>4 DEF Three
      <4> HIDE DEF y, T
      <4>2. (seqs \o d) \o y = seqs \o (d \o y)  BY <4>1, Regroup
      <4> QED BY <4>2 DEF y
    <3> QED BY <2>3, <3>2, <3>3
  <2>7. FlattenSeq(seqs \o d) = FlattenSeq(seqs) \o FlattenSeq(d)
    <3>1. n - 1 \notin Bad  BY <1>1, <2>0
    <3> QED BY <2>0, <2>2, <3>1 DEF Bad, Wrong
  <2>8. FlattenSeq(t) = FlattenSeq(d) \o x  BY <2>1, <2>2, <2>3, <2>5, FlattenAppend
  <2>9. FlattenSeq(seqs \o t) = FlattenSeq(seqs \o d) \o x
    <3>1. seqs \o d \in Seq(Seq(S))  BY <2>2, ConcatProperties
    <3> QED BY <2>1, <2>6, <3>1, FlattenAppend
  <2>10. FlattenSeq(d) \in Seq(S)  BY <2>2, FlattenType
  <2>11. (FlattenSeq(seqs) \o FlattenSeq(d)) \o x = FlattenSeq(seqs) \o (FlattenSeq(d) \o x)
    <3>1. Three(S, FlattenSeq(seqs), FlattenSeq(d), x)  BY <1>4, <2>1, <2>10 DEF Three
    <3> QED BY <3>1, Regroup
  <2> QED BY <1>2, <2>7, <2>8, <2>9, <2>11 DEF Wrong
<1> QED BY <1>5, <1>6

-----------------------------------------------------------------------------
(* The invariant                                                           *)

Wants == Wanted(stream)

(* What the caller is owed.                                                *)
Owed == SubSeq(Wants, since + 1, Len(Wants))

Exact == IF overflow THEN IsPrefix(returned, Owed) ELSE returned \o FlattenSeq(data) = Owed

FetcherInv ==
  /\ clock \in Nat /\ fifo \in Seq(Events)
  /\ FilterInv(stream)
  /\ data \in Seq(Seq(Events)) /\ returned \in Seq(Events) /\ overflow \in BOOLEAN
  /\ since \in 0 .. Len(Wants)
  /\ Exact

LEMMA WantsType ==
  ASSUME NEW s \in Seq(Events) PROVE Wanted(s) \in Seq(Events)
<1>1. Due(s) \in SUBSET (1 .. Len(s))  BY DEF Due
<1> QED BY <1>1, PickedPicks DEF Wanted

LEMMA SubSeqOfMore ==
  ASSUME NEW S, NEW w, NEW p, Three(S, w, p, p), NEW n \in 0 .. Len(w)
  PROVE  /\ SubSeq(w, n + 1, Len(w)) \in Seq(S)
         /\ SubSeq(w \o p, n + 1, Len(w \o p)) = SubSeq(w, n + 1, Len(w)) \o p
         /\ n \in 0 .. Len(w \o p)
<1> DEFINE x == w \o p
           a == SubSeq(w, n + 1, Len(w))
           b == SubSeq(x, n + 1, Len(x))
<1>0. w \in Seq(S) /\ p \in Seq(S)  BY DEF Three
<1>1. /\ x \in Seq(S) /\ Len(w) \in Nat /\ Len(p) \in Nat /\ Len(x) = Len(w) + Len(p) /\ n \in Nat
      /\ n <= Len(w)
      /\ \A i \in 1 .. Len(w) + Len(p) : x[i] = IF i <= Len(w) THEN w[i] ELSE p[i - Len(w)]
  BY <1>0, ConcatProperties, LenProperties
<1> HIDE DEF x
<1>2. a \in Seq(S) /\ Len(a) = Len(w) - n /\ \A i \in 1 .. Len(w) - n : a[i] = w[n + i]
  <2>1. \A i \in (n + 1) .. Len(w) : w[i] \in S
    <3>1. \A i \in (n + 1) .. Len(w) : i \in 1 .. Len(w)  BY <1>1
    <3> QED BY <1>0, <3>1, ElementOfSeq
  <2>2. n + 1 \in Int /\ Len(w) \in Int  BY <1>1
  <2>3. /\ a \in Seq(S) /\ Len(a) = IF n + 1 <= Len(w) THEN Len(w) - (n + 1) + 1 ELSE 0
        /\ \A i \in 1 .. Len(w) - (n + 1) + 1 : a[i] = w[(n + 1) + i - 1]
    BY <2>1, <2>2, SubSeqProperties
  <2> HIDE DEF a
  <2>4. Len(a) = Len(w) - n /\ Len(w) - (n + 1) + 1 = Len(w) - n  BY <1>1, <2>3
  <2>5. \A i \in 1 .. Len(w) - n : (n + 1) + i - 1 = n + i  BY <1>1
  <2> QED BY <2>3, <2>4, <2>5
<1>3. b \in Seq(S) /\ Len(b) = Len(x) - n /\ \A i \in 1 .. Len(x) - n : b[i] = x[n + i]
  <2>1. \A i \in (n + 1) .. Len(x) : x[i] \in S
    <3>1. \A i \in (n + 1) .. Len(x) : i \in 1 .. Len(x)  BY <1>1
    <3> QED BY <1>1, <3>1, ElementOfSeq
  <2>2. n + 1 \in Int /\ Len(x) \in Int  BY <1>1
  <2>3. /\ b \in Seq(S) /\ Len(b) = IF n + 1 <= Len(x) THEN Len(x) - (n + 1) + 1 ELSE 0
        /\ \A i \in 1 .. Len(x) - (n + 1) + 1 : b[i] = x[(n + 1) + i - 1]
    BY <2>1, <2>2, SubSeqProperties
  <2> HIDE DEF b
  <2>4. Len(b) = Len(x) - n /\ Len(x) - (n + 1) + 1 = Len(x) - n  BY <1>1, <2>3
  <2>5. \A i \in 1 .. Len(x) - n : (n + 1) + i - 1 = n + i  BY <1>1
  <2> QED BY <2>3, <2>4, <2>5
<1> HIDE DEF a, b
<1>4. /\ a \o p \in Seq(S) /\ Len(a \o p) = Len(a) + Len(p)
      /\ \A i \in 1 .. Len(a) + Len(p) : (a \o p)[i] = IF i <= Len(a) THEN a[i] ELSE p[i - Len(a)]
  BY <1>0, <1>2, ConcatProperties
<1>5. Len(b) = Len(a \o p)  BY <1>1, <1>2, <1>3, <1>4
<1>6. \A i \in 1 .. Len(b) : b[i] = (a \o p)[i]
  <2> TAKE i \in 1 .. Len(b)
  <2>1. i \in 1 .. Len(x) - n /\ i \in 1 .. Len(a) + Len(p) /\ n + i \in 1 .. Len(w) + Len(p) /\ i \in Nat
    BY <1>1, <1>2, <1>3, <1>4, <1>5
  <2>2. b[i] = x[n + i]  BY <1>3, <2>1
  <2>3. CASE i <= Len(a)
    <3>1. n + i <= Len(w) /\ i \in 1 .. Len(w) - n  BY <1>1, <1>2, <2>1, <2>3
    <3> QED BY <1>1, <1>2, <1>4, <2>1, <2>2, <2>3, <3>1
  <2>4. CASE ~(i <= Len(a))
    <3>1. ~(n + i <= Len(w)) /\ (n + i) - Len(w) = i - Len(a)  BY <1>1, <1>2, <2>1, <2>4
    <3>2. x[n + i] = p[(n + i) - Len(w)]  BY <1>1, <2>1, <3>1
    <3> QED BY <1>4, <2>1, <2>2, <2>4, <3>1, <3>2
  <2> QED BY <2>3, <2>4
<1>7. b = a \o p  BY <1>3, <1>4, <1>5, <1>6, SeqEqual
<1>8. n \in 0 .. Len(x)  BY <1>1
<1> QED BY <1>2, <1>7, <1>8 DEF a, b, x

LEMMA PrefixOfMore ==
  ASSUME NEW S, NEW r \in Seq(S), NEW w \in Seq(S), NEW p \in Seq(S)
  PROVE  /\ IsPrefix(r, r \o p)
         /\ IsPrefix(r, w) => IsPrefix(r, w \o p)
<1>1. \A v \in Seq(S) : IsPrefix(r, v) <=> Len(r) <= Len(v) /\ \A i \in 1 .. Len(r) : v[i] = r[i]
  <2> TAKE v \in Seq(S)
  <2> DEFINE n == Len(r)
             a == SubSeq(r, 1, n)
             b == SubSeq(v, 1, n)
  <2>1. n \in Nat /\ Len(v) \in Nat  BY LenProperties
  <2>2. a = r  BY SubSeqFull
  <2>3. ASSUME n <= Len(v)
        PROVE  b \in Seq(S) /\ Len(b) = n /\ \A i \in 1 .. n : b[i] = v[i]
    <3>1. \A i \in 1 .. n : v[i] \in S
      <4>1. \A i \in 1 .. n : i \in 1 .. Len(v)  BY <2>1, <2>3
      <4> QED BY <4>1, ElementOfSeq
    <3>2. 1 \in Int /\ n \in Int  BY <2>1
    <3>3. /\ b \in Seq(S) /\ Len(b) = IF 1 <= n THEN n - 1 + 1 ELSE 0
          /\ \A i \in 1 .. n - 1 + 1 : b[i] = v[1 + i - 1]
      BY <3>1, <3>2, SubSeqProperties
    <3> HIDE DEF b, n
    <3>4. Len(b) = n /\ n - 1 + 1 = n  BY <2>1, <3>3
    <3>5. \A i \in 1 .. n : 1 + i - 1 = i  BY <2>1
    <3> QED BY <3>3, <3>4, <3>5
  <2> HIDE DEF b
  <2>4. n <= Len(v) => (a = b <=> \A i \in 1 .. n : v[i] = r[i])
    BY <2>2, <2>3, SeqEqual
  <2> QED BY <2>4 DEF IsPrefix, b
<1>2. \A v \in Seq(S) : /\ v \o p \in Seq(S) /\ Len(v) <= Len(v \o p) /\ Len(v) \in Nat /\ Len(v \o p) \in Nat
                        /\ \A i \in 1 .. Len(v) : (v \o p)[i] = v[i]
  <2> TAKE v \in Seq(S)
  <2>1. /\ v \o p \in Seq(S) /\ Len(v \o p) = Len(v) + Len(p) /\ Len(v) \in Nat /\ Len(p) \in Nat
        /\ \A i \in 1 .. Len(v) + Len(p) : (v \o p)[i] = IF i <= Len(v) THEN v[i] ELSE p[i - Len(v)]
    BY ConcatProperties, LenProperties
  <2>2. \A i \in 1 .. Len(v) : i \in 1 .. Len(v) + Len(p) /\ i <= Len(v)  BY <2>1
  <2>3. Len(v) <= Len(v \o p) /\ Len(v \o p) \in Nat  BY <2>1
  <2> QED BY <2>1, <2>2, <2>3
<1>3. IsPrefix(r, r \o p)  BY <1>1, <1>2
<1>4. ASSUME IsPrefix(r, w) PROVE IsPrefix(r, w \o p)
  <2>1. Len(r) <= Len(w) /\ \A i \in 1 .. Len(r) : w[i] = r[i]  BY <1>1, <1>4
  <2>2. /\ w \o p \in Seq(S) /\ Len(w) <= Len(w \o p) /\ Len(w) \in Nat /\ Len(w \o p) \in Nat
        /\ \A i \in 1 .. Len(w) : (w \o p)[i] = w[i]
    BY <1>2
  <2>3. Len(r) \in Nat  BY LenProperties
  <2>4. \A i \in 1 .. Len(r) : i \in 1 .. Len(w)  BY <2>1, <2>2, <2>3
  <2>5. \A i \in 1 .. Len(r) : (w \o p)[i] = r[i]  BY <2>1, <2>2, <2>4
  <2>6. Len(r) <= Len(w \o p)  BY <2>1, <2>2, <2>3
  <2> QED BY <1>1, <2>2, <2>5, <2>6
<1> QED BY <1>3, <1>4

(* At first nothing is owed.                                               *)
LEMMA FetcherStarts == FetcherInit => FetcherInv
<1> SUFFICES ASSUME FetcherInit PROVE FetcherInv  OBVIOUS
<1>1. <<>> \in Seq(Events) /\ Len(<<>>) = 0 /\ <<>> \in Seq(Seq(Events))
  OBVIOUS
<1>2. LastSync(<<>>, 0) = {}
  BY DEF LastSync
<1>3. FilterInv(stream)
  BY <1>1, <1>2, FilterAssumption DEF FetcherInit, FilterInv
<1>4. Wants \in Seq(Events) /\ Len(Wants) \in Nat
  BY <1>1, WantsType, LenProperties DEF Wants, FetcherInit
<1>5. Wants = <<>>
  <2>1. Due(<<>>) = {}
    <3>1. \A i \in 1 .. Len(<<>>) : FALSE  BY <1>1
    <3> QED BY <3>1 DEF Due
  <2>2. Due(<<>>) \in SUBSET (1 .. Len(<<>>))  BY <2>1
  <2>3. Len(Wanted(<<>>)) = 0 /\ Wanted(<<>>) \in Seq(Events)
    BY <1>1, <2>1, <2>2, PickedPicks, FS_EmptySet DEF Wanted
  <2> QED BY <2>3, EmptySeq DEF Wants, FetcherInit
<1>6. since \in 0 .. Len(Wants)  BY <1>4 DEF FetcherInit
<1>7. Exact
  <2>1. since + 1 = 1 /\ Len(Wants) = 0  BY <1>1, <1>5 DEF FetcherInit
  <2>2. Owed = <<>>
    <3>1. 1 \in Int /\ 0 \in Int /\ 0 < 1  OBVIOUS
    <3> QED BY <1>5, <2>1, <3>1, SubSeqEmpty DEF Owed
  <2>3. FlattenSeq(<<>>) = <<>> /\ <<>> \o <<>> = <<>>
    BY <1>1, FlattenType, ConcatEmptySeq
  <2> QED BY <2>2, <2>3 DEF FetcherInit, Exact
<1> QED BY <1>1, <1>3, <1>6, <1>7 DEF FetcherInv, FetcherInit

(* The steps of the thread and of the RPC thread that change nothing of    *)
(* what the caller is owed and has.                                        *)
LEMMA FilterSame ==
  ASSUME UNCHANGED filterVars
  PROVE  Wants' = Wants /\ (FilterInv(stream)' <=> FilterInv(stream))
<1>1. mode' = mode /\ previous' = previous /\ reported' = reported /\ stream' = stream
  BY DEF filterVars
<1>2. Due(stream)' = Due(stream)
  BY <1>1 DEF Due, EventPasses, SyncPasses, Admitted
<1>3. Wants' = Wants  BY <1>1, <1>2 DEF Wants, Wanted
<1> QED BY <1>1, <1>2, <1>3 DEF FilterInv

LEMMA OwedSame ==
  ASSUME FetcherInv, UNCHANGED <<filterVars, dataVars, since, returned>>,
         clock' \in Nat, fifo' \in Seq(Events)
  PROVE  FetcherInv'
<1>1. Wants' = Wants /\ FilterInv(stream)'  BY FilterSame DEF FetcherInv
<1>2. since' = since /\ returned' = returned /\ data' = data /\ overflow' = overflow
  BY DEF dataVars
<1>3. Owed' = Owed  BY <1>1, <1>2 DEF Owed
<1>4. Exact <=> Exact'
  BY <1>2, <1>3 DEF Exact
<1> QED BY <1>1, <1>2, <1>4 DEF FetcherInv

LEMMA ProduceKeeps ==
  ASSUME FetcherInv, ProduceEvent PROVE FetcherInv'
<1>1. clock' = clock + 1 /\ clock \in Nat /\ clock < MaxEvents /\ MaxEvents \in Nat
  BY BoundAssumption DEF ProduceEvent, FetcherInv
<1>2. PICK c \in Types : fifo' = Append(fifo, [type |-> c, time |-> clock'])
  BY DEF ProduceEvent, historyVars
<1>3. [type |-> c, time |-> clock'] \in Events
  BY <1>1 DEF Events
<1>4. fifo' \in Seq(Events)
  BY <1>2, <1>3, AppendProperties DEF FetcherInv
<1>5. UNCHANGED <<filterVars, dataVars, since, returned>>  BY DEF ProduceEvent, historyVars
<1> QED BY <1>1, <1>4, <1>5, OwedSame

(* A batch goes through the filter, and is kept or overflows.              *)
LEMMA FetchKeeps ==
  ASSUME FetcherInv, Fetch PROVE FetcherInv'
<1>1. PICK n \in 1 .. Len(fifo) :
        /\ fifo' = SubSeq(fifo, n + 1, Len(fifo))
        /\ IF blocked THEN UNCHANGED <<filterVars, dataVars>>
                      ELSE Store(Passed(SubSeq(fifo, 1, n))) /\ Remember(SubSeq(fifo, 1, n))
  BY DEF Fetch
<1>2. clock' = clock /\ since' = since /\ returned' = returned
  BY DEF Fetch
<1> DEFINE b == SubSeq(fifo, 1, n)
<1>3. b \in Seq(Events) /\ fifo' \in Seq(Events)
  <2>1. fifo \in Seq(Events) /\ Len(fifo) \in Nat /\ n \in Nat  BY LenProperties DEF FetcherInv
  <2>2. \A i \in 1 .. n : i \in 1 .. Len(fifo)  BY <2>1
  <2>3. \A i \in (n + 1) .. Len(fifo) : i \in 1 .. Len(fifo)  BY <2>1
  <2>4. \A i \in 1 .. n : fifo[i] \in Events  BY <2>1, <2>2, ElementOfSeq
  <2>5. \A i \in (n + 1) .. Len(fifo) : fifo[i] \in Events  BY <2>1, <2>3, ElementOfSeq
  <2>6. b \in Seq(Events)
    <3>1. 1 \in Int /\ n \in Int  BY <2>1
    <3> QED BY <2>4, <3>1, SubSeqProperties
  <2>7. SubSeq(fifo, n + 1, Len(fifo)) \in Seq(Events)
    <3>1. n + 1 \in Int /\ Len(fifo) \in Int  BY <2>1
    <3> QED BY <2>5, <3>1, SubSeqProperties
  <2> QED BY <1>1, <2>6, <2>7
<1>4. clock' \in Nat  BY <1>2 DEF FetcherInv
<1> HIDE DEF b
<1>5. CASE blocked
  BY <1>1, <1>2, <1>3, <1>4, <1>5, OwedSame
<1>6. CASE ~blocked
  <2>1. Store(Passed(b)) /\ Remember(b)  BY <1>1, <1>6 DEF b
  <2> DEFINE p == Passed(b)
             w == Wants
             x == Owed
             d == FlattenSeq(data)
  <2>2. FilterInv(stream)'  BY <1>3, <2>1, FilterKept DEF FetcherInv
  <2>3. w \in Seq(Events) /\ p \in Seq(Events) /\ Wants' = w \o p
    <3>1. w \in Seq(Events) /\ p \in Seq(Events) /\ Wanted(stream \o b) = w \o p
      BY <1>3, WantedOfMore DEF FetcherInv, Wants
    <3>2. stream' = stream \o b /\ mode' = mode  BY <2>1 DEF Remember
    <3>3. Wants' = Wanted(stream \o b)
      <4> DEFINE u == stream \o b
      <4>1. stream' = u  BY <3>2
      <4> HIDE DEF u
      <4>2. Due(stream)' = Due(u)
        BY <3>2, <4>1 DEF Due, EventPasses, SyncPasses, Admitted
      <4>3. Wanted(stream)' = Wanted(u)  BY <4>1, <4>2 DEF Wanted
      <4> QED BY <4>3 DEF Wants, u
    <3> QED BY <3>1, <3>3
  <2>4. since \in 0 .. Len(w)  BY DEF FetcherInv
  <2>5. x \in Seq(Events) /\ Owed' = x \o p /\ since' \in 0 .. Len(Wants')
    <3> HIDE DEF p
    <3>1. SubSeq(w \o p, since + 1, Len(w \o p)) = SubSeq(w, since + 1, Len(w)) \o p
          /\ SubSeq(w, since + 1, Len(w)) \in Seq(Events) /\ since \in 0 .. Len(w \o p)
      <4>1. Three(Events, w, p, p) /\ since \in 0 .. Len(w)  BY <2>3, <2>4 DEF Three
      <4> HIDE DEF w
      <4> QED BY <4>1, SubSeqOfMore
    <3> QED BY <1>2, <2>3, <3>1 DEF Owed
  <2>6. /\ data \in Seq(Seq(Events)) /\ returned \in Seq(Events) /\ overflow \in BOOLEAN
        /\ d \in Seq(Events) /\ Exact
    BY FlattenType DEF FetcherInv
  <2> HIDE DEF p, w, x, d
  <2>7. p = <<>> => x \o p = x /\ d \o p = d  BY <2>5, <2>6, ConcatEmptySeq
  <2>8. overflow => IsPrefix(returned, x \o p)
    BY <2>3, <2>5, <2>6, PrefixOfMore DEF Exact, x
  <2>9. ~overflow => returned \o (d \o p) = x \o p
    <3>1. ~overflow => returned \o d = x  BY <2>6 DEF Exact, x, d
    <3>2. Three(Events, returned, d, p)  BY <2>3, <2>6 DEF Three
    <3>3. (returned \o d) \o p = returned \o (d \o p)  BY <3>2, Regroup
    <3> QED BY <3>1, <3>3
  <2>10. IsPrefix(returned, returned \o (d \o p))
    <3>1. d \o p \in Seq(Events)  BY <2>3, <2>6, ConcatProperties
    <3> QED BY <2>6, <3>1, PrefixOfMore
  <2>11. data' \in Seq(Seq(Events)) /\ overflow' \in BOOLEAN /\ Exact'
    <3>1. CASE number + Len(p) > MaxPending
      <4>1. overflow' = (overflow \/ p # <<>>) /\ data' = data
        BY <2>1, <3>1 DEF Store, p
      <4>2. Exact' <=> IF overflow' THEN IsPrefix(returned, x \o p) ELSE returned \o d = x \o p
        BY <1>2, <2>5, <4>1 DEF Exact, d
      <4>3. CASE overflow
        BY <2>6, <2>8, <4>1, <4>2, <4>3
      <4>4. CASE ~overflow /\ p = <<>>
        BY <2>6, <2>7, <2>9, <4>1, <4>2, <4>4
      <4>5. CASE ~overflow /\ p # <<>>
        BY <2>6, <2>9, <2>10, <4>1, <4>2, <4>5
      <4> QED BY <2>6, <4>3, <4>4, <4>5
    <3>2. CASE ~(number + Len(p) > MaxPending)
      <4>1. data' = (IF p = <<>> THEN data ELSE Append(data, p)) /\ overflow' = overflow
        BY <2>1, <3>2 DEF Store, p
      <4>2. data' \in Seq(Seq(Events)) /\ FlattenSeq(data') = d \o p
        <5>1. CASE p = <<>>
          BY <2>6, <2>7, <4>1, <5>1 DEF d
        <5>2. CASE p # <<>>
          <6>1. data' = Append(data, p)  BY <4>1, <5>2
          <6>2. Append(data, p) \in Seq(Seq(Events))  BY <2>3, <2>6, AppendProperties
          <6> QED BY <2>3, <2>6, <6>1, <6>2, FlattenAppend DEF d
        <5> QED BY <5>1, <5>2
      <4>3. Exact' <=> IF overflow THEN IsPrefix(returned, x \o p) ELSE returned \o (d \o p) = x \o p
        BY <1>2, <2>5, <4>1, <4>2 DEF Exact
      <4> QED BY <2>6, <2>8, <2>9, <4>1, <4>2, <4>3
    <3> QED BY <3>1, <3>2
  <2> QED BY <1>2, <1>3, <1>4, <2>2, <2>5, <2>6, <2>11 DEF FetcherInv
<1> QED BY <1>5, <1>6

(* Nothing is owed and nothing is kept.                                    *)
LEMMA StartKeeps ==
  ASSUME FetcherInv, FreshStart, UNCHANGED filterVars, clock' \in Nat, fifo' \in Seq(Events)
  PROVE  FetcherInv'
<1>1. /\ data' = <<>> /\ overflow' = FALSE /\ returned' = <<>>
      /\ since' = Len(Wanted(stream))
  BY DEF FreshStart
<1>2. Wants' = Wants /\ FilterInv(stream)'  BY FilterSame DEF FetcherInv
<1>3. Wants \in Seq(Events) /\ Len(Wants) \in Nat
  <2>1. stream \in Seq(Events)  BY DEF FetcherInv, FilterInv
  <2> QED BY <2>1, WantsType, LenProperties DEF Wants
<1>4. since' = Len(Wants)  BY <1>1 DEF Wants
<1>5. Owed' = <<>>
  <2>1. Len(Wants) + 1 \in Int /\ Len(Wants) \in Int /\ Len(Wants) < Len(Wants) + 1  BY <1>3
  <2>2. SubSeq(Wants, Len(Wants) + 1, Len(Wants)) = <<>>  BY <2>1, SubSeqEmpty
  <2> QED BY <1>2, <1>4, <2>2 DEF Owed
<1>6. <<>> \in Seq(Events) /\ <<>> \in Seq(Seq(Events))  OBVIOUS
<1>7. FlattenSeq(<<>>) = <<>> /\ <<>> \o <<>> = <<>>
  BY <1>6, FlattenType, ConcatEmptySeq
<1>8. Exact'  BY <1>1, <1>5, <1>7 DEF Exact
<1>9. since' \in 0 .. Len(Wants')  BY <1>2, <1>3, <1>4
<1> QED BY <1>1, <1>2, <1>6, <1>8, <1>9 DEF FetcherInv

(* What is returned was the first that was kept.                           *)
LEMMA ReturnKeeps ==
  ASSUME FetcherInv, NEW r \in Seq(Events), data' \in Seq(Seq(Events)), ~overflow,
         returned' = returned \o r, FlattenSeq(data) = r \o FlattenSeq(data'),
         UNCHANGED <<filterVars, overflow, since, clock, fifo>>
  PROVE  FetcherInv'
<1>1. Wants' = Wants /\ FilterInv(stream)'  BY FilterSame DEF FetcherInv
<1>2. overflow' = overflow /\ since' = since /\ clock' = clock /\ fifo' = fifo  OBVIOUS
<1>3. returned \in Seq(Events) /\ FlattenSeq(data') \in Seq(Events)
  BY FlattenType DEF FetcherInv
<1>4. returned' \in Seq(Events)  BY <1>3, ConcatProperties
<1>5. Owed' = Owed  BY <1>1, <1>2 DEF Owed
<1>6. returned \o FlattenSeq(data) = Owed  BY DEF FetcherInv, Exact
<1>7. (returned \o r) \o FlattenSeq(data') = returned \o (r \o FlattenSeq(data'))
  BY <1>3, ConcatAssociative
<1>8. returned' \o FlattenSeq(data') = Owed  BY <1>6, <1>7
<1>9. Exact'
  <2>1. ~overflow'  BY <1>2
  <2> QED BY <1>5, <1>8, <2>1 DEF Exact
<1>10. since' \in 0 .. Len(Wants')  BY <1>1, <1>2 DEF FetcherInv
<1> QED BY <1>1, <1>2, <1>4, <1>9, <1>10 DEF FetcherInv

LEMMA GetAllKeeps ==
  ASSUME FetcherInv, GetAllEvents PROVE FetcherInv'
<1>1. /\ returned' = returned \o FlattenSeq(data) /\ data' = <<>> /\ ~overflow
      /\ UNCHANGED <<filterVars, overflow, since, clock, fifo>>
  BY DEF GetAllEvents, deviceVars
<1>2. data \in Seq(Seq(Events)) /\ <<>> \in Seq(Seq(Events))  BY DEF FetcherInv
<1>3. FlattenSeq(data) \in Seq(Events) /\ FlattenSeq(<<>>) = <<>>
  BY <1>2, FlattenType
<1>4. FlattenSeq(data) = FlattenSeq(data) \o FlattenSeq(data')
  BY <1>1, <1>3, ConcatEmptySeq
<1> QED BY <1>1, <1>2, <1>3, <1>4, ReturnKeeps

(* A sequence before, at and behind one of its places.                     *)
LEMMA SplitAt ==
  ASSUME NEW S, NEW s \in Seq(S), NEW k \in 1 .. Len(s)
  PROVE  /\ SubSeq(s, 1, k - 1) \in Seq(S) /\ SubSeq(s, k + 1, Len(s)) \in Seq(S)
         /\ s = SubSeq(s, 1, k - 1) \o (<<s[k]>> \o SubSeq(s, k + 1, Len(s)))
<1>1. Len(s) \in Nat /\ k \in Nat /\ k <= Len(s) /\ 1 <= k  BY LenProperties
<1>2. \A i \in 1 .. Len(s) : s[i] \in S  BY ElementOfSeq
<1>3. SubSeq(s, 1, k - 1) \in Seq(S)
  <2>1. \A i \in 1 .. (k - 1) : i \in 1 .. Len(s)  BY <1>1
  <2>2. 1 \in Int /\ k - 1 \in Int  BY <1>1
  <2> QED BY <1>2, <2>1, <2>2, SubSeqProperties
<1>4. SubSeq(s, k + 1, Len(s)) \in Seq(S)
  <2>1. \A i \in (k + 1) .. Len(s) : i \in 1 .. Len(s)  BY <1>1
  <2>2. k + 1 \in Int /\ Len(s) \in Int  BY <1>1
  <2> QED BY <1>2, <2>1, <2>2, SubSeqProperties
<1>5. SubSeq(s, k, Len(s)) = <<s[k]>> \o SubSeq(s, k + 1, Len(s))
  <2>1. Len(s) \in k .. Len(s)  BY <1>1
  <2> QED BY <2>1, SubSeqRecursiveFirst
<1>6. s = SubSeq(s, 1, k - 1) \o SubSeq(s, k, Len(s))
  <2>1. 1 \in 1 .. Len(s) + 1 /\ k - 1 \in (1 - 1) .. Len(s) /\ Len(s) \in (k - 1) .. Len(s)
        /\ (k - 1) + 1 = k
    BY <1>1
  <2>2. SubSeq(s, 1, k - 1) \o SubSeq(s, (k - 1) + 1, Len(s)) = SubSeq(s, 1, Len(s))
    BY <2>1, ConcatAdjacentSubSeq
  <2> QED BY <2>1, <2>2, SubSeqFull
<1> QED BY <1>3, <1>4, <1>5, <1>6

LEMMA CutAt ==
  ASSUME NEW S, NEW s \in Seq(S), NEW k \in 0 .. Len(s)
  PROVE  /\ SubSeq(s, 1, k) \in Seq(S) /\ SubSeq(s, k + 1, Len(s)) \in Seq(S)
         /\ s = SubSeq(s, 1, k) \o SubSeq(s, k + 1, Len(s))
<1>1. Len(s) \in Nat /\ k \in Nat /\ k <= Len(s)  BY LenProperties
<1>2. \A i \in 1 .. Len(s) : s[i] \in S  BY ElementOfSeq
<1>3. SubSeq(s, 1, k) \in Seq(S)
  <2>1. \A i \in 1 .. k : i \in 1 .. Len(s)  BY <1>1
  <2>2. 1 \in Int /\ k \in Int  BY <1>1
  <2> QED BY <1>2, <2>1, <2>2, SubSeqProperties
<1>4. SubSeq(s, k + 1, Len(s)) \in Seq(S)
  <2>1. \A i \in (k + 1) .. Len(s) : i \in 1 .. Len(s)  BY <1>1
  <2>2. k + 1 \in Int /\ Len(s) \in Int  BY <1>1
  <2> QED BY <1>2, <2>1, <2>2, SubSeqProperties
<1>5. s = SubSeq(s, 1, k) \o SubSeq(s, k + 1, Len(s))
  <2>1. 1 \in 1 .. Len(s) + 1 /\ k \in (1 - 1) .. Len(s) /\ Len(s) \in k .. Len(s)
    BY <1>1
  <2>2. SubSeq(s, 1, k) \o SubSeq(s, k + 1, Len(s)) = SubSeq(s, 1, Len(s))
    BY <2>1, ConcatAdjacentSubSeq
  <2> QED BY <2>2, SubSeqFull
<1> QED BY <1>3, <1>4, <1>5

LEMMA FlattenOne ==
  ASSUME NEW S, NEW x \in Seq(S), NEW t \in Seq(Seq(S))
  PROVE  <<x>> \o t \in Seq(Seq(S)) /\ FlattenSeq(<<x>> \o t) = x \o FlattenSeq(t)
<1> DEFINE e == <<>>
           y == <<x>>
           T == Seq(S)
<1>1. e \in Seq(T) /\ y \in Seq(T) /\ y = Append(e, x)  OBVIOUS
<1>2. FlattenSeq(e) = <<>> /\ e \in Seq(S)  BY FlattenType
<1>3. FlattenSeq(y) = x
  <2>1. FlattenSeq(Append(e, x)) = FlattenSeq(e) \o x  BY <1>1, FlattenAppend
  <2>2. <<>> \o x = x  BY ConcatEmptySeq
  <2> QED BY <1>1, <1>2, <2>1, <2>2
<1> HIDE DEF e, y
<1>4. FlattenSeq(y \o t) = FlattenSeq(y) \o FlattenSeq(t)  BY <1>1, FlattenConcat
<1>5. y \o t \in Seq(Seq(S))  BY <1>1, ConcatProperties
<1> QED BY <1>3, <1>4, <1>5 DEF y

LEMMA GetSomeKeeps ==
  ASSUME FetcherInv, GetSomeEvents PROVE FetcherInv'
<1>1. PICK split \in 1 .. Len(data) :
        LET room == MaxPerCall - Len(FlattenSeq(SubSeq(data, 1, split - 1))) IN
        /\ room \in 0 .. (Len(data[split]) - 1)
        /\ returned' = returned \o FlattenSeq(SubSeq(data, 1, split - 1)) \o SubSeq(data[split], 1, room)
        /\ data' = <<SubSeq(data[split], room + 1, Len(data[split]))>> \o SubSeq(data, split + 1, Len(data))
  BY DEF GetSomeEvents
<1>2. ~overflow /\ UNCHANGED <<filterVars, overflow, since, clock, fifo>>
  BY DEF GetSomeEvents, deviceVars
<1> DEFINE before == SubSeq(data, 1, split - 1)
           behind == SubSeq(data, split + 1, Len(data))
           y == data[split]
           room == MaxPerCall - Len(FlattenSeq(before))
           r == SubSeq(y, 1, room)
           c == SubSeq(y, room + 1, Len(y))
           F == FlattenSeq(before)
           G == FlattenSeq(behind)
<1>3. /\ room \in 0 .. (Len(y) - 1)
      /\ returned' = (returned \o F) \o r
      /\ data' = <<c>> \o behind
  BY <1>1
<1>4. data \in Seq(Seq(Events)) /\ returned \in Seq(Events)  BY DEF FetcherInv
<1>5. /\ before \in Seq(Seq(Events)) /\ behind \in Seq(Seq(Events)) /\ y \in Seq(Events)
      /\ data = before \o (<<y>> \o behind)
  BY <1>4, SplitAt, ElementOfSeq
<1> HIDE DEF before, behind, y
<1>6. F \in Seq(Events) /\ G \in Seq(Events)  BY <1>5, FlattenType
<1>7. r \in Seq(Events) /\ c \in Seq(Events) /\ y = r \o c
  <2> HIDE DEF room
  <2>1. Len(y) \in Nat  BY <1>5, LenProperties
  <2>2. room \in 0 .. Len(y)  BY <1>3, <2>1
  <2> QED BY <1>5, <2>2, CutAt
<1> HIDE DEF room, r, c, F, G
<1>8. FlattenSeq(data) = F \o (y \o G)
  <2>1. <<y>> \o behind \in Seq(Seq(Events)) /\ FlattenSeq(<<y>> \o behind) = y \o G
    BY <1>5, FlattenOne DEF G
  <2>2. FlattenSeq(before \o (<<y>> \o behind)) = F \o FlattenSeq(<<y>> \o behind)
    <3> DEFINE z == <<y>> \o behind
    <3>1. z \in Seq(Seq(Events))  BY <2>1
    <3> HIDE DEF z
    <3>2. FlattenSeq(before \o z) = F \o FlattenSeq(z)  BY <1>5, <3>1, FlattenConcat DEF F
    <3> QED BY <3>2 DEF z
  <2> QED BY <1>5, <2>1, <2>2
<1>9. data' \in Seq(Seq(Events)) /\ FlattenSeq(data') = c \o G
  BY <1>3, <1>5, <1>7, FlattenOne DEF G
<1>10. F \o (y \o G) = (F \o r) \o (c \o G)
  <2>1. (r \o c) \o G = r \o (c \o G)
    <3>1. Three(Events, r, c, G)  BY <1>6, <1>7 DEF Three
    <3> QED BY <3>1, Regroup
  <2>2. c \o G \in Seq(Events)  BY <1>6, <1>7, ConcatProperties
  <2>3. (F \o r) \o (c \o G) = F \o (r \o (c \o G))
    <3> DEFINE z == c \o G
    <3>1. z \in Seq(Events)  BY <2>2
    <3> HIDE DEF z
    <3>2. Three(Events, F, r, z)  BY <1>6, <1>7, <3>1 DEF Three
    <3>3. (F \o r) \o z = F \o (r \o z)  BY <3>2, Regroup
    <3> QED BY <3>3 DEF z
  <2> QED BY <1>7, <2>1, <2>3
<1>11. F \o r \in Seq(Events)  BY <1>6, <1>7, ConcatProperties
<1>12. returned' = returned \o (F \o r)
  <2>1. Three(Events, returned, F, r)  BY <1>4, <1>6, <1>7 DEF Three
  <2>2. (returned \o F) \o r = returned \o (F \o r)  BY <2>1, Regroup
  <2> QED BY <1>3, <2>2
<1>13. FlattenSeq(data) = (F \o r) \o FlattenSeq(data')  BY <1>8, <1>9, <1>10
<1> QED BY <1>2, <1>9, <1>11, <1>12, <1>13, ReturnKeeps

LEMMA FetcherStep ==
  ASSUME FetcherInv, [FetcherNext]_fetcherVars PROVE FetcherInv'
<1>0. clock \in Nat /\ fifo \in Seq(Events)  BY DEF FetcherInv
<1>1. CASE ProduceEvent  BY <1>1, ProduceKeeps
<1>2. CASE Fetch  BY <1>2, FetchKeeps
<1>3. CASE FetchFails
  BY <1>0, <1>3, OwedSame DEF FetchFails, deviceVars, historyVars
<1>4. CASE StartMeasurement
  <2>1. clock' \in Nat /\ fifo' \in Seq(Events)  BY <1>4 DEF StartMeasurement
  <2> QED BY <1>4, <2>1, OwedSame DEF StartMeasurement
<1>5. CASE Activate
  BY <1>0, <1>5, StartKeeps DEF Activate, deviceVars
<1>6. CASE StopMeasurement
  BY <1>0, <1>6, OwedSame DEF StopMeasurement, historyVars
<1>7. CASE Deactivate
  BY <1>0, <1>7, OwedSame DEF Deactivate, deviceVars, historyVars
<1>8. CASE SetBlockEvents
  BY <1>0, <1>8, OwedSame DEF SetBlockEvents, deviceVars, historyVars
<1>9. CASE ReportOverflow
  BY <1>0, <1>9, StartKeeps DEF ReportOverflow, deviceVars
<1>10. CASE GetAllEvents  BY <1>10, GetAllKeeps
<1>11. CASE GetSomeEvents  BY <1>11, GetSomeKeeps
<1>12. CASE UNCHANGED fetcherVars
  BY <1>0, <1>12, OwedSame DEF fetcherVars, deviceVars, historyVars
<1> QED
  BY <1>1, <1>2, <1>3, <1>4, <1>5, <1>6, <1>7, <1>8, <1>9, <1>10, <1>11, <1>12 DEF FetcherNext

(* Leaving nothing out leaves a sequence as it is.                         *)
LEMMA PickedAll ==
  ASSUME NEW S, NEW s \in Seq(S) PROVE Picked(s, 1 .. Len(s)) = s
<1> DEFINE n == Len(s)
           f == [k \in 1 .. n |-> k]
<1>1. n \in Nat /\ s = [k \in 1 .. n |-> s[k]]  BY LenProperties
<1> HIDE DEF n
<1>2. Lists(f, n, 1 .. n)  BY <1>1 DEF Lists
<1>3. [k \in 1 .. n |-> s[f[k]]] = s  BY <1>1
<1>4. Picks(s, 1 .. n, s)
  <2> HIDE DEF f
  <2>1. Picks(s, 1 .. n, [k \in 1 .. n |-> s[f[k]]])  BY <1>2, PicksIntro
  <2> QED BY <1>3, <2>1
<1>5. Picks(s, 1 .. n, Picked(s, 1 .. n))  BY PickedPicks DEF n
<1> QED BY <1>4, <1>5, PicksOnce DEF n

(* What is owed with every stray is among what the caller may get.         *)
LEMMA ExactSuffices == FetcherInv => EventsAreExact
<1> SUFFICES ASSUME FetcherInv PROVE EventsAreExact  OBVIOUS
<1>1. stream \in Seq(Events)  BY DEF FetcherInv, FilterInv
<1>2. Owed \in Seq(Events)
  <2>1. Wants \in Seq(Events) /\ since \in 0 .. Len(Wants)  BY <1>1, WantsType DEF FetcherInv, Wants
  <2>2. Three(Events, Wants, Wants, Wants)  BY <2>1 DEF Three
  <2> QED BY <2>1, <2>2, SubSeqOfMore DEF Owed
<1>3. Picked(Owed, (1 .. Len(Owed)) \ {}) = Owed
  <2>1. (1 .. Len(Owed)) \ {} = 1 .. Len(Owed)  OBVIOUS
  <2> QED BY <1>2, <2>1, PickedAll
<1>4. LET owed == Picked(Owed, (1 .. Len(Owed)) \ {}) IN
      IF overflow THEN IsPrefix(returned, owed) ELSE returned \o FlattenSeq(data) = owed
  BY <1>3 DEF FetcherInv, Exact
<1> QED BY <1>4, Zenon DEF EventsAreExact, Owed, Wants

(* For any channels, any setting of the filter and any batches, a          *)
(* measurement returns exactly the events that pass by the rule of         *)
(* process_events(), each of them once and in order, or tells that some    *)
(* were lost (process_events() and get_events() of the PicoQuant time      *)
(* taggers); of what passes only across a break, any.                      *)
THEOREM FetcherIsExact == FetcherSpec => []EventsAreExact
<1>1. FetcherInit => FetcherInv  BY FetcherStarts
<1>2. FetcherInv /\ [FetcherNext]_fetcherVars => FetcherInv'  BY FetcherStep
<1> QED BY <1>1, <1>2, ExactSuffices, PTL DEF FetcherSpec
=============================================================================
