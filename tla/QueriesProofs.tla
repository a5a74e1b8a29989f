-------------------------- MODULE QueriesProofs --------------------------
(***************************************************************************)
(* That what a client is shown is right: the listing of session files, for *)
(* every directory tree with links in it, any limits, and whatever other   *)
(* programs write and remove meanwhile; the tree of a session, for every   *)
(* tree of entries; the history, for every journal and wherever the chunks *)
(* fall.  Induction and Recursion are what the last two need to reason     *)
(* about recursive functions.                                              *)
(***************************************************************************)
EXTENDS Queries, FiniteSetTheorems, SequenceTheorems, WellFoundedInduction, TLAPS

Paths == Listings!Paths

\* A set of numbers has a least one.
LEMMA Least ==
  ASSUME NEW T \in SUBSET Nat, T # {}
  PROVE  \E n \in T : \A m \in T : n <= m
<1> DEFINE Less == {p \in Nat \X Nat : p[1] < p[2]}
<1>0. Less = OpToRel(<, Nat)  BY DEF OpToRel
<1>1. IsWellFoundedOn(Less, Nat)  BY <1>0, NatLessThanWellFounded
<1> HIDE DEF Less
<1>2. PICK n \in T : \A m \in T : ~(<<m, n>> \in Less)  BY <1>1, WFMin
<1>3. ASSUME NEW m \in T, ~(n <= m) PROVE FALSE
  <2>1. <<m, n>> \in Less  BY <1>3 DEF Less
  <2> QED  BY <1>2, <2>1
<1> QED  BY <1>3

\* What holds of a member of D when it holds of the smaller ones holds of all.
LEMMA Induction ==
  ASSUME NEW D, NEW rank \in [D -> Nat], NEW P,
         \A x \in D : (\A y \in D : rank[y] < rank[x] => y \in P) => x \in P
  PROVE  D \subseteq P
<1> DEFINE T == {rank[x] : x \in D \ P}
<1> SUFFICES ASSUME T # {} PROVE FALSE  OBVIOUS
<1>0. T \in SUBSET Nat  OBVIOUS
<1>1. PICK n \in T : \A m \in T : n <= m  BY <1>0, Least
<1>2. PICK x \in D \ P : rank[x] = n  OBVIOUS
<1>3. ASSUME NEW y \in D, rank[y] < rank[x], y \notin P PROVE FALSE
  <2>1. rank[y] \in T  BY <1>3
  <2> HIDE DEF T
  <2>2. n <= rank[y] /\ rank[y] \in Nat  BY <1>1, <2>1
  <2> QED  BY <1>2, <1>3, <2>2
<1>4. \A y \in D : rank[y] < rank[x] => y \in P  BY <1>3
<1> QED  BY <1>2, <1>4

\* A rule for a function on D says of x what its value is, given the values for smaller members:
\* G[<<x, f>>] is what it says when those are the values of f.
IsRule(D, S, rank, G) ==
  /\ S # {} /\ rank \in [D -> Nat]
  /\ \A x \in D : \A f \in [D -> S] : G[<<x, f>>] \in S
  /\ \A x \in D : \A f, g \in [D -> S] :
       (\A y \in D : rank[y] < rank[x] => f[y] = g[y]) => G[<<x, f>>] = G[<<x, g>>]
Follows(D, S, G, f) == f \in [D -> S] /\ \A x \in D : f[x] = G[<<x, f>>]

\* There is a function for each rule.
LEMMA Recursion ==
  ASSUME NEW D, NEW S, NEW rank, NEW G, IsRule(D, S, rank, G)
  PROVE  \E f : Follows(D, S, G, f)
<1> USE DEF IsRule, Follows
<1> DEFINE Solves(f, n) == f \in [D -> S] /\ \A x \in D : rank[x] < n => f[x] = G[<<x, f>>]
<1>1. \A n \in Nat : \E f : Solves(f, n)
  <2> DEFINE T == {n \in Nat : ~\E f : Solves(f, n)}
  <2> SUFFICES ASSUME T # {} PROVE FALSE  OBVIOUS
  <2>1. PICK n \in T : \A m \in T : n <= m  BY Least
  <2>2. n # 0
    <3>1. PICK s : s \in S  OBVIOUS
    <3>2. Solves([x \in D |-> s], 0)  BY <3>1
    <3> QED  BY <3>2
  <2>3. n - 1 \in Nat /\ n - 1 \notin T  BY <2>1, <2>2
  <2>4. PICK f : Solves(f, n - 1)  BY <2>3
  <2> DEFINE g == [x \in D |-> G[<<x, f>>]]
  <2>5. g \in [D -> S]  BY <2>4
  <2>6. \A y \in D : rank[y] < n - 1 => g[y] = f[y]  BY <2>4
  <2>7. ASSUME NEW x \in D, rank[x] < n PROVE g[x] = G[<<x, g>>]
    <3>1. \A y \in D : rank[y] < rank[x] => rank[y] < n - 1  BY <2>1, <2>7
    <3>2. \A y \in D : rank[y] < rank[x] => f[y] = g[y]  BY <2>6, <3>1
    <3>3. G[<<x, f>>] = G[<<x, g>>]  BY <2>4, <2>5, <3>2
    <3> QED  BY <3>3
  <2>8. Solves(g, n)  BY <2>5, <2>7
  <2> QED  BY <2>1, <2>8
<1>2. ASSUME NEW m \in Nat, NEW n \in Nat, m <= n, NEW f, NEW g, Solves(f, m), Solves(g, n)
      PROVE  \A x \in D : rank[x] < m => f[x] = g[x]
  <2> DEFINE P == {x \in D : rank[x] < m => f[x] = g[x]}
  <2>1. ASSUME NEW x \in D, \A y \in D : rank[y] < rank[x] => y \in P PROVE x \in P
    <3> SUFFICES ASSUME rank[x] < m PROVE f[x] = g[x]  OBVIOUS
    <3>1. \A y \in D : rank[y] < rank[x] => f[y] = g[y]  BY <2>1
    <3>2. G[<<x, f>>] = G[<<x, g>>]  BY <1>2, <3>1
    <3> QED  BY <1>2, <3>2
  <2> HIDE DEF P
  <2>2. D \subseteq P  BY <2>1, Induction
  <2> QED  BY <2>2 DEF P
<1> DEFINE Sol(n) == CHOOSE f : Solves(f, n)
<1>3. \A n \in Nat : Solves(Sol(n), n)  BY <1>1
<1> DEFINE F == [x \in D |-> Sol(rank[x] + 1)[x]]
<1> HIDE DEF Sol
<1>4. F \in [D -> S]  BY <1>3
<1>5. ASSUME NEW x \in D PROVE F[x] = G[<<x, F>>]
  <2> DEFINE f == Sol(rank[x] + 1)
  <2>1. Solves(f, rank[x] + 1)  BY <1>3
  <2>2. ASSUME NEW y \in D, rank[y] < rank[x] PROVE f[y] = F[y]
    <3>1. Solves(Sol(rank[y] + 1), rank[y] + 1)  BY <1>3
    <3>2. rank[y] + 1 <= rank[x] + 1 /\ rank[y] < rank[y] + 1  BY <2>2
    <3> HIDE DEF Solves, f
    <3>3. Sol(rank[y] + 1)[y] = f[y]  BY <1>2, <2>1, <3>1, <3>2
    <3> QED  BY <3>3
  <2>3. f[x] = G[<<x, f>>]  BY <2>1
  <2>4. G[<<x, f>>] = G[<<x, F>>]  BY <1>4, <2>1, <2>2
  <2> QED  BY <2>3, <2>4
<1> QED  BY <1>4, <1>5
-----------------------------------------------------------------------------
(* Paths *)

LEMMA PathEnds ==
  ASSUME NEW p \in Paths, p # <<>>
  PROVE  /\ Listings!Front(p) \in Paths /\ Listings!Last(p) \in Names
         /\ Len(Listings!Front(p)) = Len(p) - 1 /\ Len(p) \in Nat \ {0}
         /\ p = Append(Listings!Front(p), Listings!Last(p))
         /\ \A i \in 1 .. Len(p) - 1 : Listings!Front(p)[i] = p[i]
<1> USE DEF Paths, Listings!Paths, Listings!Front, Listings!Last
<1>1. Len(p) \in Nat \ {0}  OBVIOUS
<1>2. /\ SubSeq(p, 1, Len(p) - 1) \in Seq(Names) /\ Len(SubSeq(p, 1, Len(p) - 1)) = Len(p) - 1
      /\ \A i \in 1 .. Len(p) - 1 : SubSeq(p, 1, Len(p) - 1)[i] = p[i]
      /\ p[Len(p)] \in Names
  <2>1. \A i \in 1 .. Len(p) : p[i] \in Names  OBVIOUS
  <2>2. \A i \in 1 .. Len(p) - 1 : p[i] \in Names  BY <1>1, <2>1
  <2>3. Len(p) - 1 \in Nat  BY <1>1
  <2>4. 1 \in Int /\ Len(p) - 1 \in Int /\ Len(p) - 1 - 1 + 1 = Len(p) - 1  BY <1>1
  <2>5. /\ SubSeq(p, 1, Len(p) - 1) \in Seq(Names)
        /\ Len(SubSeq(p, 1, Len(p) - 1)) = IF 1 <= Len(p) - 1 THEN Len(p) - 1 - 1 + 1 ELSE 0
        /\ \A i \in 1 .. Len(p) - 1 - 1 + 1 : SubSeq(p, 1, Len(p) - 1)[i] = p[1 + i - 1]
    BY <2>2, <2>4, SubSeqProperties
  <2>6. \A i \in 1 .. Len(p) - 1 : 1 + i - 1 = i  OBVIOUS
  <2>7. Len(p) \in 1 .. Len(p)  BY <1>1
  <2> HIDE DEF Paths, Listings!Paths
  <2> QED  BY <1>1, <2>1, <2>3, <2>4, <2>5, <2>6, <2>7
<1>3. p = Append(SubSeq(p, 1, Len(p) - 1), p[Len(p)])
  <2> DEFINE q == Append(SubSeq(p, 1, Len(p) - 1), p[Len(p)])
  <2>1. q \in Seq(Names) /\ Len(q) = Len(p) /\ \A i \in 1 .. Len(p) : q[i] = p[i]
    <3>1. /\ q \in Seq(Names) /\ Len(q) = Len(p) - 1 + 1 /\ q[Len(p) - 1 + 1] = p[Len(p)]
          /\ \A i \in 1 .. Len(p) - 1 : q[i] = SubSeq(p, 1, Len(p) - 1)[i]
      BY <1>2, AppendProperties
    <3> HIDE DEF q
    <3> QED  BY <1>1, <1>2, <3>1
  <2> HIDE DEF q
  <2>2. q = p  BY <2>1, SeqEqual
  <2> QED  BY <2>2 DEF q
<1> QED  BY <1>1, <1>2, <1>3

LEMMA Appended ==
  ASSUME NEW S, NEW p \in Seq(S), NEW n \in S
  PROVE  /\ Append(p, n) \in Seq(S) /\ Len(Append(p, n)) = Len(p) + 1 /\ Len(p) \in Nat
         /\ \A i \in 1 .. Len(p) : Append(p, n)[i] = p[i]
         /\ Append(p, n)[Len(p) + 1] = n
BY AppendProperties, LenProperties

LEMMA PathAppend ==
  ASSUME NEW p \in Paths, NEW n \in Names
  PROVE  /\ Append(p, n) \in Paths /\ Append(p, n) # <<>> /\ Len(Append(p, n)) = Len(p) + 1
         /\ Len(p) \in Nat
         /\ \A i \in 1 .. Len(p) : Append(p, n)[i] = p[i]
         /\ Listings!Front(Append(p, n)) = p /\ Listings!Last(Append(p, n)) = n
<1> DEFINE q == Append(p, n)
<1>1. p \in Seq(Names) /\ Len(p) \in Nat  BY DEF Paths, Listings!Paths
<1>2. q \in Seq(Names)  BY <1>1, Appended, Zenon
<1>3. Len(q) = Len(p) + 1  BY <1>1, Appended, Zenon
<1>4. \A i \in 1 .. Len(p) : q[i] = p[i]
  <2>1. \A S : \A s \in Seq(S), x \in S : \A i \in 1 .. Len(s) : Append(s, x)[i] = s[i]
    BY Appended
  <2> QED  BY <1>1, <2>1, Zenon
<1>5. q[Len(p) + 1] = n  BY <1>1, Appended, Zenon
<1> HIDE DEF q
<1>6. SubSeq(q, 1, Len(p)) = p
  <2>1. \A i \in 1 .. Len(p) : q[i] \in Names  BY <1>1, <1>4
  <2>2. /\ SubSeq(q, 1, Len(p)) \in Seq(Names)
        /\ Len(SubSeq(q, 1, Len(p))) = IF 1 <= Len(p) THEN Len(p) - 1 + 1 ELSE 0
        /\ \A i \in 1 .. Len(p) - 1 + 1 : SubSeq(q, 1, Len(p))[i] = q[1 + i - 1]
    BY <1>1, <2>1, SubSeqProperties
  <2>3. Len(SubSeq(q, 1, Len(p))) = Len(p)  BY <1>1, <2>2
  <2>4. \A i \in 1 .. Len(p) : SubSeq(q, 1, Len(p))[i] = p[i]  BY <1>1, <1>4, <2>2
  <2> QED  BY <1>1, <2>2, <2>3, <2>4, SeqEqual
<1>7. q # <<>>  BY <1>1, <1>3
<1>8. Listings!Front(q) = p /\ Listings!Last(q) = n
  <2>1. Len(q) - 1 = Len(p)  BY <1>1, <1>3
  <2> QED  BY <1>3, <1>5, <1>6, <2>1 DEF Listings!Front, Listings!Last
<1> QED  BY <1>1, <1>2, <1>3, <1>4, <1>7, <1>8 DEF q, Paths, Listings!Paths

\* What one more name of a path does, and the functions that do it for the paths of a set.
Onward(c, p) ==
  IF p = <<>> THEN <<>> ELSE Listings!Followed(Append(c[Listings!Front(p)], Listings!Last(p)))
Short(n) == {p \in Paths : Len(p) <= n}
Resolves(c, S) == c = [p \in S |-> Onward(c, p)]

LEMMA ShortFront ==
  ASSUME NEW n \in Nat, NEW p \in Short(n), p # <<>>
  PROVE  Listings!Front(p) \in Short(n) /\ (n - 1 \in Nat) /\ Listings!Front(p) \in Short(n - 1)
BY PathEnds DEF Short

LEMMA ShortResolves == \A n \in Nat : \E c : Resolves(c, Short(n))
<1> DEFINE T == {n \in Nat : ~\E c : Resolves(c, Short(n))}
<1> SUFFICES ASSUME T # {} PROVE FALSE  OBVIOUS
<1>1. PICK n \in T : \A m \in T : n <= m  BY Least
<1>2. n # 0
  <2> DEFINE c == [p \in Short(0) |-> <<>>]
  <2>1. \A p \in Short(0) : p = <<>>  BY DEF Short, Paths, Listings!Paths
  <2>2. \A p \in Short(0) : Onward(c, p) = <<>>  BY <2>1 DEF Onward
  <2>3. Resolves(c, Short(0))  BY <2>2 DEF Resolves
  <2> QED  BY <2>3
<1>3. n - 1 \in Nat /\ n - 1 \notin T  BY <1>1, <1>2
<1>4. PICK c : Resolves(c, Short(n - 1))  BY <1>3
<1> DEFINE d == [p \in Short(n) |-> Onward(c, p)]
<1>5. \A p \in Short(n) : p # <<>> => Listings!Front(p) \in Short(n - 1)
  BY <1>1, ShortFront
<1>6. \A q \in Short(n - 1) : q \in Short(n) /\ d[q] = c[q]
  <2>1. \A q \in Short(n - 1) : q \in Short(n)
    BY <1>1, <1>3 DEF Short, Paths, Listings!Paths
  <2> QED  BY <1>4, <2>1 DEF Resolves
<1>7. \A p \in Short(n) : Onward(d, p) = Onward(c, p)  BY <1>5, <1>6 DEF Onward
<1>8. Resolves(d, Short(n))  BY <1>7 DEF Resolves
<1> QED  BY <1>1, <1>8

LEMMA ResolvesAlike ==
  ASSUME NEW m \in Nat, NEW n \in Nat, NEW c, NEW d, Resolves(c, Short(m)), Resolves(d, Short(n))
  PROVE  \A p \in Short(m) \cap Short(n) : c[p] = d[p]
<1> DEFINE T == {Len(p) : p \in {p \in Short(m) \cap Short(n) : c[p] # d[p]}}
<1> SUFFICES ASSUME T # {} PROVE FALSE  OBVIOUS
<1>1. T \in SUBSET Nat  BY DEF Short, Paths, Listings!Paths
<1>2. PICK k \in T : \A l \in T : k <= l  BY <1>1, Least
<1>3. PICK p \in Short(m) \cap Short(n) : c[p] # d[p] /\ Len(p) = k  OBVIOUS
<1>4. p # <<>>  BY <1>3 DEF Resolves, Onward
<1> DEFINE q == Listings!Front(p)
<1>5. q \in Short(m) \cap Short(n) /\ Len(q) = k - 1 /\ k \in Nat  BY <1>3, <1>4, PathEnds DEF Short
<1>6. c[q] = d[q]
  <2>1. SUFFICES ASSUME c[q] # d[q] PROVE FALSE  OBVIOUS
  <2>2. Len(q) \in T  BY <1>5, <2>1
  <2> QED  BY <1>2, <1>5, <2>2
<1>7. c[p] = d[p]  BY <1>3, <1>4, <1>6 DEF Resolves, Onward
<1> QED  BY <1>3, <1>7

LEMMA FollowedPath ==
  ASSUME NEW p \in Paths PROVE Listings!Followed(p) \in Paths
BY QueriesAssumption DEF Listings!FilesAssumption, Listings!Followed, Paths

\* The recursion of Canonical has a solution.
LEMMA CanonicalIs ==
  \A p \in Paths :
    /\ Listings!Canonical[p] \in Paths
    /\ Listings!Canonical[p] = Onward(Listings!Canonical, p)
<1> DEFINE Sol(n) == CHOOSE c : Resolves(c, Short(n))
<1>1. \A n \in Nat : Resolves(Sol(n), Short(n))  BY ShortResolves
<1> DEFINE C == [p \in Paths |-> Sol(Len(p))[p]]
<1> HIDE DEF Sol
<1>2. \A p \in Paths : Len(p) \in Nat /\ p \in Short(Len(p))  BY DEF Short, Paths, Listings!Paths
<1>3. \A n \in Nat : \A p \in Short(n) : C[p] = Sol(n)[p]
  <2> SUFFICES ASSUME NEW n \in Nat, NEW p \in Short(n) PROVE C[p] = Sol(n)[p]  OBVIOUS
  <2>1. p \in Paths /\ p \in Short(Len(p)) /\ Len(p) \in Nat  BY <1>2 DEF Short
  <2>2. Sol(Len(p))[p] = Sol(n)[p]  BY <1>1, <2>1, ResolvesAlike
  <2> QED  BY <2>1, <2>2
<1>5. ASSUME NEW p \in Paths PROVE C[p] = Onward(C, p)
  <2>1. C[p] = Onward(Sol(Len(p)), p)  BY <1>1, <1>2 DEF Resolves
  <2>2. CASE p = <<>>  BY <2>1, <2>2 DEF Onward
  <2>3. CASE p # <<>>
    <3>1. Listings!Front(p) \in Short(Len(p))  BY <2>3, <1>2, ShortFront
    <3>2. C[Listings!Front(p)] = Sol(Len(p))[Listings!Front(p)]  BY <1>2, <1>3, <3>1
    <3> QED  BY <2>1, <2>3, <3>2 DEF Onward
  <2> QED  BY <2>2, <2>3
<1>6. C = [p \in Paths |-> Onward(C, p)]  BY <1>5
<1>7. \E c : c = [p \in Paths |-> Onward(c, p)]  BY <1>6
<1> HIDE DEF C
<1> DEFINE K == Listings!Canonical
<1>8. K = [p \in Paths |-> Onward(K, p)]
  BY <1>7 DEF Onward, Paths, Listings!Canonical
<1> HIDE DEF K
<1>9. \A p \in Paths : K[p] = Onward(K, p)  BY <1>8
<1> DEFINE T == {Len(p) : p \in {p \in Paths : K[p] \notin Paths}}
<1>10. SUFFICES ASSUME T # {} PROVE FALSE  BY <1>9 DEF K
<1>11. PICK k \in T : \A l \in T : k <= l  BY <1>2, <1>10, Least
<1>12. PICK p \in Paths : K[p] \notin Paths /\ Len(p) = k  OBVIOUS
<1>13. p # <<>>  BY <1>9, <1>12 DEF Onward, Paths, Listings!Paths
<1>14. /\ Listings!Front(p) \in Paths /\ Len(Listings!Front(p)) = k - 1 /\ k \in Nat
       /\ Listings!Last(p) \in Names
  BY <1>12, <1>13, PathEnds
<1>15. K[Listings!Front(p)] \in Paths
  <2>1. SUFFICES ASSUME K[Listings!Front(p)] \notin Paths PROVE FALSE  OBVIOUS
  <2>2. Len(Listings!Front(p)) \in T  BY <1>14, <2>1
  <2> QED  BY <1>11, <1>14, <2>2
<1>16. K[p] \in Paths
  <2>1. Append(K[Listings!Front(p)], Listings!Last(p)) \in Paths  BY <1>14, <1>15, PathAppend
  <2> QED  BY <1>9, <1>13, <2>1, FollowedPath DEF Onward
<1> QED  BY <1>12, <1>16

\* One name at a time.
LEMMA CanonicalAppend ==
  ASSUME NEW p \in Paths, NEW n \in Names
  PROVE  Listings!Canonical[Append(p, n)] = Listings!Followed(Append(Listings!Canonical[p], n))
<1>1. Append(p, n) \in Paths  BY PathAppend
<1>2. Listings!Canonical[Append(p, n)] = Onward(Listings!Canonical, Append(p, n))
  BY <1>1, CanonicalIs
<1> QED  BY <1>2, PathAppend DEF Onward

LEMMA CanonicalTop == <<>> \in Paths /\ Listings!Canonical[<<>>] = <<>>
<1>1. <<>> \in Paths  BY DEF Paths, Listings!Paths
<1> QED  BY <1>1, CanonicalIs DEF Onward

\* What is really there.
Places == (Dirs \cup Files) \ DOMAIN Links

LEMMA PlaceFacts ==
  /\ Dirs \cup Files \subseteq Paths
  /\ \A q \in DOMAIN Links : Links[q] \in Places
  /\ \A p \in Dirs \cup Files : p # <<>> => Listings!Front(p) \in Dirs \ DOMAIN Links
  /\ \A p \in Files : p # <<>>
BY QueriesAssumption DEF Listings!FilesAssumption, Paths, Places

\* Where something is, is its canonical path.
LEMMA PlaceIsCanonical == \A p \in Places : Listings!Canonical[p] = p
<1> DEFINE K == Listings!Canonical
           T == {Len(p) : p \in {p \in Places : K[p] # p}}
<1> SUFFICES ASSUME T # {} PROVE FALSE  OBVIOUS
<1>1. Places \subseteq Paths  BY PlaceFacts DEF Places
<1>2. \A p \in Paths : Len(p) \in Nat  BY DEF Paths, Listings!Paths
<1>3. T \in SUBSET Nat  BY <1>1, <1>2
<1>4. PICK k \in T : \A l \in T : k <= l  BY <1>3, Least
<1>5. PICK p \in Places : K[p] # p /\ Len(p) = k  OBVIOUS
<1>6. p # <<>> /\ p \in Paths  BY <1>1, <1>5, CanonicalTop
<1> DEFINE q == Listings!Front(p)  n == Listings!Last(p)
<1>7. q \in Places /\ q \in Paths /\ n \in Names /\ p = Append(q, n) /\ Len(q) = k - 1 /\ k \in Nat
  BY <1>1, <1>5, <1>6, PlaceFacts, PathEnds DEF Places
<1>8. K[q] = q
  <2>1. SUFFICES ASSUME K[q] # q PROVE FALSE  OBVIOUS
  <2>2. Len(q) \in T  BY <1>7, <2>1
  <2> QED  BY <1>4, <1>7, <2>2
<1> HIDE DEF K, q, n
<1>9. K[p] = Listings!Followed(Append(q, n))  BY <1>7, <1>8, CanonicalAppend DEF K
<1>10. K[p] = p  BY <1>5, <1>7, <1>9 DEF Listings!Followed, Places
<1> QED  BY <1>5, <1>10

\* A canonical path is its own.
LEMMA CanonicalTwice ==
  \A p \in Paths : Listings!Canonical[Listings!Canonical[p]] = Listings!Canonical[p]
<1> DEFINE K == Listings!Canonical
           T == {Len(p) : p \in {p \in Paths : K[K[p]] # K[p]}}
<1> SUFFICES ASSUME T # {} PROVE FALSE  OBVIOUS
<1>2. \A p \in Paths : Len(p) \in Nat  BY DEF Paths, Listings!Paths
<1>3. T \in SUBSET Nat  BY <1>2
<1>4. PICK k \in T : \A l \in T : k <= l  BY <1>3, Least
<1>5. PICK p \in Paths : K[K[p]] # K[p] /\ Len(p) = k  OBVIOUS
<1>6. p # <<>>  BY <1>5, CanonicalTop
<1> DEFINE q == Listings!Front(p)  n == Listings!Last(p)
<1>7. q \in Paths /\ n \in Names /\ p = Append(q, n) /\ Len(q) = k - 1 /\ k \in Nat
  BY <1>5, <1>6, PathEnds
<1>8. K[K[q]] = K[q]
  <2>1. SUFFICES ASSUME K[K[q]] # K[q] PROVE FALSE  OBVIOUS
  <2>2. Len(q) \in T  BY <1>7, <2>1
  <2> QED  BY <1>4, <1>7, <2>2
<1>9. K[q] \in Paths  BY <1>7, CanonicalIs
<1> HIDE DEF K, q, n
<1>10. K[p] = Listings!Followed(Append(K[q], n))  BY <1>7, CanonicalAppend DEF K
<1>11. K[Append(K[q], n)] = Listings!Followed(Append(K[q], n))
  BY <1>7, <1>8, <1>9, CanonicalAppend DEF K
<1>12. CASE Append(K[q], n) \in DOMAIN Links
  <2>1. K[p] \in Places  BY <1>10, <1>12, PlaceFacts DEF Listings!Followed
  <2> QED  BY <1>5, <2>1, PlaceIsCanonical DEF K
<1>13. CASE Append(K[q], n) \notin DOMAIN Links
  BY <1>5, <1>10, <1>11, <1>13 DEF Listings!Followed
<1> QED  BY <1>12, <1>13
-----------------------------------------------------------------------------
(* Prefixes *)

Agrees(s, t) == Len(s) <= Len(t) /\ \A i \in 1 .. Len(s) : s[i] = t[i]

LEMMA PrefixIs ==
  ASSUME NEW p \in Paths, NEW q \in Paths
  PROVE  Listings!IsPrefix(p, q) <=> Agrees(p, q)
<1>1. p \in Seq(Names) /\ q \in Seq(Names)  BY DEF Paths, Listings!Paths
<1>2. \A S : \A s, t \in Seq(S) :
        Listings!IsPrefix(s, t) <=> Agrees(s, t)
  <2> SUFFICES ASSUME NEW S, NEW s \in Seq(S), NEW t \in Seq(S), Len(s) <= Len(t)
              PROVE  SubSeq(s, 1, Len(s)) = SubSeq(t, 1, Len(s))
                        <=> \A i \in 1 .. Len(s) : s[i] = t[i]
    BY DEF Listings!IsPrefix, Agrees
  <2>1. SubSeq(s, 1, Len(s)) = s  BY SubSeqFull
  <2>2. /\ SubSeq(t, 1, Len(s)) \in Seq(S) /\ Len(SubSeq(t, 1, Len(s))) = Len(s)
        /\ \A i \in 1 .. Len(s) : SubSeq(t, 1, Len(s))[i] = t[i]
    OBVIOUS
  <2> QED  BY <2>1, <2>2, SeqEqual
<1> QED  BY <1>1, <1>2, Zenon

LEMMA AgreesOnward ==
  ASSUME NEW S, NEW d \in Seq(S), NEW p \in Seq(S), NEW n \in S, Agrees(d, p)
  PROVE  Agrees(d, Append(p, n))
BY Appended DEF Agrees

LEMMA PrefixAppend ==
  ASSUME NEW d \in Paths, NEW p \in Paths, NEW n \in Names, Listings!IsPrefix(d, p)
  PROVE  Listings!IsPrefix(d, Append(p, n))
<1>1. Append(p, n) \in Paths  BY PathAppend
<1>2. Agrees(d, p)  BY PrefixIs
<1>3. d \in Seq(Names) /\ p \in Seq(Names)  BY DEF Paths, Listings!Paths
<1>4. Agrees(d, Append(p, n))  BY <1>2, <1>3, AgreesOnward, Zenon
<1> QED  BY <1>1, <1>4, PrefixIs

LEMMA CutTwice ==
  ASSUME NEW S, NEW s \in Seq(S), NEW m \in 0 .. Len(s), NEW k \in 0 .. m
  PROVE  /\ SubSeq(s, 1, m) \in Seq(S) /\ Len(SubSeq(s, 1, m)) = m
         /\ SubSeq(SubSeq(s, 1, m), 1, k) = SubSeq(s, 1, k)
         /\ Agrees(SubSeq(s, 1, m), s)
<1> DEFINE t == SubSeq(s, 1, m)  u == SubSeq(t, 1, k)  v == SubSeq(s, 1, k)
<1>1. t \in Seq(S) /\ Len(t) = m /\ \A i \in 1 .. m : t[i] = s[i]  OBVIOUS
<1>2. v \in Seq(S) /\ Len(v) = k /\ \A i \in 1 .. k : v[i] = s[i]  OBVIOUS
<1> HIDE DEF t, v
<1>3. u \in Seq(S) /\ Len(u) = k /\ \A i \in 1 .. k : u[i] = t[i]  BY <1>1
<1> HIDE DEF u
<1>4. u = v
  <2>1. Len(u) = Len(v) /\ \A i \in 1 .. Len(u) : u[i] = v[i]  BY <1>1, <1>2, <1>3
  <2> QED  BY <1>2, <1>3, <2>1, SeqEqual
<1>5. Agrees(t, s)  BY <1>1 DEF Agrees
<1> QED  BY <1>1, <1>4, <1>5 DEF t, u, v

LEMMA AgreesCut ==
  ASSUME NEW S, NEW s \in Seq(S), NEW t \in Seq(S), Agrees(s, t)
  PROVE  s = SubSeq(t, 1, Len(s))
<1> DEFINE u == SubSeq(t, 1, Len(s))
<1>1. u \in Seq(S) /\ Len(u) = Len(s) /\ \A i \in 1 .. Len(s) : u[i] = t[i]  BY DEF Agrees
<1> HIDE DEF u
<1>2. \A i \in 1 .. Len(s) : s[i] = u[i]  BY <1>1 DEF Agrees
<1>3. s = u  BY <1>1, <1>2, SeqEqual
<1> QED  BY <1>3 DEF u

Above(f, k) == SubSeq(f, 1, k)

LEMMA AboveIs ==
  ASSUME NEW f \in Paths, NEW m \in 0 .. Len(f)
  PROVE  /\ Above(f, m) \in Paths /\ Len(Above(f, m)) = m
         /\ \A k \in 0 .. m : Above(Above(f, m), k) = Above(f, k)
         /\ Listings!IsPrefix(Above(f, m), f)
<1>1. f \in Seq(Names)  BY DEF Paths, Listings!Paths
<1>2. Above(f, m) \in Seq(Names) /\ Len(Above(f, m)) = m /\ Agrees(Above(f, m), f)
  BY <1>1, CutTwice DEF Above
<1>3. ASSUME NEW k \in 0 .. m PROVE Above(Above(f, m), k) = Above(f, k)
  BY <1>1, CutTwice DEF Above
<1>4. Above(f, m) \in Paths  BY <1>2 DEF Paths, Listings!Paths
<1> QED  BY <1>2, <1>3, <1>4, PrefixIs

\* What a place lies below are directories that are really there.
LEMMA AboveAreDirs ==
  ASSUME NEW f \in Dirs \cup Files
  PROVE  \A k \in 0 .. Len(f) - 1 : Above(f, k) \in Dirs \ DOMAIN Links
<1>1. f \in Paths  BY PlaceFacts
<1>2. Len(f) \in Nat  BY <1>1 DEF Paths, Listings!Paths
<1> DEFINE T == {j \in 1 .. Len(f) : Above(f, Len(f) - j) \notin Dirs \ DOMAIN Links}
<1>3. T = {}
  <2> SUFFICES ASSUME T # {} PROVE FALSE  OBVIOUS
  <2>1. T \in SUBSET Nat  OBVIOUS
  <2>2. PICK j \in T : \A i \in T : j <= i  BY <2>1, Least
  <2> DEFINE m == Len(f) - (j - 1)  h == Above(f, m)
  <2>3. m \in 1 .. Len(f) /\ m \in 0 .. Len(f) /\ m - 1 = Len(f) - j /\ m - 1 \in 0 .. m  BY <1>2
  <2>4. h \in Paths /\ Len(h) = m /\ Above(h, m - 1) = Above(f, m - 1)  BY <1>1, <2>3, AboveIs
  <2>5. h \in Dirs \cup Files
    <3>1. CASE j = 1
      <4>1. m = Len(f)  BY <1>2, <3>1
      <4>2. f \in Seq(Names)  BY <1>1 DEF Paths, Listings!Paths
      <4>3. h = f  BY <4>1, <4>2, SubSeqFull DEF Above
      <4> QED  BY <4>3
    <3>2. CASE j # 1
      <4>1. j - 1 \in 1 .. Len(f) /\ ~(j <= j - 1)  BY <1>2, <3>2
      <4>2. j - 1 \notin T  BY <2>2, <4>1
      <4> QED  BY <4>1, <4>2
    <3> QED  BY <3>1, <3>2
  <2> HIDE DEF h, m
  <2>6. h # <<>>  BY <2>3, <2>4
  <2>7. Listings!Front(h) = Above(f, Len(f) - j)  BY <2>3, <2>4 DEF Listings!Front, Above
  <2>8. Above(f, Len(f) - j) \in Dirs \ DOMAIN Links  BY <2>5, <2>6, <2>7, PlaceFacts
  <2> QED  BY <2>8
<1>4. ASSUME NEW k \in 0 .. Len(f) - 1 PROVE Above(f, k) \in Dirs \ DOMAIN Links
  <2>1. Len(f) - k \in 1 .. Len(f) /\ Len(f) - (Len(f) - k) = k  BY <1>2
  <2>2. Len(f) - k \notin T  BY <1>3
  <2> QED  BY <2>1, <2>2
<1> QED  BY <1>4

\* The next step on the way from a directory down to a file.
LEMMA WayDown ==
  ASSUME NEW x \in Paths, NEW f \in Files, Listings!IsPrefix(x, f), Len(x) < Len(f)
  PROVE  /\ x \in Dirs \ DOMAIN Links
         /\ Len(f) = Len(x) + 1 => Listings!Front(f) = x
         /\ Len(f) # Len(x) + 1 =>
              \E g \in Dirs \ DOMAIN Links :
                /\ Listings!Front(g) = x /\ g # <<>> /\ Len(g) = Len(x) + 1
                /\ Listings!IsPrefix(g, f)
<1>1. f \in Paths /\ f \in Dirs \cup Files  BY PlaceFacts
<1>2. Len(f) \in Nat /\ Len(x) \in Nat  BY <1>1 DEF Paths, Listings!Paths
<1>3. x = Above(f, Len(x))
  <2>1. x \in Seq(Names) /\ f \in Seq(Names)  BY <1>1 DEF Paths, Listings!Paths
  <2>2. Agrees(x, f)  BY <1>1, PrefixIs
  <2> QED  BY <2>1, <2>2, AgreesCut DEF Above
<1>4. x \in Dirs \ DOMAIN Links
  <2>1. Len(x) \in 0 .. Len(f) - 1  BY <1>2
  <2> QED  BY <1>1, <1>3, <2>1, AboveAreDirs
<1>5. ASSUME Len(f) = Len(x) + 1 PROVE Listings!Front(f) = x
  <2>1. Len(f) - 1 = Len(x)  BY <1>2, <1>5
  <2> QED  BY <1>3, <2>1 DEF Listings!Front, Above
<1>6. ASSUME Len(f) # Len(x) + 1
      PROVE  \E g \in Dirs \ DOMAIN Links :
                /\ Listings!Front(g) = x /\ g # <<>> /\ Len(g) = Len(x) + 1
                /\ Listings!IsPrefix(g, f)
  <2> DEFINE g == Above(f, Len(x) + 1)
  <2>1. /\ Len(x) + 1 \in 0 .. Len(f) - 1 /\ Len(x) + 1 \in 0 .. Len(f)
        /\ Len(x) \in 0 .. Len(x) + 1 /\ Len(x) + 1 - 1 = Len(x)
    BY <1>2, <1>6
  <2>2. g \in Dirs \ DOMAIN Links  BY <1>1, <2>1, AboveAreDirs
  <2>3. /\ Len(g) = Len(x) + 1 /\ Listings!IsPrefix(g, f)
        /\ Above(g, Len(x)) = Above(f, Len(x))
    BY <1>1, <2>1, AboveIs
  <2> HIDE DEF g
  <2>4. Listings!Front(g) = x  BY <1>3, <2>1, <2>3 DEF Listings!Front, Above
  <2>5. g # <<>>  BY <1>2, <2>3
  <2> QED  BY <2>2, <2>3, <2>4, <2>5
<1> QED  BY <1>4, <1>5, <1>6
-----------------------------------------------------------------------------
(* Directories pushed on the stack *)

LEMMA SameFinite ==
  /\ \A S : Listings!IsFiniteSet(S) <=> IsFiniteSet(S)
  /\ \A S : Listings!Cardinality(S) = Cardinality(S)
BY DEF Listings!IsFiniteSet, IsFiniteSet, Listings!Cardinality, Cardinality

LEMMA SetToSeqIs ==
  ASSUME NEW S, IsFiniteSet(S)
  PROVE  /\ Listings!SetToSeq(S) \in Seq(S)
         /\ \A x \in S : \E i \in DOMAIN Listings!SetToSeq(S) : Listings!SetToSeq(S)[i] = x
<1> DEFINE n == Cardinality(S)  q == Listings!SetToSeq(S)
<1>1. n \in Nat /\ ExistsBijection(1 .. n, S)  BY FS_CardinalityType
<1>2. \E f \in [1 .. n -> S] : Listings!IsInjective(f)
  BY <1>1 DEF ExistsBijection, Bijection, Injection, IsInjective, Listings!IsInjective
<1>3. q \in [1 .. n -> S] /\ Listings!IsInjective(q)
  BY <1>2, SameFinite DEF Listings!SetToSeq
<1> HIDE DEF n, q
<1>4. q \in Injection(1 .. n, S)  BY <1>3 DEF Injection, IsInjective, Listings!IsInjective
<1>5. IsFiniteSet(1 .. n) /\ Cardinality(1 .. n) = n  BY <1>1, FS_Interval
<1>6. q \in Surjection(1 .. n, S)  BY <1>4, <1>5, FS_Injection DEF n
<1>7. q \in Seq(S) /\ DOMAIN q = 1 .. n  BY <1>1, <1>3
<1>8. \A x \in S : \E i \in 1 .. n : q[i] = x  BY <1>6 DEF Surjection
<1> QED  BY <1>7, <1>8 DEF q
-----------------------------------------------------------------------------
(***************************************************************************)
(* The invariant of the search.                                            *)
(***************************************************************************)

Item == [dir : Paths, depth : Nat]

\* p lies in one of the directories the server may look into, links followed.
Reached(p) == \E d \in Listings!AllowedDirectories : Listings!IsPrefix(d, Listings!Canonical[p])

ListTyped ==
  /\ phase \in {"idle", "listing", "listed"}
  /\ disk \in [Files -> {"session", "junk", NoFile}]
  /\ dirs \in Seq(Item) /\ roots \subseteq Listings!DiscoveryRoots
  /\ looking \subseteq Stored /\ found \subseteq Stored

\* What the search meets may be met.
Met(p) ==
  /\ p \in Paths /\ p # <<>> /\ Listings!Canonical[p] \in Files
  /\ Reached(p) /\ Listings!MayBeSession(p)
Sits ==
  /\ \A n \in DOMAIN dirs : Reached(dirs[n].dir)
  /\ \A p \in files \cup discovered : Met(p)

\* What was found was there at that time.
Seen ==
  /\ phase = "idle" => found = {} /\ discovered = {}
  /\ phase # "idle" => always \subseteq Listings!Here /\ Listings!Here \subseteq ever
  /\ \A i \in found : Listings!Canonical[StoredFile[i]] \in ever
  /\ \A p \in discovered : Listings!Canonical[p] \in ever

\* A file is found, or the search is on the way to it, or was stopped on the way.
OnWay(item, f) ==
  /\ Listings!IsPrefix(item.dir, f)
  /\ Len(item.dir) < Len(f) /\ Len(f) - Len(item.dir) - 1 + item.depth <= MaxDepth
Pursued(f, d) ==
  \/ d \in roots
  \/ \E n \in DOMAIN dirs : OnWay(dirs[n], f)
  \/ f \in files \cup discovered
  \/ \E c \in cut : Listings!IsPrefix(c, f)
Wanted(f, d) ==
  /\ f \in always \ DOMAIN Links /\ Listings!IsSessionName(f)
  /\ d \in Listings!AllowedDirectories /\ Listings!Within(f, d)
Searching == phase # "idle" => \A f, d : Wanted(f, d) => Pursued(f, d)

Concluded ==
  /\ phase = "listed" =>
       /\ roots = {} /\ dirs = <<>> /\ files = {}
       /\ listing = [p \in discovered \cup {StoredFile[i] : i \in Stored} |-> Listings!Merged(p)]
  /\ asked # NoFile => phase = "listed"

ListInv == ListTyped /\ Sits /\ Seen /\ Searching /\ Concluded /\ Listings!ListedMayBeOpened

LEMMA SelfPrefix == \A p \in Paths : Listings!IsPrefix(p, p)
<1> SUFFICES ASSUME NEW p \in Paths PROVE Listings!IsPrefix(p, p)  OBVIOUS
<1>1. Len(p) \in Nat  BY DEF Paths, Listings!Paths
<1>2. Agrees(p, p)  BY <1>1 DEF Agrees
<1> QED  BY <1>2, PrefixIs

LEMMA Extended ==
  ASSUME NEW S, NEW p \in Seq(S), NEW q \in Seq(S)
  PROVE  p \o q \in Seq(S)
OBVIOUS

LEMMA Two == ASSUME NEW S, NEW a \in S, NEW b \in S PROVE <<a, b>> \in Seq(S)
OBVIOUS

LEMMA Three == ASSUME NEW S, NEW a \in S, NEW b \in S, NEW c \in S PROVE <<a, b, c>> \in Seq(S)
OBVIOUS

LEMMA SessionsPaths ==
  <<".pi", "agent", "sessions">> \in Seq(Names) /\ <<".pi", "sessions">> \in Seq(Names)
<1>1. ".pi" \in Names /\ "agent" \in Names /\ "sessions" \in Names
  BY QueriesAssumption DEF Listings!FilesAssumption
<1> QED  BY <1>1, Two, Three, Zenon

\* The directories that may be looked into are where they say.
LEMMA AllowedFacts ==
  \A d \in Listings!AllowedDirectories : d \in Paths /\ Listings!Canonical[d] = d
<1>1. Home \in Seq(Names) /\ Home \in Paths /\ Cwd \in Paths
  BY QueriesAssumption DEF Listings!FilesAssumption, Paths, Listings!Paths
<1>2. <<".pi", "agent", "sessions">> \in Seq(Names) /\ <<".pi", "sessions">> \in Seq(Names)
  BY SessionsPaths
<1>3. Listings!AgentSessions \in Paths
  BY <1>1, <1>2, Extended, Zenon DEF Listings!AgentSessions, Paths, Listings!Paths
<1>4. Listings!Searched \subseteq Seq(Names)
  <2> DEFINE cwd == Listings!Canonical[Cwd]  home == Listings!Canonical[Home]
             from == IF Listings!IsPrefix(home, cwd) THEN Len(home) ELSE 0
  <2>1. cwd \in Paths /\ home \in Paths  BY <1>1, CanonicalIs
  <2>2. Len(cwd) \in Nat /\ from \in Nat  BY <2>1 DEF Paths, Listings!Paths
  <2>3. Listings!Searched = {Above(cwd, n) : n \in from .. Len(cwd)}
    BY DEF Listings!Searched, Listings!Ancestors, Above
  <2> HIDE DEF cwd, from
  <2>4. ASSUME NEW n \in from .. Len(cwd) PROVE Above(cwd, n) \in Seq(Names)
    <3>1. n \in 0 .. Len(cwd)  BY <2>2
    <3> QED  BY <2>1, <3>1, AboveIs DEF Paths, Listings!Paths
  <2> QED  BY <2>3, <2>4
<1>5. \A d \in Listings!Searched : d \o <<".pi", "sessions">> \in Paths
  <2> SUFFICES ASSUME NEW d \in Listings!Searched PROVE d \o <<".pi", "sessions">> \in Paths
    OBVIOUS
  <2>1. d \in Seq(Names)  BY <1>4
  <2> QED  BY <1>2, <2>1, Extended, Zenon DEF Paths, Listings!Paths
<1>6. \A p \in Paths : Listings!Canonical[p] \in Paths  BY CanonicalIs
<1> QED  BY <1>3, <1>5, <1>6, CanonicalTwice DEF Listings!AllowedDirectories

LEMMA RootFacts ==
  \A r \in Listings!DiscoveryRoots : r \in Paths /\ Reached(r)
<1>1. Listings!AgentSessions \in Paths
  <2>1. Home \in Seq(Names)
    BY QueriesAssumption DEF Listings!FilesAssumption, Listings!Paths
  <2>2. <<".pi", "agent", "sessions">> \in Seq(Names)  BY SessionsPaths
  <2> QED  BY <2>1, <2>2, Extended, Zenon DEF Listings!AgentSessions, Paths, Listings!Paths
<1>2. Reached(Listings!AgentSessions)
  <2>1. Listings!Canonical[Listings!AgentSessions] \in Listings!AllowedDirectories
    BY DEF Listings!AllowedDirectories
  <2>2. Listings!Canonical[Listings!AgentSessions] \in Paths  BY <1>1, CanonicalIs
  <2> QED  BY <2>1, <2>2, SelfPrefix DEF Reached
<1>3. \A d \in Listings!AllowedDirectories : d \in Paths /\ Reached(d)
  BY AllowedFacts, SelfPrefix DEF Reached
<1> QED  BY <1>1, <1>2, <1>3 DEF Listings!DiscoveryRoots

\* What a directory has in it is found under its real place.
LEMMA MemberFacts ==
  ASSUME NEW dir \in Paths, NEW kind \in {Dirs, Files}, NEW p \in Listings!Members(dir, kind)
  PROVE  /\ p \in kind \ DOMAIN Links /\ p \in Paths
         /\ Listings!Named(dir, p) \in Paths /\ Listings!Named(dir, p) # <<>>
         /\ Listings!Canonical[Listings!Named(dir, p)] = p
         /\ Listings!Last(Listings!Named(dir, p)) = Listings!Last(p)
         /\ Listings!Canonical[dir] = dir => Listings!Named(dir, p) = p
         /\ Reached(dir) => Reached(Listings!Named(dir, p))
<1>1. /\ p \in kind \ DOMAIN Links /\ p \in Paths /\ p # <<>>
      /\ Listings!Front(p) = Listings!Canonical[dir]
  BY PlaceFacts DEF Listings!Members
<1>2. Listings!Last(p) \in Names /\ p = Append(Listings!Front(p), Listings!Last(p))
  BY <1>1, PathEnds
<1> DEFINE n == Listings!Named(dir, p)
<1>3. n \in Paths /\ n # <<>> /\ Listings!Last(n) = Listings!Last(p)
  BY <1>2, PathAppend DEF Listings!Named
<1>4. Listings!Canonical[n] = p
  <2>1. Listings!Canonical[n] = Listings!Followed(Append(Listings!Canonical[dir], Listings!Last(p)))
    BY <1>2, CanonicalAppend DEF Listings!Named
  <2> QED  BY <1>1, <1>2, <2>1 DEF Listings!Followed
<1>5. Listings!Canonical[dir] = dir => n = p  BY <1>1, <1>2 DEF Listings!Named
<1>6. ASSUME Reached(dir) PROVE Reached(n)
  <2>1. PICK d \in Listings!AllowedDirectories : Listings!IsPrefix(d, Listings!Canonical[dir])
    BY <1>6 DEF Reached
  <2>2. d \in Paths /\ Listings!Canonical[dir] \in Paths  BY AllowedFacts, CanonicalIs
  <2>3. Listings!IsPrefix(d, p)  BY <1>1, <1>2, <2>1, <2>2, PrefixAppend
  <2> QED  BY <1>4, <2>3 DEF Reached
<1> QED  BY <1>1, <1>3, <1>4, <1>5, <1>6
-----------------------------------------------------------------------------
(* The steps *)

LEMMA ListInit == Listings!Init => ListInv
<1> SUFFICES ASSUME Listings!Init PROVE ListInv  OBVIOUS
<1>1. ListTyped  BY DEF Listings!Init, ListTyped
<1>2. Sits /\ Seen /\ Searching  BY DEF Listings!Init, Sits, Seen, Searching
<1>3. Concluded /\ Listings!ListedMayBeOpened
  BY DEF Listings!Init, Concluded, Listings!ListedMayBeOpened
<1> QED  BY <1>1, <1>2, <1>3 DEF ListInv

\* Nothing new is wanted as long as nothing joins the files that were there all the time.
LEMMA WantedStays ==
  ASSUME always' \subseteq always, NEW f, NEW d, Wanted(f, d)'
  PROVE  Wanted(f, d)
BY DEF Wanted, Listings!Within, Listings!IsSessionName

LEMMA ChangeInv ==
  ASSUME ListInv, NEW f \in Files, NEW held \in {"session", "junk", NoFile},
         Listings!Change(f, held)
  PROVE  ListInv'
<1> USE DEF Listings!Change, Listings!search, Listings!answers
<1>1. ListTyped'  BY DEF ListInv, ListTyped
<1>2. Sits'  BY DEF ListInv, Sits, Met, Reached
<1>3. Seen'
  <2>1. ever \subseteq ever'  OBVIOUS
  <2>2. phase # "idle" => always' \subseteq Listings!Here' /\ Listings!Here' \subseteq ever'
    BY DEF ListInv, ListTyped, Seen, Listings!Here
  <2> QED  BY <2>1, <2>2 DEF ListInv, Seen
<1>4. Searching'
  <2> SUFFICES ASSUME phase # "idle", NEW g, NEW d, Wanted(g, d)' PROVE Pursued(g, d)'
    BY DEF Searching
  <2>1. Pursued(g, d)  BY WantedStays DEF ListInv, Searching
  <2> QED  BY <2>1 DEF Pursued, OnWay
<1>5. Concluded'  BY DEF ListInv, Concluded, Listings!Merged, Listings!ByPath
<1>6. Listings!ListedMayBeOpened'  BY DEF ListInv, Listings!ListedMayBeOpened
<1> QED  BY <1>1, <1>2, <1>3, <1>4, <1>5, <1>6 DEF ListInv

LEMMA ListListInv == ASSUME ListInv, Listings!List PROVE ListInv'
<1> USE DEF Listings!List
<1>1. ListTyped'  BY DEF ListInv, ListTyped
<1>2. Sits'  BY DEF ListInv, Sits, Met, Reached
<1>3. Seen'  BY DEF ListInv, Seen, Listings!Here
<1>4. Searching'
  BY DEF Searching, Wanted, Pursued, Listings!DiscoveryRoots
<1>5. Concluded'  BY DEF ListInv, Concluded
<1>6. Listings!ListedMayBeOpened'  BY DEF ListInv, Listings!ListedMayBeOpened
<1> QED  BY <1>1, <1>2, <1>3, <1>4, <1>5, <1>6 DEF ListInv

LEMMA LookUpInv == ASSUME ListInv, Listings!LookUp PROVE ListInv'
<1> USE DEF Listings!LookUp, Listings!search
<1> DEFINE i == CHOOSE i \in looking : TRUE
<1>1. i \in Stored  BY DEF ListInv, ListTyped
<1>2. /\ looking' = looking \ {i}
      /\ found' = IF Listings!Exists(StoredFile[i]) THEN found \cup {i} ELSE found
  OBVIOUS
<1> HIDE DEF i
<1>3. ListTyped'  BY <1>1, <1>2 DEF ListInv, ListTyped
<1>4. Sits'  BY DEF ListInv, Sits, Met, Reached
<1>5. Seen'
  <2>1. \A p : Listings!Exists(p) => Listings!Canonical[p] \in Listings!Here
    BY DEF Listings!Exists, Listings!Here
  <2> QED  BY <1>2, <2>1 DEF ListInv, Seen, Listings!Here
<1>6. Searching'
  <2> SUFFICES ASSUME NEW g, NEW d, Wanted(g, d)' PROVE Pursued(g, d)'
    BY DEF Searching
  <2>1. Pursued(g, d)  BY WantedStays DEF ListInv, Searching
  <2> QED  BY <2>1 DEF Pursued, OnWay
<1>7. Concluded'  BY DEF ListInv, Concluded
<1>8. Listings!ListedMayBeOpened'  BY DEF ListInv, Listings!ListedMayBeOpened
<1> QED  BY <1>3, <1>4, <1>5, <1>6, <1>7, <1>8 DEF ListInv

LEMMA EnterRootInv == ASSUME ListInv, Listings!EnterRoot PROVE ListInv'
<1> USE DEF Listings!EnterRoot, Listings!answers
<1> DEFINE r == CHOOSE r \in roots : TRUE
<1>1. r \in roots /\ r \in Listings!DiscoveryRoots  BY DEF ListInv, ListTyped
<1>2. roots' = roots \ {r} /\ dirs' = <<[dir |-> r, depth |-> 0]>>  OBVIOUS
<1>3. r \in Paths /\ Reached(r)  BY <1>1, RootFacts
<1> HIDE DEF r
<1>4. DOMAIN dirs' = {1} /\ dirs'[1] = [dir |-> r, depth |-> 0] /\ dirs'[1] \in Item
  BY <1>2, <1>3 DEF Item
<1>5. ListTyped'
  <2>1. dirs' \in Seq(Item)  BY <1>2, <1>3 DEF Item
  <2> QED  BY <1>2, <2>1 DEF ListInv, ListTyped
<1>6. Sits'
  <2>0. dirs'[1].dir = r  BY <1>4
  <2>1. \A n \in DOMAIN dirs' : Reached(dirs'[n].dir)
    <3> SUFFICES ASSUME NEW n \in DOMAIN dirs' PROVE Reached(dirs'[n].dir)  OBVIOUS
    <3>1. n = 1  BY <1>4
    <3> QED  BY <1>3, <2>0, <3>1
  <2> QED  BY <2>1 DEF ListInv, Sits, Met, Reached
<1>7. Seen'  BY DEF ListInv, Seen, Listings!Here
<1>8. Searching'
  <2> SUFFICES ASSUME NEW g, NEW d, Wanted(g, d)' PROVE Pursued(g, d)'
    BY DEF Searching
  <2>1. Wanted(g, d) /\ Pursued(g, d)  BY WantedStays DEF ListInv, Searching
  <2>2. CASE d = r
    <3>1. OnWay(dirs'[1], g)
      <4>1. Listings!IsPrefix(r, g) /\ Len(g) - Len(r) - 1 \in 0 .. MaxDepth /\ g \in always
        BY <2>1, <2>2 DEF Wanted, Listings!Within
      <4>2. g \in Paths
        BY <4>1, PlaceFacts DEF ListInv, Seen, Listings!Here
      <4>3. Len(g) \in Nat /\ Len(r) \in Nat  BY <1>3, <4>2 DEF Paths, Listings!Paths
      <4>4. MaxDepth \in Nat  BY QueriesAssumption DEF Listings!FilesAssumption
      <4> QED  BY <1>4, <4>1, <4>3, <4>4 DEF OnWay
    <3> QED  BY <1>4, <3>1 DEF Pursued
  <2>3. CASE d # r /\ d \in roots  BY <1>2, <2>3 DEF Pursued
  <2>4. CASE d \notin roots  BY <2>1, <2>4 DEF Pursued, OnWay
  <2> QED  BY <2>2, <2>3, <2>4
<1>9. Concluded'  BY DEF ListInv, Concluded
<1>10. Listings!ListedMayBeOpened'  BY DEF ListInv, Listings!ListedMayBeOpened
<1> QED  BY <1>5, <1>6, <1>7, <1>8, <1>9, <1>10 DEF ListInv

LEMMA LookAtInv == ASSUME ListInv, Listings!LookAt PROVE ListInv'
<1> USE DEF Listings!LookAt, Listings!answers
<1> DEFINE f == CHOOSE f \in files : TRUE
<1>1. f \in files  OBVIOUS
<1>2. /\ files' = files \ {f}
      /\ discovered' = IF Listings!Exists(f) THEN discovered \cup {f} ELSE discovered
  OBVIOUS
<1> HIDE DEF f
<1>3. ListTyped'  BY DEF ListInv, ListTyped
<1>4. Sits'  BY <1>1, <1>2 DEF ListInv, Sits, Met, Reached
<1>5. Seen'
  <2>1. \A p : Listings!Exists(p) => Listings!Canonical[p] \in Listings!Here
    BY DEF Listings!Exists, Listings!Here
  <2> QED  BY <1>2, <2>1 DEF ListInv, Seen, Listings!Here
<1>6. Searching'
  <2> SUFFICES ASSUME NEW g, NEW d, Wanted(g, d)' PROVE Pursued(g, d)'
    BY DEF Searching
  <2>1. Wanted(g, d) /\ Pursued(g, d)  BY WantedStays DEF ListInv, Searching
  <2>2. ASSUME g = f PROVE g \in discovered'
    <3>1. g \in Files /\ disk[g] # NoFile /\ g \notin DOMAIN Links
      BY <2>1 DEF ListInv, Seen, Listings!Here, Wanted
    <3>2. Listings!Canonical[g] = g  BY <3>1, PlaceIsCanonical DEF Places
    <3> QED  BY <1>2, <2>2, <3>1, <3>2 DEF Listings!Exists
  <2> QED  BY <1>2, <2>1, <2>2 DEF Pursued, OnWay
<1>7. Concluded'  BY DEF ListInv, Concluded
<1>8. Listings!ListedMayBeOpened'  BY DEF ListInv, Concluded, Listings!ListedMayBeOpened
<1> QED  BY <1>3, <1>4, <1>5, <1>6, <1>7, <1>8 DEF ListInv

LEMMA AnswerInv == ASSUME ListInv, Listings!Answer PROVE ListInv'
<1> USE DEF Listings!Answer, Listings!search
<1>1. ListTyped'  BY DEF ListInv, ListTyped
<1>2. Sits'  BY DEF ListInv, Sits, Met, Reached
<1>3. Seen'  BY DEF ListInv, Seen, Listings!Here
<1>4. Searching'
  <2> SUFFICES ASSUME NEW g, NEW d, Wanted(g, d)' PROVE Pursued(g, d)'
    BY DEF Searching
  <2>1. Pursued(g, d)  BY WantedStays DEF ListInv, Searching
  <2> QED  BY <2>1 DEF Pursued, OnWay
<1>5. Concluded'  BY DEF ListInv, Concluded, Listings!Merged, Listings!ByPath
<1>6. Listings!ListedMayBeOpened'  BY DEF ListInv, Listings!ListedMayBeOpened
<1> QED  BY <1>1, <1>2, <1>3, <1>4, <1>5, <1>6 DEF ListInv

\* What was discovered passes the check, if it is a session and has no name the check dislikes.
LEMMA OpenInv == ASSUME ListInv, NEW p \in DOMAIN listing, Listings!Open(p) PROVE ListInv'
<1> USE DEF Listings!Open, Listings!search
<1>1. ListTyped'  BY DEF ListInv, ListTyped
<1>2. Sits'  BY DEF ListInv, Sits, Met, Reached
<1>3. Seen'  BY DEF ListInv, Seen, Listings!Here
<1>4. Searching'
  <2> SUFFICES ASSUME NEW g, NEW d, Wanted(g, d)' PROVE Pursued(g, d)'
    BY DEF Searching
  <2>1. Pursued(g, d)  BY WantedStays DEF ListInv, Searching
  <2> QED  BY <2>1 DEF Pursued, OnWay
<1>5. Concluded'  BY DEF ListInv, Concluded, Listings!Merged, Listings!ByPath
<1>6. Listings!ListedMayBeOpened'
  <2> SUFFICES ASSUME p \in discovered, disk[Listings!Canonical[p]] = "session",
                      \A i \in DOMAIN p : p[i] \notin DangerousNames
               PROVE  Listings!AccessAllowed(p)
    BY DEF Listings!ListedMayBeOpened
  <2>1. Met(p)  BY DEF ListInv, Sits
  <2>2. Listings!PathAllowed(p)  BY <2>1 DEF Met, Reached, Listings!PathAllowed
  <2>3. NoFile # "session"  BY QueriesAssumption DEF Listings!FilesAssumption
  <2>4. Listings!Exists(p) /\ Listings!HasHeader(p)
    BY <2>1, <2>3 DEF Met, Listings!Exists, Listings!HasHeader
  <2> QED  BY <2>2, <2>4 DEF Listings!AccessAllowed
<1> QED  BY <1>1, <1>2, <1>3, <1>4, <1>5, <1>6 DEF ListInv

\* The last of a sequence gives way to others.
Replaced(s, q) == SubSeq(s, 1, Len(s) - 1) \o q
Replaces(t, s, q) ==
  /\ \A n \in DOMAIN t : (\E m \in DOMAIN s : t[n] = s[m]) \/ (\E m \in DOMAIN q : t[n] = q[m])
  /\ \A m \in DOMAIN s : m # Len(s) => \E n \in DOMAIN t : t[n] = s[m]
  /\ \A m \in DOMAIN q : \E n \in DOMAIN t : t[n] = q[m]

LEMMA LastReplaced ==
  ASSUME NEW S, NEW s \in Seq(S), s # <<>>, NEW q \in Seq(S)
  PROVE  Replaced(s, q) \in Seq(S) /\ Replaces(Replaced(s, q), s, q)
<1> DEFINE t == Replaced(s, q)  k == Len(s) - 1  h == SubSeq(s, 1, k)
<1>1. k \in Nat /\ Len(s) = k + 1 /\ DOMAIN s = 1 .. k + 1  OBVIOUS
<1>2. h \in Seq(S) /\ Len(h) = k /\ \A i \in 1 .. k : h[i] = s[i]
  <2>1. k \in 0 .. Len(s) /\ 0 \in 0 .. k  BY <1>1
  <2>2. h \in Seq(S) /\ Len(h) = k /\ Agrees(h, s)  BY <2>1, CutTwice
  <2> QED  BY <2>2 DEF Agrees
<1>3. Len(q) \in Nat /\ DOMAIN q = 1 .. Len(q)  OBVIOUS
<1>4. t = h \o q  BY DEF Replaced
<1> HIDE DEF k, h, t
<1>5. /\ t \in Seq(S) /\ Len(t) = k + Len(q) /\ DOMAIN t = 1 .. k + Len(q)
      /\ \A i \in 1 .. k + Len(q) : t[i] = IF i <= k THEN h[i] ELSE q[i - k]
  <2>1. /\ t \in Seq(S) /\ Len(t) = Len(h) + Len(q)
        /\ \A i \in 1 .. Len(h) + Len(q) : t[i] = IF i <= Len(h) THEN h[i] ELSE q[i - Len(h)]
    BY <1>2, <1>4, ConcatProperties
  <2> QED  BY <1>2, <2>1
<1>6. ASSUME NEW n \in DOMAIN t
      PROVE  (\E m \in DOMAIN s : t[n] = s[m]) \/ (\E m \in DOMAIN q : t[n] = q[m])
  <2>1. CASE n <= k
    <3>1. n \in 1 .. k /\ n \in DOMAIN s  BY <1>1, <1>3, <1>5, <2>1
    <3> QED  BY <1>2, <1>5, <2>1, <3>1
  <2>2. CASE ~(n <= k)
    <3>1. n - k \in DOMAIN q  BY <1>1, <1>3, <1>5, <2>2
    <3> QED  BY <1>5, <2>2, <3>1
  <2> QED  BY <2>1, <2>2
<1>7. ASSUME NEW m \in DOMAIN s, m # Len(s) PROVE \E n \in DOMAIN t : t[n] = s[m]
  <2>1. m \in 1 .. k /\ m \in DOMAIN t  BY <1>1, <1>3, <1>5, <1>7
  <2> QED  BY <1>2, <1>5, <2>1
<1>8. ASSUME NEW m \in DOMAIN q PROVE \E n \in DOMAIN t : t[n] = q[m]
  <2> DEFINE n == m + k
  <2>1. n \in 1 .. k + Len(q) /\ n \in DOMAIN t /\ ~(n <= k) /\ n - k = m  BY <1>1, <1>3, <1>5
  <2> HIDE DEF n
  <2>2. t[n] = q[n - k]  BY <1>5, <2>1
  <2> QED  BY <2>1, <2>2
<1> QED  BY <1>5, <1>6, <1>7, <1>8 DEF Replaces, t

\* A file on the way of the directory that is read is in it, or below one of its directories.
LEMMA OnWayFacts ==
  ASSUME ListInv, phase # "idle", NEW n \in DOMAIN dirs, NEW g \in always, OnWay(dirs[n], g)
  PROVE  /\ dirs[n].dir \in Paths /\ dirs[n].dir \in Dirs \ DOMAIN Links /\ g \in Files
         /\ Listings!Canonical[dirs[n].dir] = dirs[n].dir
<1>1. dirs[n] \in Item  BY DEF ListInv, ListTyped
<1>2. dirs[n].dir \in Paths  BY <1>1 DEF Item
<1>3. g \in Files  BY DEF ListInv, Seen, Listings!Here
<1>4. dirs[n].dir \in Dirs \ DOMAIN Links  BY <1>2, <1>3, WayDown DEF OnWay
<1> QED  BY <1>2, <1>3, <1>4, PlaceIsCanonical DEF Places

LEMMA StopSearchingInv == ASSUME ListInv, Listings!StopSearching PROVE ListInv'
<1> USE DEF Listings!StopSearching, Listings!answers
<1>1. ListTyped'
  <2>1. dirs' \in Seq(Item)  OBVIOUS
  <2> QED  BY <2>1 DEF ListInv, ListTyped
<1>2. Sits'
  <2>1. DOMAIN dirs' = {}  OBVIOUS
  <2> QED  BY <2>1 DEF ListInv, Sits, Met, Reached
<1>3. Seen'  BY DEF ListInv, Seen, Listings!Here
<1>4. Searching'
  <2> SUFFICES ASSUME NEW g, NEW d, Wanted(g, d)' PROVE Pursued(g, d)'
    BY DEF Searching
  <2>1. Wanted(g, d) /\ Pursued(g, d)  BY WantedStays DEF ListInv, Searching
  <2>2. ASSUME NEW n \in DOMAIN dirs, OnWay(dirs[n], g)
        PROVE  \E c \in cut' : Listings!IsPrefix(c, g)
    <3>1. Listings!Canonical[dirs[n].dir] = dirs[n].dir  BY <2>1, <2>2, OnWayFacts DEF Wanted
    <3>2. Listings!Canonical[dirs[n].dir] \in cut'  OBVIOUS
    <3> QED  BY <2>2, <3>1, <3>2 DEF OnWay
  <2> QED  BY <2>1, <2>2 DEF Pursued
<1>5. Concluded'  BY DEF ListInv, Concluded
<1>6. Listings!ListedMayBeOpened'  BY DEF ListInv, Listings!ListedMayBeOpened
<1> QED  BY <1>1, <1>2, <1>3, <1>4, <1>5, <1>6 DEF ListInv

\* The two outcomes of reading a directory.
Unread ==
  LET item == Listings!Last(dirs) IN
  /\ dirs' = Listings!Front(dirs) /\ UNCHANGED files
  /\ cut' = cut \cup {Listings!Canonical[item.dir]}
ItemBelow == IF Listings!Descends(Listings!Last(dirs).depth)
             THEN Listings!Members(Listings!Last(dirs).dir, Dirs) ELSE {}
ItemsOf(item, below) ==
  {[dir |-> Listings!Named(item.dir, d), depth |-> item.depth + 1] : d \in below}
FilesOf(item) ==
  {Listings!Named(item.dir, f) : f \in {f \in Listings!Members(item.dir, Files) :
                                          disk[f] # NoFile /\ Listings!IsSessionName(f)}}
Read ==
  LET item == Listings!Last(dirs) IN
  /\ dirs' = Listings!Front(dirs) \o Listings!SetToSeq(ItemsOf(item, ItemBelow))
  /\ files' = files \cup FilesOf(item) /\ UNCHANGED cut

LEMMA ReadDirIs == Listings!ReadDir => Read \/ Unread
BY DEF Listings!ReadDir, Read, Unread, ItemsOf, FilesOf, ItemBelow

LEMMA LastItem ==
  ASSUME ListInv, dirs # <<>>
  PROVE  /\ Len(dirs) \in DOMAIN dirs /\ Listings!Last(dirs) = dirs[Len(dirs)]
         /\ Listings!Last(dirs) \in Item /\ Reached(Listings!Last(dirs).dir)
<1>1. dirs \in Seq(Item)  BY DEF ListInv, ListTyped
<1>2. Len(dirs) \in DOMAIN dirs /\ dirs[Len(dirs)] \in Item  BY <1>1
<1> QED  BY <1>2 DEF ListInv, Sits, Listings!Last

LEMMA ItemsFacts ==
  ASSUME NEW item \in Item, Reached(item.dir), NEW below \in SUBSET Listings!Members(item.dir, Dirs)
  PROVE  /\ ItemsOf(item, below) \subseteq Item /\ IsFiniteSet(ItemsOf(item, below))
         /\ \A x \in ItemsOf(item, below) : Reached(x.dir)
<1> DEFINE It(d) == [dir |-> Listings!Named(item.dir, d), depth |-> item.depth + 1]
           items == ItemsOf(item, below)
<1>1. item.dir \in Paths /\ item.depth + 1 \in Nat  BY DEF Item
<1>2. ASSUME NEW d \in below PROVE It(d) \in Item /\ Reached(It(d).dir)
  <2>1. Listings!Named(item.dir, d) \in Paths /\ Reached(Listings!Named(item.dir, d))
    BY <1>1, MemberFacts
  <2>2. It(d).dir = Listings!Named(item.dir, d)  OBVIOUS
  <2> QED  BY <1>1, <2>1, <2>2 DEF Item
<1>3. items = {It(d) : d \in below}  BY DEF ItemsOf
<1> HIDE DEF It, items
<1>4. IsFiniteSet(items)
  <2>1. IsFiniteSet(Dirs)  BY QueriesAssumption, SameFinite DEF Listings!FilesAssumption
  <2>2. below \subseteq Dirs  BY DEF Listings!Members
  <2>3. IsFiniteSet(below)  BY <2>1, <2>2, FS_Subset
  <2> DEFINE f == [d \in below |-> It(d)]
  <2>4. f \in Surjection(below, items)  BY <1>3 DEF Surjection
  <2> HIDE DEF f
  <2> QED  BY <2>3, <2>4, FS_Surjection
<1>5. \A x \in items : x \in Item /\ Reached(x.dir)
  <2> SUFFICES ASSUME NEW x \in items PROVE x \in Item /\ Reached(x.dir)  OBVIOUS
  <2>1. PICK d \in below : x = It(d)  BY <1>3
  <2> QED  BY <1>2, <2>1
<1> QED  BY <1>4, <1>5 DEF items

\* What is on the stack after a directory was read.
LEMMA ReadStack ==
  ASSUME ListInv, dirs # <<>>, Read
  PROVE  LET items == ItemsOf(Listings!Last(dirs), ItemBelow) IN
         /\ dirs' \in Seq(Item) /\ \A n \in DOMAIN dirs' : Reached(dirs'[n].dir)
         /\ \A m \in DOMAIN dirs : m # Len(dirs) => \E n \in DOMAIN dirs' : dirs'[n] = dirs[m]
         /\ \A x \in items : \E n \in DOMAIN dirs' : dirs'[n] = x
<1> DEFINE items == ItemsOf(Listings!Last(dirs), ItemBelow)  q == Listings!SetToSeq(items)
<1>1. Listings!Last(dirs) \in Item /\ Reached(Listings!Last(dirs).dir)  BY LastItem
<1>2. ItemBelow \in SUBSET Listings!Members(Listings!Last(dirs).dir, Dirs)  BY DEF ItemBelow
<1>3. items \subseteq Item /\ IsFiniteSet(items) /\ \A x \in items : Reached(x.dir)
  BY <1>1, <1>2, ItemsFacts
<1>4. dirs' = SubSeq(dirs, 1, Len(dirs) - 1) \o q  BY DEF Read, Listings!Front
<1> HIDE DEF items
<1>5. q \in Seq(items) /\ \A x \in items : \E i \in DOMAIN q : q[i] = x  BY <1>3, SetToSeqIs
<1> HIDE DEF q
<1>6. q \in Seq(Item) /\ \A i \in DOMAIN q : q[i] \in items
  <2>1. q \in Seq(Item)  BY <1>3, <1>5, SeqMonotonic
  <2> QED  BY <1>5, <2>1
<1>7. dirs \in Seq(Item) /\ \A m \in DOMAIN dirs : Reached(dirs[m].dir)
  BY DEF ListInv, ListTyped, Sits
<1>8. /\ dirs' \in Seq(Item)
      /\ \A n \in DOMAIN dirs' : \/ \E m \in DOMAIN dirs : dirs'[n] = dirs[m]
                                 \/ \E m \in DOMAIN q : dirs'[n] = q[m]
      /\ \A m \in DOMAIN dirs : m # Len(dirs) => \E n \in DOMAIN dirs' : dirs'[n] = dirs[m]
      /\ \A m \in DOMAIN q : \E n \in DOMAIN dirs' : dirs'[n] = q[m]
  <2>1. dirs' = Replaced(dirs, q)  BY <1>4 DEF Replaced
  <2>2. dirs' \in Seq(Item) /\ Replaces(dirs', dirs, q)  BY <1>6, <1>7, <2>1, LastReplaced
  <2> QED  BY <2>2 DEF Replaces
<1>9. ASSUME NEW n \in DOMAIN dirs' PROVE Reached(dirs'[n].dir)
  <2>1. CASE \E m \in DOMAIN dirs : dirs'[n] = dirs[m]
    <3>1. PICK m \in DOMAIN dirs : dirs'[n] = dirs[m]  BY <2>1
    <3>2. dirs'[n].dir = dirs[m].dir  BY <3>1
    <3> QED  BY <1>7, <3>2
  <2>2. CASE \E m \in DOMAIN q : dirs'[n] = q[m]
    <3>1. PICK m \in DOMAIN q : dirs'[n] = q[m]  BY <2>2
    <3>2. dirs'[n].dir = q[m].dir /\ q[m] \in items  BY <1>6, <3>1
    <3> QED  BY <1>3, <3>2
  <2> QED  BY <1>8, <2>1, <2>2
<1>10. \A x \in items : \E n \in DOMAIN dirs' : dirs'[n] = x
  <2> SUFFICES ASSUME NEW x \in items PROVE \E n \in DOMAIN dirs' : dirs'[n] = x  OBVIOUS
  <2>1. PICK i \in DOMAIN q : q[i] = x  BY <1>5
  <2> QED  BY <1>8, <2>1
<1> QED  BY <1>8, <1>9, <1>10 DEF items

\* What is found in a directory may be met.
LEMMA FoundMet ==
  ASSUME NEW item \in Item, Reached(item.dir), NEW p \in FilesOf(item)
  PROVE  Met(p)
<1>1. PICK f \in Listings!Members(item.dir, Files) :
        Listings!IsSessionName(f) /\ p = Listings!Named(item.dir, f)
  BY DEF FilesOf
<1>2. item.dir \in Paths  BY DEF Item
<1>3. /\ f \in Files /\ p \in Paths /\ p # <<>> /\ Listings!Canonical[p] = f
      /\ Listings!Last(p) = Listings!Last(f) /\ Reached(p)
  BY <1>1, <1>2, MemberFacts
<1>4. Listings!MayBeSession(p)
  BY <1>1, <1>3 DEF Listings!MayBeSession, Listings!IsSessionName
<1> QED  BY <1>3, <1>4 DEF Met

\* Reading the directory on the way to a file leads on to it.
LEMMA ReadLeadsOn ==
  ASSUME ListInv, phase = "listing", dirs # <<>>, Read, NEW g, NEW d, Wanted(g, d),
         OnWay(Listings!Last(dirs), g)
  PROVE  g \in files' \/ \E n \in DOMAIN dirs' : OnWay(dirs'[n], g)
<1> DEFINE item == Listings!Last(dirs)  x == item.dir
<1>1. item = dirs[Len(dirs)] /\ Len(dirs) \in DOMAIN dirs /\ item \in Item  BY LastItem
<1>2. g \in always /\ g \notin DOMAIN Links /\ Listings!IsSessionName(g)  BY DEF Wanted
<1>3. x \in Paths /\ g \in Files /\ Listings!Canonical[x] = x
  BY <1>1, <1>2, OnWayFacts
<1>4. disk[g] # NoFile  BY <1>2 DEF ListInv, Seen, Listings!Here
<1>5. g \in Paths /\ g # <<>>  BY <1>3, PlaceFacts
<1>6. Len(g) \in Nat \ {0} /\ Len(x) \in Nat /\ item.depth \in Nat /\ MaxDepth \in Nat
  BY <1>1, <1>3, <1>5, PathEnds, QueriesAssumption
     DEF Listings!FilesAssumption, Item, Paths, Listings!Paths
<1>7. Listings!IsPrefix(x, g) /\ Len(x) < Len(g) /\ Len(g) - Len(x) - 1 + item.depth <= MaxDepth
  BY DEF OnWay
<1>8. CASE Len(g) = Len(x) + 1
  <2>1. Listings!Front(g) = x  BY <1>3, <1>7, <1>8, WayDown
  <2>2. g \in Listings!Members(x, Files)  BY <1>2, <1>3, <1>6, <2>1 DEF Listings!Members
  <2>3. Listings!Named(x, g) = g  BY <1>3, <2>2, MemberFacts
  <2>4. g \in FilesOf(item)  BY <1>2, <1>4, <2>2, <2>3 DEF FilesOf
  <2> QED  BY <2>4 DEF Read
<1>9. CASE Len(g) # Len(x) + 1
  <2>1. PICK h \in Dirs \ DOMAIN Links :
          /\ Listings!Front(h) = x /\ h # <<>> /\ Len(h) = Len(x) + 1
          /\ Listings!IsPrefix(h, g)
    BY <1>3, <1>7, <1>9, WayDown
  <2>2. Listings!Descends(item.depth)  BY <1>6, <1>7, <1>9 DEF Listings!Descends
  <2>3. h \in ItemBelow
    <3>1. h \in Listings!Members(x, Dirs)  BY <1>3, <1>6, <2>1 DEF Listings!Members
    <3> QED  BY <2>2, <3>1 DEF ItemBelow
  <2>4. Listings!Named(x, h) = h
    <3>1. h \in Listings!Members(x, Dirs)  BY <1>3, <1>6, <2>1 DEF Listings!Members
    <3> QED  BY <1>3, <3>1, MemberFacts
  <2> DEFINE next == [dir |-> h, depth |-> item.depth + 1]
  <2>5. next \in ItemsOf(item, ItemBelow)  BY <2>3, <2>4 DEF ItemsOf
  <2>6. OnWay(next, g)
    <3>1. next.dir = h /\ next.depth = item.depth + 1  OBVIOUS
    <3>2. Len(h) < Len(g) /\ Len(g) - Len(h) - 1 + (item.depth + 1) <= MaxDepth
      BY <1>6, <1>7, <1>9, <2>1
    <3> QED  BY <2>1, <3>1, <3>2 DEF OnWay
  <2> HIDE DEF next
  <2>7. PICK n \in DOMAIN dirs' : dirs'[n] = next  BY <2>5, ReadStack
  <2> QED  BY <2>6, <2>7
<1> QED  BY <1>8, <1>9

LEMMA ReadInv ==
  ASSUME ListInv, Listings!ReadDir, Read
  PROVE  ListInv'
<1>0. /\ phase = "listing" /\ dirs # <<>> /\ cut' = cut
      /\ UNCHANGED <<disk, phase, roots, discovered, looking, found, listing, asked, always, ever>>
  BY DEF Listings!ReadDir, Read, Listings!answers
<1>1. /\ dirs' \in Seq(Item) /\ \A n \in DOMAIN dirs' : Reached(dirs'[n].dir)
      /\ \A m \in DOMAIN dirs : m # Len(dirs) => \E n \in DOMAIN dirs' : dirs'[n] = dirs[m]
  BY <1>0, ReadStack
<1>2. files' = files \cup FilesOf(Listings!Last(dirs))  BY DEF Read
<1>3. /\ Listings!Last(dirs) \in Item /\ Reached(Listings!Last(dirs).dir)
      /\ Listings!Last(dirs) = dirs[Len(dirs)]
  BY <1>0, LastItem
<1>4. ListTyped'  BY <1>0, <1>1 DEF ListInv, ListTyped
<1>5. Sits'
  <2>1. \A p \in files' \cup discovered' : Met(p)  BY <1>0, <1>2, <1>3, FoundMet DEF ListInv, Sits
  <2> QED  BY <1>1, <2>1 DEF Sits, Met, Reached
<1>6. Seen'  BY <1>0 DEF ListInv, Seen, Listings!Here
<1>7. Searching'
  <2> SUFFICES ASSUME NEW g, NEW d, Wanted(g, d)' PROVE Pursued(g, d)'
    BY DEF Searching
  <2>1. Wanted(g, d) /\ Pursued(g, d)  BY <1>0, WantedStays DEF ListInv, Searching
  <2>2. ASSUME NEW m \in DOMAIN dirs, OnWay(dirs[m], g)
        PROVE  g \in files' \/ \E n \in DOMAIN dirs' : OnWay(dirs'[n], g)
    <3>1. CASE m = Len(dirs)  BY <1>0, <1>3, <2>1, <2>2, <3>1, ReadLeadsOn
    <3>2. CASE m # Len(dirs)
      <4>1. PICK n \in DOMAIN dirs' : dirs'[n] = dirs[m]  BY <1>1, <3>2
      <4> QED  BY <2>2, <4>1
    <3> QED  BY <3>1, <3>2
  <2> QED  BY <1>0, <1>2, <2>1, <2>2 DEF Pursued, OnWay
<1>8. Concluded'  BY <1>0 DEF ListInv, Concluded
<1>9. Listings!ListedMayBeOpened'  BY <1>0 DEF ListInv, Listings!ListedMayBeOpened
<1> QED  BY <1>4, <1>5, <1>6, <1>7, <1>8, <1>9 DEF ListInv

LEMMA UnreadInv ==
  ASSUME ListInv, Listings!ReadDir, Unread
  PROVE  ListInv'
<1>0. /\ phase = "listing" /\ dirs # <<>> /\ files' = files
      /\ UNCHANGED <<disk, phase, roots, discovered, looking, found, listing, asked, always, ever>>
  BY DEF Listings!ReadDir, Unread, Listings!answers
<1>1. dirs \in Seq(Item) /\ \A m \in DOMAIN dirs : Reached(dirs[m].dir)
  BY DEF ListInv, ListTyped, Sits
<1>2. dirs' = SubSeq(dirs, 1, Len(dirs) - 1)  BY DEF Unread, Listings!Front
<1>3. Listings!Last(dirs) = dirs[Len(dirs)] /\ Len(dirs) \in DOMAIN dirs  BY <1>0, LastItem
<1>4. dirs' \in Seq(Item) /\ \A n \in DOMAIN dirs' : n \in DOMAIN dirs /\ dirs'[n] = dirs[n]
  <2>1. Len(dirs) - 1 \in 0 .. Len(dirs) /\ 0 \in 0 .. Len(dirs) - 1  BY <1>0, <1>1
  <2>2. dirs' \in Seq(Item) /\ Len(dirs') = Len(dirs) - 1 /\ Agrees(dirs', dirs)
    BY <1>1, <1>2, <2>1, CutTwice
  <2> QED  BY <1>1, <2>1, <2>2 DEF Agrees
<1>5. \A m \in DOMAIN dirs : m # Len(dirs) => m \in DOMAIN dirs' /\ dirs'[m] = dirs[m]
  <2>1. Len(dirs) - 1 \in 0 .. Len(dirs) /\ 0 \in 0 .. Len(dirs) - 1  BY <1>0, <1>1
  <2>2. dirs' \in Seq(Item) /\ Len(dirs') = Len(dirs) - 1 /\ Agrees(dirs', dirs)
    BY <1>1, <1>2, <2>1, CutTwice
  <2> QED  BY <1>1, <2>1, <2>2 DEF Agrees
<1>6. ListTyped'  BY <1>0, <1>4 DEF ListInv, ListTyped
<1>7. Sits'
  <2>1. \A n \in DOMAIN dirs' : Reached(dirs'[n].dir)
    <3> SUFFICES ASSUME NEW n \in DOMAIN dirs' PROVE Reached(dirs'[n].dir)  OBVIOUS
    <3>1. n \in DOMAIN dirs /\ dirs'[n].dir = dirs[n].dir  BY <1>4
    <3> QED  BY <1>1, <3>1
  <2> QED  BY <1>0, <2>1 DEF ListInv, Sits, Met, Reached
<1>8. Seen'  BY <1>0 DEF ListInv, Seen, Listings!Here
<1>9. Searching'
  <2> SUFFICES ASSUME NEW g, NEW d, Wanted(g, d)' PROVE Pursued(g, d)'
    BY DEF Searching
  <2>1. Wanted(g, d) /\ Pursued(g, d)  BY <1>0, WantedStays DEF ListInv, Searching
  <2>2. ASSUME NEW m \in DOMAIN dirs, OnWay(dirs[m], g)
        PROVE  \/ \E c \in cut' : Listings!IsPrefix(c, g)
               \/ \E n \in DOMAIN dirs' : OnWay(dirs'[n], g)
    <3>1. CASE m = Len(dirs)
      <4>1. Listings!Canonical[dirs[m].dir] = dirs[m].dir
        BY <1>0, <2>1, <2>2, OnWayFacts DEF Wanted
      <4>2. dirs[m].dir \in cut'  BY <1>3, <3>1, <4>1 DEF Unread
      <4> QED  BY <2>2, <4>2 DEF OnWay
    <3>2. CASE m # Len(dirs)
      <4>1. m \in DOMAIN dirs' /\ dirs'[m] = dirs[m]  BY <1>5, <3>2
      <4> QED  BY <2>2, <4>1
    <3> QED  BY <3>1, <3>2
  <2>3. cut \subseteq cut'  BY DEF Unread
  <2> QED  BY <1>0, <2>1, <2>2, <2>3 DEF Pursued, OnWay
<1>10. Concluded'  BY <1>0 DEF ListInv, Concluded
<1>11. Listings!ListedMayBeOpened'  BY <1>0 DEF ListInv, Listings!ListedMayBeOpened
<1> QED  BY <1>6, <1>7, <1>8, <1>9, <1>10, <1>11 DEF ListInv

LEMMA ListNext == ListInv /\ [Listings!Next]_Listings!vars => ListInv'
<1> SUFFICES ASSUME ListInv, [Listings!Next]_Listings!vars PROVE ListInv'  OBVIOUS
<1>1. CASE UNCHANGED Listings!vars
  <2> USE <1>1 DEF Listings!vars, Listings!search, Listings!answers
  <2>1. ListTyped' /\ Sits'  BY DEF ListInv, ListTyped, Sits, Met, Reached
  <2>2. Seen'  BY DEF ListInv, Seen, Listings!Here
  <2>3. Searching'
    <3> SUFFICES ASSUME phase # "idle", NEW g, NEW d, Wanted(g, d)' PROVE Pursued(g, d)'
      BY DEF Searching
    <3>1. Pursued(g, d)  BY WantedStays DEF ListInv, Searching
    <3> QED  BY <3>1 DEF Pursued, OnWay
  <2>4. Concluded'  BY DEF ListInv, Concluded, Listings!Merged, Listings!ByPath
  <2>5. Listings!ListedMayBeOpened'  BY DEF ListInv, Listings!ListedMayBeOpened
  <2> QED  BY <2>1, <2>2, <2>3, <2>4, <2>5 DEF ListInv
<1>2. CASE Listings!ReadDir  BY <1>2, ReadDirIs, ReadInv, UnreadInv
<1> QED
  BY <1>1, <1>2, ChangeInv, ListListInv, LookUpInv, EnterRootInv, StopSearchingInv, LookAtInv,
     AnswerInv, OpenInv
  DEF Listings!Next

LEMMA EntryTells ==
  ASSUME NEW S, NEW i, NEW l, l = [id |-> i, exists |-> i \in S], l.exists
  PROVE  i \in S
OBVIOUS

\* What was pursued until the end is on the list, and what is on it was seen.
LEMMA ListInvIsEnough == ListInv => ListingTrue
<1> SUFFICES ASSUME ListInv PROVE ListingTrue  OBVIOUS
<1>1. Listings!NothingMissed
  <2> SUFFICES ASSUME phase = "listed", NEW f \in always \ DOMAIN Links, Listings!IsSessionName(f),
                      NEW d \in Listings!AllowedDirectories, Listings!Within(f, d)
               PROVE  f \in DOMAIN listing \/ \E c \in cut : Listings!IsPrefix(c, f)
    BY DEF Listings!NothingMissed
  <2>1. Pursued(f, d)  BY DEF ListInv, Searching, Wanted
  <2> QED  BY <2>1 DEF ListInv, Concluded, Pursued
<1>2. Listings!ListingTruthful
  <2> SUFFICES ASSUME phase = "listed" PROVE
        /\ \A p \in DOMAIN listing : listing[p].exists => Listings!Canonical[p] \in ever
        /\ \A i \in Stored :
             (\A j \in Stored : StoredFile[j] = StoredFile[i] => j = i)
               => \E p \in DOMAIN listing : listing[p].id = i
    BY DEF Listings!ListingTruthful
  <2>1. listing = [p \in discovered \cup {StoredFile[i] : i \in Stored} |-> Listings!Merged(p)]
    BY DEF ListInv, Concluded
  <2>2. ASSUME NEW p \in DOMAIN listing, listing[p].exists
        PROVE  Listings!Canonical[p] \in ever
    <3>1. listing[p] = Listings!Merged(p)  BY <2>1
    <3>2. CASE \E i \in Stored : StoredFile[i] = p
      <4> DEFINE i == CHOOSE i \in Stored : StoredFile[i] = p
      <4>1. i \in Stored /\ StoredFile[i] = p  BY <3>2
      <4>2. listing[p] = [id |-> i, exists |-> i \in found]
        BY <3>1, <3>2 DEF Listings!Merged, Listings!ByPath
      <4> HIDE DEF i
      <4>3. i \in found  BY <2>2, <4>2, EntryTells
      <4> QED  BY <4>1, <4>3 DEF ListInv, Seen
    <3>3. CASE ~\E i \in Stored : StoredFile[i] = p
      <4>1. p \in discovered  BY <2>1, <3>3
      <4> QED  BY <4>1 DEF ListInv, Seen
    <3> QED  BY <3>2, <3>3
  <2>3. ASSUME NEW i \in Stored, \A j \in Stored : StoredFile[j] = StoredFile[i] => j = i
        PROVE  \E p \in DOMAIN listing : listing[p].id = i
    <3> DEFINE p == StoredFile[i]  j == CHOOSE j \in Stored : StoredFile[j] = p
    <3>1. j \in Stored /\ StoredFile[j] = p  OBVIOUS
    <3>2. j = i  BY <2>3, <3>1
    <3>3. p \in DOMAIN listing /\ listing[p] = Listings!Merged(p)  BY <2>1
    <3>4. Listings!Merged(p) = [id |-> j, exists |-> j \in found]
      BY DEF Listings!Merged, Listings!ByPath
    <3> HIDE DEF j, p
    <3> QED  BY <3>2, <3>3, <3>4
  <2> QED  BY <2>2, <2>3
<1> QED  BY <1>1, <1>2 DEF ListInv, ListingTrue, Listings!ListingTrue

\* The listing is true: whatever other programs write and remove while it is made, through links
\* and limits and directories that cannot be read.
THEOREM ListingTrueHolds == Listings!Spec => []ListingTrue
<1> QED  BY ListInit, ListNext, ListInvIsEnough, PTL DEF Listings!Spec
-----------------------------------------------------------------------------
(* Sequences *)

\* What holds of the empty sequence, and of a sequence with one more when it holds without, holds.
LEMMA SequenceInduction ==
  ASSUME NEW S, NEW P, <<>> \in P, \A s \in Seq(S), x \in S : s \in P => Append(s, x) \in P
  PROVE  Seq(S) \subseteq P
<1> DEFINE rank == [s \in Seq(S) |-> Len(s)]
<1>1. rank \in [Seq(S) -> Nat]  BY LenProperties
<1>2. ASSUME NEW s \in Seq(S), \A t \in Seq(S) : rank[t] < rank[s] => t \in P PROVE s \in P
  <2>1. CASE s = <<>>  BY <2>1
  <2>2. CASE s # <<>>
    <3>1. PICK t \in Seq(S), x \in S : s = Append(t, x)  BY <2>2, SequenceEmptyOrAppend
    <3>2. rank[t] < rank[s]  BY <3>1, AppendProperties, LenProperties
    <3> QED  BY <1>2, <3>1, <3>2
  <2> QED  BY <2>1, <2>2
<1> DEFINE D == Seq(S)
<1> HIDE DEF rank, D
<1>3. rank \in [D -> Nat] /\ \A s \in D : (\A t \in D : rank[t] < rank[s] => t \in P) => s \in P
  BY <1>1, <1>2 DEF D
<1>4. D \subseteq P  BY <1>3, Induction
<1> QED  BY <1>4 DEF D

LEMMA LastAppended ==
  ASSUME NEW S, NEW s \in Seq(S), NEW x \in S
  PROVE  /\ Append(s, x) \in Seq(S) /\ Append(s, x) # <<>>
         /\ Trees!Front(Append(s, x)) = s /\ Trees!Last(Append(s, x)) = x
<1>1. /\ Append(s, x) \in Seq(S) /\ Len(Append(s, x)) = Len(s) + 1 /\ Len(s) \in Nat
      /\ \A i \in 1 .. Len(s) : Append(s, x)[i] = s[i]
      /\ Append(s, x)[Len(s) + 1] = x /\ Append(s, x) # <<>>
  BY AppendProperties, LenProperties
<1> DEFINE q == Append(s, x)
<1> HIDE DEF q
<1>2. /\ SubSeq(q, 1, Len(s)) \in Seq(S) /\ Len(SubSeq(q, 1, Len(s))) = Len(s)
      /\ \A i \in 1 .. Len(s) : SubSeq(q, 1, Len(s))[i] = s[i]
  <2>1. \A i \in 1 .. Len(s) : q[i] \in S  BY <1>1 DEF q
  <2>2. /\ SubSeq(q, 1, Len(s)) \in Seq(S)
        /\ Len(SubSeq(q, 1, Len(s))) = IF 1 <= Len(s) THEN Len(s) - 1 + 1 ELSE 0
        /\ \A i \in 1 .. Len(s) - 1 + 1 : SubSeq(q, 1, Len(s))[i] = q[1 + i - 1]
    BY <1>1, <2>1, SubSeqProperties
  <2> QED  BY <1>1, <2>2 DEF q
<1>3. SubSeq(q, 1, Len(s)) = s  BY <1>2, SeqEqual
<1>4. Len(q) - 1 = Len(s) /\ Len(q) = Len(s) + 1  BY <1>1 DEF q
<1> QED  BY <1>1, <1>3, <1>4 DEF Trees!Front, Trees!Last, q

LEMMA FrontLast ==
  ASSUME NEW S, NEW s \in Seq(S), s # <<>>
  PROVE  /\ Trees!Front(s) \in Seq(S) /\ Trees!Last(s) \in S
         /\ s = Append(Trees!Front(s), Trees!Last(s))
         /\ Len(Trees!Front(s)) \in Nat /\ Len(s) = Len(Trees!Front(s)) + 1
<1>1. PICK t \in Seq(S), x \in S : s = Append(t, x)  BY SequenceEmptyOrAppend
<1>2. Trees!Front(s) = t /\ Trees!Last(s) = x  BY <1>1, LastAppended, Zenon
<1>3. Len(t) \in Nat /\ Len(s) = Len(t) + 1  BY <1>1, AppendProperties, LenProperties
<1> QED  BY <1>1, <1>2, <1>3

\* Sequences of sequences, one after another.
LEMMA FlatFunction ==
  ASSUME NEW S, NEW q \in Seq(Seq(S)), q # <<>>
  PROVE  \E f \in [1 .. Len(q) -> Seq(S)] :
           /\ Trees!FlattenSeq(q) = f[Len(q)]
           /\ \A i \in 1 .. Len(q) : f[i] = IF i = 1 THEN q[i] ELSE f[i - 1] \o q[i]
<1> DEFINE D == 1 .. Len(q)
           rank == [i \in D |-> i]
           T == Seq(S)
           G == [p \in D \X [D -> T] |->
                   IF p[1] = 1 THEN q[p[1]] ELSE p[2][p[1] - 1] \o q[p[1]]]
           Eqn(f) == f = [i \in D |-> IF i = 1 THEN q[i] ELSE f[i - 1] \o q[i]]
           F == CHOOSE f : Eqn(f)
<1>0. Len(q) \in Nat \ {0} /\ \A i \in D : q[i] \in T  BY LenProperties, EmptySeq
<1>1. T # {} /\ rank \in [D -> Nat]  BY <1>0, EmptySeq
<1>2. ASSUME NEW i \in D, NEW f \in [D -> T] PROVE G[<<i, f>>] \in T
  <2>1. CASE i = 1  BY <1>0, <2>1
  <2>2. CASE i # 1
    <3>1. i - 1 \in D  BY <1>0, <2>2
    <3>2. f[i - 1] \in T /\ q[i] \in T  BY <1>0, <3>1
    <3>3. f[i - 1] \o q[i] \in T  BY <3>2, ConcatProperties
    <3> QED  BY <2>2, <3>3
  <2> QED  BY <2>1, <2>2
<1>3. ASSUME NEW i \in D, NEW f \in [D -> T], NEW g \in [D -> T],
             \A j \in D : rank[j] < rank[i] => f[j] = g[j]
      PROVE  G[<<i, f>>] = G[<<i, g>>]
  <2>1. i # 1 => i - 1 \in D /\ f[i - 1] = g[i - 1]  BY <1>0, <1>3
  <2> QED  BY <2>1
<1> HIDE DEF rank, T
<1>4. PICK f : f \in [D -> T] /\ \A i \in D : f[i] = G[<<i, f>>]
  <2> HIDE DEF G, D
  <2>1. IsRule(D, T, rank, G)  BY <1>1, <1>2, <1>3 DEF IsRule
  <2>2. \E f : Follows(D, T, G, f)  BY <2>1, Recursion
  <2> QED  BY <2>2 DEF Follows
<1>5. Eqn(f)  BY <1>4
<1>6. Eqn(F)  BY <1>5
<1>7. Trees!FlattenSeq(q) = F[Len(q)]  BY <1>0 DEF Trees!FlattenSeq
<1> HIDE DEF F
<1>8. \A i \in D : F[i] = IF i = 1 THEN q[i] ELSE F[i - 1] \o q[i]  BY <1>6
<1>9. F \in [D -> T]
  <2> DEFINE P == {i \in D : F[i] \in T}
  <2>1. ASSUME NEW i \in D, \A j \in D : rank[j] < rank[i] => j \in P PROVE i \in P
    <3>1. CASE i = 1  BY <1>0, <1>8, <3>1
    <3>2. CASE i # 1
      <4>1. i - 1 \in D /\ rank[i - 1] < rank[i]  BY <1>0, <3>2 DEF rank
      <4>2. F[i - 1] \in T /\ q[i] \in T  BY <1>0, <2>1, <4>1
      <4>3. F[i - 1] \o q[i] \in T  BY <4>2, ConcatProperties DEF T
      <4> QED  BY <1>8, <3>2, <4>3
    <3> QED  BY <3>1, <3>2
  <2> HIDE DEF P, D
  <2>2. D \subseteq P  BY <1>1, <2>1, Induction
  <2>3. \A i \in D : F[i] \in T  BY <2>2 DEF P
  <2> QED  BY <1>6, <2>3
<1> QED  BY <1>7, <1>8, <1>9 DEF T

LEMMA FlatNone == Trees!FlattenSeq(<<>>) = <<>>
BY DEF Trees!FlattenSeq

LEMMA FlatType ==
  ASSUME NEW S, NEW q \in Seq(Seq(S))
  PROVE  Trees!FlattenSeq(q) \in Seq(S)
<1>1. CASE q = <<>>  BY <1>1, FlatNone, EmptySeq
<1>2. CASE q # <<>>
  <2>1. Len(q) \in 1 .. Len(q)  BY <1>2, EmptySeq
  <2> QED  BY <1>2, <2>1, FlatFunction
<1> QED  BY <1>1, <1>2

LEMMA FlatAppend ==
  ASSUME NEW S, NEW q \in Seq(Seq(S)), NEW p \in Seq(S)
  PROVE  Trees!FlattenSeq(Append(q, p)) = Trees!FlattenSeq(q) \o p
<1> DEFINE r == Append(q, p)
           T == Seq(S)
<1>1. /\ r \in Seq(T) /\ r # <<>> /\ Len(r) = Len(q) + 1 /\ Len(q) \in Nat
      /\ \A i \in 1 .. Len(q) : r[i] = q[i]
      /\ r[Len(q) + 1] = p
  BY AppendProperties, LenProperties
<1> HIDE DEF r, T
<1>2. PICK g \in [1 .. Len(r) -> T] :
        /\ Trees!FlattenSeq(r) = g[Len(r)]
        /\ \A i \in 1 .. Len(r) : g[i] = IF i = 1 THEN r[i] ELSE g[i - 1] \o r[i]
  BY <1>1, FlatFunction DEF T
<1>3. CASE q = <<>>
  <2>1. Len(q) = 0  BY <1>3
  <2>2. Trees!FlattenSeq(r) = p  BY <1>1, <1>2, <2>1
  <2> QED  BY <1>3, <2>2, FlatNone, ConcatEmptySeq DEF r
<1>4. CASE q # <<>>
  <2>1. PICK f \in [1 .. Len(q) -> T] :
          /\ Trees!FlattenSeq(q) = f[Len(q)]
          /\ \A i \in 1 .. Len(q) : f[i] = IF i = 1 THEN q[i] ELSE f[i - 1] \o q[i]
    BY <1>4, FlatFunction DEF T
  <2>2. \A i \in 1 .. Len(q) : f[i] = g[i]
    <3> DEFINE D == 1 .. Len(q)
               rank == [i \in D |-> i]
               P == {i \in D : f[i] = g[i]}
    <3>1. rank \in [D -> Nat]  BY <1>1
    <3>2. ASSUME NEW i \in D, \A j \in D : rank[j] < rank[i] => j \in P PROVE i \in P
      <4>1. i # 1 => i - 1 \in D /\ rank[i - 1] < rank[i]  BY <1>1
      <4>2. i # 1 => f[i - 1] = g[i - 1]  BY <3>2, <4>1
      <4>3. i \in 1 .. Len(r) /\ r[i] = q[i]  BY <1>1
      <4>4. CASE i = 1  BY <1>2, <2>1, <4>3, <4>4
      <4>5. CASE i # 1
        <5>1. f[i] = f[i - 1] \o q[i]  BY <2>1, <4>5
        <5>2. g[i] = g[i - 1] \o r[i]  BY <1>2, <4>3, <4>5
        <5> QED  BY <4>2, <4>3, <4>5, <5>1, <5>2
      <4> QED  BY <4>4, <4>5
    <3> HIDE DEF P, D, rank
    <3>3. D \subseteq P  BY <3>1, <3>2, Induction
    <3> QED  BY <3>3 DEF P, D
  <2>3. Len(q) \in 1 .. Len(q) /\ Len(r) # 1 /\ Len(r) - 1 = Len(q) /\ Len(r) \in 1 .. Len(r)
    BY <1>1, <1>4, EmptySeq
  <2>4. g[Len(r)] = g[Len(q)] \o p  BY <1>1, <1>2, <2>3
  <2> QED  BY <1>2, <2>1, <2>2, <2>3, <2>4 DEF r
<1> QED  BY <1>3, <1>4
-----------------------------------------------------------------------------
(* Trees *)

\* What the loop over a list of nodes leaves on the stack: the solid ones, last first.
Own(x) == IF x \in hollow THEN <<>> ELSE <<x>>

LEMMA SolidIs ==
  /\ Trees!Solid[<<>>] = <<>>
  /\ \A s \in Seq(Nodes), x \in Nodes : Trees!Solid[Append(s, x)] = Own(x) \o Trees!Solid[s]
  /\ \A s \in Seq(Nodes) : Trees!Solid[s] \in Seq(Nodes \ hollow)
<1> DEFINE D == Seq(Nodes)
           T == Seq(Nodes \ hollow)
           rank == [s \in D |-> Len(s)]
           G == [p \in D \X [D -> T] |->
                   IF p[1] = <<>> THEN <<>>
                   ELSE Own(Trees!Last(p[1])) \o p[2][Trees!Front(p[1])]]
           Eqn(f) == f = [s \in D |-> IF s = <<>> THEN <<>>
                                      ELSE Own(Trees!Last(s)) \o f[Trees!Front(s)]]
           F == CHOOSE f : Eqn(f)
<1>0. <<>> \in D /\ <<>> \in T /\ rank \in [D -> Nat]  BY EmptySeq, LenProperties
<1>1. \A s \in D : s # <<>> =>
        Trees!Front(s) \in D /\ rank[Trees!Front(s)] < rank[s] /\ Trees!Last(s) \in Nodes
  <2>1. ASSUME NEW s \in Seq(Nodes), s # <<>>
        PROVE  /\ Trees!Front(s) \in Seq(Nodes) /\ Trees!Last(s) \in Nodes
               /\ Len(Trees!Front(s)) < Len(s)
    BY <2>1, FrontLast
  <2> QED  BY <2>1
<1>2. ASSUME NEW x \in Nodes PROVE Own(x) \in T
  <2>1. CASE x \in hollow  BY <1>0, <2>1 DEF Own
  <2>2. CASE x \notin hollow
    <3>1. x \in Nodes \ hollow  BY <2>2
    <3>2. <<x>> \in T  BY <3>1
    <3> QED  BY <2>2, <3>2 DEF Own
  <2> QED  BY <2>1, <2>2
<1>3. \A s, t \in T : s \o t \in T  BY ConcatProperties
<1> HIDE DEF D, T, rank
<1>4. IsRule(D, T, rank, G)
  <2>1. ASSUME NEW s \in D, NEW f \in [D -> T] PROVE G[<<s, f>>] \in T
    BY <1>0, <1>1, <1>2, <1>3
  <2>2. ASSUME NEW s \in D, NEW f \in [D -> T], NEW g \in [D -> T],
               \A t \in D : rank[t] < rank[s] => f[t] = g[t]
        PROVE  G[<<s, f>>] = G[<<s, g>>]
    BY <1>1, <2>2
  <2> HIDE DEF G
  <2> QED  BY <1>0, <2>1, <2>2 DEF IsRule
<1>5. PICK f : f \in [D -> T] /\ \A s \in D : f[s] = G[<<s, f>>]
  <2> HIDE DEF G
  <2> QED  BY <1>4, Recursion DEF Follows
<1>6. Eqn(f)  BY <1>5
<1>7. Eqn(F)  BY <1>6
<1>8. Trees!Solid = F  BY DEF Trees!Solid, Own, D
<1> HIDE DEF F
<1>9. \A s \in D : F[s] = IF s = <<>> THEN <<>> ELSE Own(Trees!Last(s)) \o F[Trees!Front(s)]
  BY <1>7
<1>10. \A s \in D : F[s] \in T
  <2> DEFINE P == {s \in D : F[s] \in T}
  <2>1. ASSUME NEW s \in D, \A t \in D : rank[t] < rank[s] => t \in P PROVE s \in P
    BY <1>0, <1>1, <1>2, <1>3, <1>9, <2>1
  <2> HIDE DEF P
  <2>2. D \subseteq P  BY <1>0, <2>1, Induction
  <2> QED  BY <2>2 DEF P
<1>11. ASSUME NEW s \in D, NEW x \in Nodes PROVE F[Append(s, x)] = Own(x) \o F[s]
  <2>1. /\ Append(s, x) \in D /\ Append(s, x) # <<>>
        /\ Trees!Front(Append(s, x)) = s /\ Trees!Last(Append(s, x)) = x
    BY LastAppended DEF D
  <2> QED  BY <1>9, <2>1
<1> QED  BY <1>0, <1>8, <1>9, <1>10, <1>11 DEF D, T

\* A set of numbers that is finite has a bound.
LEMMA Bounded ==
  ASSUME NEW S \in SUBSET Nat, IsFiniteSet(S)
  PROVE  \E b \in Nat : \A n \in S : n <= b
<1> DEFINE B(T) == \E b \in Nat : \A n \in T : n <= b
           Bad == {Cardinality(T) : T \in {U \in SUBSET S : ~B(U)}}
<1>0. \A T \in SUBSET S : IsFiniteSet(T) /\ Cardinality(T) \in Nat
  BY FS_Subset, FS_CardinalityType
<1> SUFFICES ASSUME ~B(S) PROVE FALSE  OBVIOUS
<1>1. Bad \in SUBSET Nat /\ Bad # {}  BY <1>0
<1>2. PICK c \in Bad : \A d \in Bad : c <= d  BY <1>1, Least
<1>3. PICK T \in SUBSET S : ~B(T) /\ Cardinality(T) = c  OBVIOUS
<1>4. T # {}  BY <1>3
<1>5. PICK x \in T : TRUE  BY <1>4
<1>6. Cardinality(T \ {x}) = c - 1  BY <1>0, <1>3, <1>5, FS_RemoveElement
<1>7. B(T \ {x})
  <2> SUFFICES ASSUME ~B(T \ {x}) PROVE FALSE  OBVIOUS
  <2>1. c - 1 \in Bad  BY <1>6
  <2> HIDE DEF Bad
  <2>2. c <= c - 1 /\ c \in Nat  BY <1>1, <1>2, <2>1
  <2> QED  BY <2>2
<1>8. PICK b \in Nat : \A n \in T \ {x} : n <= b  BY <1>7
<1>9. CASE x <= b
  <2>1. \A n \in T : n <= b  BY <1>8, <1>9
  <2> QED  BY <1>3, <2>1
<1>10. CASE ~(x <= b)
  <2>1. x \in Nat  OBVIOUS
  <2>2. \A n \in T : n <= x
    <3> SUFFICES ASSUME NEW n \in T PROVE n <= x  OBVIOUS
    <3>1. n \in Nat  OBVIOUS
    <3> QED  BY <1>8, <1>10, <2>1, <3>1
  <2> QED  BY <1>3, <2>1, <2>2
<1> QED  BY <1>9, <1>10

\* So it has a greatest member.
LEMMA Greatest ==
  ASSUME NEW S \in SUBSET Nat, IsFiniteSet(S), S # {}
  PROVE  \E m \in S : \A n \in S : n <= m
<1> DEFINE T == {b \in Nat : \A n \in S : n <= b}
<1>1. T # {}  BY Bounded
<1>2. PICK b \in T : \A c \in T : b <= c  BY <1>1, Least
<1> SUFFICES ASSUME b \notin S PROVE FALSE  BY <1>2
<1>3. PICK x \in S : TRUE  OBVIOUS
<1>4. x \in Nat /\ x <= b /\ x # b  BY <1>2, <1>3
<1>5. \A n \in S : n <= b - 1
  <2> SUFFICES ASSUME NEW n \in S PROVE n <= b - 1  OBVIOUS
  <2>1. n \in Nat /\ n <= b /\ n # b  BY <1>2
  <2> QED  BY <2>1
<1>6. b - 1 \in T  BY <1>4, <1>5
<1> HIDE DEF T
<1>7. b <= b - 1  BY <1>2, <1>6
<1> QED  BY <1>2, <1>7 DEF T

Sorts(s, S) ==
  s \in [1 .. Cardinality(S) -> S] /\ \A i, j \in 1 .. Cardinality(S) : i < j => s[i] < s[j]

LEMMA Sorted ==
  ASSUME NEW S \in SUBSET Nat, IsFiniteSet(S)
  PROVE  \E s : Sorts(s, S)
<1> DEFINE Bad == {Cardinality(T) : T \in {U \in SUBSET S : ~\E s : Sorts(s, U)}}
<1>0. \A T \in SUBSET S : IsFiniteSet(T) /\ Cardinality(T) \in Nat
  BY FS_Subset, FS_CardinalityType
<1> SUFFICES ASSUME ~\E s : Sorts(s, S) PROVE FALSE  OBVIOUS
<1>1. Bad \in SUBSET Nat /\ Bad # {}  BY <1>0
<1>2. PICK c \in Bad : \A d \in Bad : c <= d  BY <1>1, Least
<1>3. PICK T \in SUBSET S : (~\E s : Sorts(s, T)) /\ Cardinality(T) = c  OBVIOUS
<1>4. T # {}
  <2> SUFFICES ASSUME T = {} PROVE FALSE  OBVIOUS
  <2>1. Cardinality(T) = 0  BY FS_EmptySet
  <2>2. Sorts([i \in 1 .. 0 |-> i], T)  BY <2>1 DEF Sorts
  <2> QED  BY <1>3, <2>2
<1>5. PICK m \in T : \A n \in T : n <= m  BY <1>0, <1>4, Greatest
<1>6. Cardinality(T \ {m}) = c - 1 /\ c \in Nat  BY <1>0, <1>3, <1>5, FS_RemoveElement
<1>7. PICK s : Sorts(s, T \ {m})
  <2> SUFFICES ASSUME ~\E s : Sorts(s, T \ {m}) PROVE FALSE  OBVIOUS
  <2>1. c - 1 \in Bad  BY <1>6
  <2> HIDE DEF Bad
  <2>2. c <= c - 1  BY <1>2, <2>1
  <2> QED  BY <1>6, <2>2
<1> DEFINE r == [i \in 1 .. c |-> IF i = c THEN m ELSE s[i]]
<1>8. \A i \in 1 .. c : i # c => i \in 1 .. (c - 1) /\ s[i] \in T \ {m}
  <2>1. s \in [1 .. (c - 1) -> T \ {m}]  BY <1>6, <1>7 DEF Sorts
  <2>2. \A i \in 1 .. c : i # c => i \in 1 .. (c - 1)  BY <1>6
  <2> QED  BY <2>1, <2>2
<1>9. r \in [1 .. c -> T]  BY <1>5, <1>8
<1>10. ASSUME NEW i \in 1 .. c, NEW j \in 1 .. c, i < j PROVE r[i] < r[j]
  <2>1. i # c /\ i \in 1 .. (c - 1)  BY <1>6, <1>10
  <2>2. s[i] \in T /\ s[i] # m /\ s[i] <= m /\ s[i] \in Nat /\ m \in Nat  BY <1>5, <1>8, <2>1
  <2>3. CASE j = c
    <3>1. r[i] = s[i] /\ r[j] = m  BY <2>1, <2>3
    <3> QED  BY <2>2, <3>1
  <2>4. CASE j # c
    <3>1. j \in 1 .. (c - 1)  BY <1>8, <2>4
    <3>2. s[i] < s[j]  BY <1>6, <1>7, <1>10, <2>1, <3>1 DEF Sorts
    <3> QED  BY <2>1, <2>4, <3>2
  <2> QED  BY <2>3, <2>4
<1>11. Sorts(r, T)
  <2> HIDE DEF r
  <2> QED  BY <1>3, <1>9, <1>10 DEF Sorts
<1> QED  BY <1>3, <1>11

\* What the tree is: parents come before children, and nothing is under what is hollow.
Grown ==
  /\ parent \in [Nodes -> Nodes \cup {0}] /\ hollow \subseteq Nodes
  /\ \A n \in Nodes : parent[n] < n /\ parent[n] \notin hollow

LEMMA Same ==
  ASSUME NEW S
  PROVE  Trees!Cardinality(S) = Cardinality(S) /\ (Trees!IsFiniteSet(S) <=> IsFiniteSet(S))
<1>1. Trees!Cardinality(S) = Cardinality(S)  BY DEF Trees!Cardinality, Cardinality
<1>2. Trees!IsFiniteSet(S) <=> IsFiniteSet(S)  BY DEF Trees!IsFiniteSet, IsFiniteSet
<1> QED  BY <1>1, <1>2

LEMMA Numbers == Nodes \subseteq Nat \ {0} /\ IsFiniteSet(Nodes) /\ TreeDepth \in Nat
BY QueriesAssumption, Same DEF Trees!TreeAssumption

LEMMA KidsAre ==
  ASSUME NEW n
  PROVE  Trees!Kids(n) \in Seq({k \in Nodes : parent[k] = n})
<1> DEFINE S == {k \in Nodes : parent[k] = n}
<1>1. S \in SUBSET Nat /\ IsFiniteSet(S)  BY Numbers, FS_Subset
<1>2. Cardinality(S) \in Nat  BY <1>1, FS_CardinalityType
<1>3. Trees!Kids(n) = Trees!Ascending(S)  BY DEF Trees!Kids
<1> HIDE DEF S
<1>4. Trees!Ascending(S) \in [1 .. Cardinality(S) -> S]
  <2>1. PICK s : Sorts(s, S)  BY <1>1, Sorted
  <2>2. s \in [1 .. Cardinality(S) -> S] /\ \A i, j \in DOMAIN s : i < j => s[i] < s[j]
    BY <2>1 DEF Sorts
  <2> DEFINE A == [1 .. Trees!Cardinality(S) -> S]
             Up(t) == \A i, j \in DOMAIN t : i < j => t[i] < t[j]
  <2>3. s \in A /\ Up(s)  BY <2>2, Same
  <2> HIDE DEF A
  <2>4. (CHOOSE t \in A : Up(t)) \in A
    <3> HIDE DEF Up
    <3> QED  BY <2>3
  <2>5. Trees!Ascending(S) \in A  BY <2>4 DEF Trees!Ascending, A
  <2> QED  BY <2>5, Same DEF A
<1>5. Trees!Ascending(S) \in Seq(S)  BY <1>2, <1>4
<1> QED  BY <1>3, <1>5 DEF S

LEMMA DepthIs ==
  ASSUME Grown
  PROVE  \A n \in Nodes :
           /\ Trees!Depth[n] \in Nat
           /\ Trees!Depth[n] = IF parent[n] = 0 THEN 0 ELSE Trees!Depth[parent[n]] + 1
<1> DEFINE D == Nodes
           rank == [n \in D |-> n]
           G == [p \in D \X [D -> Nat] |->
                   IF parent[p[1]] = 0 THEN 0 ELSE p[2][parent[p[1]]] + 1]
           Eqn(f) == f = [n \in D |-> IF parent[n] = 0 THEN 0 ELSE f[parent[n]] + 1]
           F == CHOOSE f : Eqn(f)
<1>1. rank \in [D -> Nat]  BY Numbers
<1>2. \A n \in D : parent[n] # 0 => parent[n] \in D /\ rank[parent[n]] < rank[n]
  BY DEF Grown
<1> HIDE DEF rank, D
<1>3. IsRule(D, Nat, rank, G)
  <2>1. ASSUME NEW n \in D, NEW f \in [D -> Nat] PROVE G[<<n, f>>] \in Nat
    BY <1>2
  <2>2. ASSUME NEW n \in D, NEW f \in [D -> Nat], NEW g \in [D -> Nat],
               \A m \in D : rank[m] < rank[n] => f[m] = g[m]
        PROVE  G[<<n, f>>] = G[<<n, g>>]
    BY <1>2, <2>2
  <2> HIDE DEF G
  <2> QED  BY <1>1, <2>1, <2>2 DEF IsRule
<1>4. PICK f : f \in [D -> Nat] /\ \A n \in D : f[n] = G[<<n, f>>]
  <2> HIDE DEF G
  <2> QED  BY <1>3, Recursion DEF Follows
<1>5. Eqn(f)  BY <1>4
<1>6. Eqn(F)  BY <1>5
<1>7. Trees!Depth = F  BY DEF Trees!Depth, D
<1> HIDE DEF F
<1>8. \A n \in D : F[n] = IF parent[n] = 0 THEN 0 ELSE F[parent[n]] + 1  BY <1>6
<1>9. D \subseteq {n \in D : F[n] \in Nat}
  <2> DEFINE P == {n \in D : F[n] \in Nat}
  <2>1. ASSUME NEW n \in D, \A m \in D : rank[m] < rank[n] => m \in P PROVE n \in P
    BY <1>2, <1>8, <2>1
  <2> HIDE DEF P
  <2>2. D \subseteq P  BY <1>1, <2>1, Induction
  <2> QED  BY <2>2 DEF P
<1> QED  BY <1>7, <1>8, <1>9 DEF D

LEMMA SelfType ==
  ASSUME NEW n \in Nodes
  PROVE  Trees!Self(n) \in Seq(Nodes)
<1>1. <<>> \in Seq(Nodes) /\ <<n>> \in Seq(Nodes)  OBVIOUS
<1> QED  BY <1>1 DEF Trees!Self

LEMMA KidsBelow ==
  ASSUME Grown, NEW n \in Nodes \cup {0}
  PROVE  /\ Trees!Kids(n) \in Seq(Nodes)
         /\ \A i \in 1 .. Len(Trees!Kids(n)) :
              Trees!Kids(n)[i] \in Nodes /\ parent[Trees!Kids(n)[i]] = n /\ n < Trees!Kids(n)[i]
<1> DEFINE S == {k \in Nodes : parent[k] = n}
           s == Trees!Kids(n)
<1>1. s \in Seq(S)  BY KidsAre
<1>2. s \in Seq(Nodes)  BY <1>1, SeqMonotonic
<1>3. \A i \in 1 .. Len(s) : s[i] \in S  BY <1>1, ElementOfSeq
<1> QED  BY <1>2, <1>3 DEF Grown

\* What is shown of a node with all below it, and of a list of nodes.
Part(n) == Trees!Self(n) \o Trees!Preorder[n]
Parts(s) == [i \in DOMAIN s |-> Part(s[i])]
Shown(s) == Trees!FlattenSeq(Parts(s))

\* What a list of nodes shows when f says what is below them.
With(s, f) == [i \in DOMAIN s |-> Trees!Self(s[i]) \o f[s[i]]]

LEMMA WithType ==
  ASSUME NEW s \in Seq(Nodes), NEW f, \A i \in 1 .. Len(s) : f[s[i]] \in Seq(Nodes)
  PROVE  With(s, f) \in Seq(Seq(Nodes)) /\ Trees!FlattenSeq(With(s, f)) \in Seq(Nodes)
<1>1. Len(s) \in Nat /\ DOMAIN s = 1 .. Len(s) /\ \A i \in 1 .. Len(s) : s[i] \in Nodes
  BY LenProperties
<1>2. \A i \in 1 .. Len(s) : Trees!Self(s[i]) \o f[s[i]] \in Seq(Nodes)
  BY <1>1, SelfType, ConcatProperties
<1> DEFINE T == Seq(Nodes)
           w == With(s, f)
<1>3. w \in [1 .. Len(s) -> T]  BY <1>1, <1>2 DEF With
<1> HIDE DEF T, w
<1>4. w \in Seq(T)  BY <1>1, <1>3
<1> QED  BY <1>4, FlatType DEF T, w

LEMMA PreorderIs ==
  ASSUME Grown
  PROVE  \A n \in Nodes \cup {0} :
           /\ Trees!Preorder[n] \in Seq(Nodes)
           /\ Trees!Preorder[n] = Shown(Trees!Kids(n))
<1> DEFINE D == Nodes \cup {0}
           T == Seq(Nodes)
<1>0. PICK b \in Nat : \A n \in Nodes : n <= b  BY Numbers, Bounded
<1> DEFINE rank == [n \in D |-> b - n]
           G == [p \in D \X [D -> T] |-> Trees!FlattenSeq(With(Trees!Kids(p[1]), p[2]))]
           Eqn(f) == f = [n \in D |-> Trees!FlattenSeq(With(Trees!Kids(n), f))]
           F == CHOOSE f : Eqn(f)
<1>1. rank \in [D -> Nat] /\ T # {}
  <2>1. \A n \in D : n \in Nat /\ n <= b  BY <1>0, Numbers
  <2>2. \A n \in D : b - n \in Nat  BY <2>1
  <2>3. <<>> \in T  BY EmptySeq
  <2> QED  BY <2>2, <2>3
<1>2. ASSUME NEW n \in D
      PROVE  /\ Trees!Kids(n) \in T /\ DOMAIN Trees!Kids(n) = 1 .. Len(Trees!Kids(n))
             /\ \A i \in 1 .. Len(Trees!Kids(n)) :
                  Trees!Kids(n)[i] \in D /\ rank[Trees!Kids(n)[i]] < rank[n]
  <2>1. \A k \in Nodes : k \in Nat  BY Numbers
  <2>2. n \in Nat  BY Numbers
  <2>3. Trees!Kids(n) \in T /\ DOMAIN Trees!Kids(n) = 1 .. Len(Trees!Kids(n))
    BY KidsBelow, LenProperties
  <2>4. ASSUME NEW k \in Nodes, n < k PROVE k \in D /\ rank[k] < rank[n]
    BY <1>0, <2>1, <2>2, <2>4
  <2> HIDE DEF D, rank
  <2> QED  BY <2>3, <2>4, KidsBelow DEF D
<1>3. \A n \in D : \A f, g : (\A m \in D : rank[m] < rank[n] => f[m] = g[m])
                              => With(Trees!Kids(n), f) = With(Trees!Kids(n), g)
  BY <1>2 DEF With
<1>4. \A n \in D : \A f : (\A m \in D : rank[m] < rank[n] => f[m] \in T)
                           => Trees!FlattenSeq(With(Trees!Kids(n), f)) \in T
  BY <1>2, WithType
<1> HIDE DEF D, T, rank
<1>5. IsRule(D, T, rank, G)
  <2>1. ASSUME NEW n \in D, NEW f \in [D -> T] PROVE G[<<n, f>>] \in T
    BY <1>4
  <2>2. ASSUME NEW n \in D, NEW f \in [D -> T], NEW g \in [D -> T],
               \A m \in D : rank[m] < rank[n] => f[m] = g[m]
        PROVE  G[<<n, f>>] = G[<<n, g>>]
    BY <1>3, <2>2
  <2> HIDE DEF G
  <2> QED  BY <1>1, <2>1, <2>2 DEF IsRule
<1>6. PICK f : f \in [D -> T] /\ \A n \in D : f[n] = G[<<n, f>>]
  <2> HIDE DEF G
  <2> QED  BY <1>5, Recursion DEF Follows
<1>7. Eqn(f)  BY <1>6
<1>8. Eqn(F)  BY <1>7
<1>9. Trees!Preorder = F  BY DEF Trees!Preorder, With, D
<1> HIDE DEF F
<1>10. \A n \in D : F[n] = Trees!FlattenSeq(With(Trees!Kids(n), F))  BY <1>8
<1>11. D \subseteq {n \in D : F[n] \in T}
  <2> DEFINE P == {n \in D : F[n] \in T}
  <2>1. ASSUME NEW n \in D, \A m \in D : rank[m] < rank[n] => m \in P PROVE n \in P
    BY <1>4, <1>10, <2>1
  <2> HIDE DEF P
  <2>2. D \subseteq P  BY <1>1, <2>1, Induction
  <2> QED  BY <2>2 DEF P
<1>12. \A s : With(s, F) = Parts(s)  BY <1>9 DEF With, Parts, Part
<1> QED  BY <1>9, <1>10, <1>11, <1>12 DEF D, T, Shown

LEMMA PartType ==
  ASSUME Grown, NEW n \in Nodes
  PROVE  Part(n) \in Seq(Nodes)
BY SelfType, PreorderIs, ConcatProperties DEF Part

LEMMA ShownType ==
  ASSUME Grown, NEW s \in Seq(Nodes)
  PROVE  Parts(s) \in Seq(Seq(Nodes)) /\ Shown(s) \in Seq(Nodes)
<1>1. \A i \in 1 .. Len(s) : s[i] \in Nodes  OBVIOUS
<1>2. \A i \in 1 .. Len(s) : Trees!Preorder[s[i]] \in Seq(Nodes)  BY <1>1, PreorderIs
<1>3. Parts(s) = With(s, Trees!Preorder)  BY DEF Parts, Part, With
<1> QED  BY <1>2, <1>3, WithType DEF Shown

LEMMA ShownNone == Shown(<<>>) = <<>>
<1>1. Parts(<<>>) = <<>>  BY DEF Parts
<1> QED  BY <1>1, FlatNone DEF Shown

LEMMA ShownAppend ==
  ASSUME Grown, NEW s \in Seq(Nodes), NEW x \in Nodes
  PROVE  Shown(Append(s, x)) = Shown(s) \o Part(x)
<1> DEFINE T == Seq(Nodes)
           q == Append(s, x)
           p == Parts(s)
           r == Append(p, Part(x))
<1>1. /\ q \in T /\ Len(q) = Len(s) + 1 /\ Len(s) \in Nat /\ q[Len(s) + 1] = x
      /\ \A i \in 1 .. Len(s) : q[i] = s[i]
      /\ DOMAIN q = 1 .. Len(q) /\ DOMAIN s = 1 .. Len(s)
  BY AppendProperties, LenProperties
<1>2. Part(x) \in T /\ p \in Seq(T) /\ Parts(q) \in Seq(T)  BY <1>1, PartType, ShownType
<1> HIDE DEF T, q
<1>3. Len(p) = Len(s) /\ Len(Parts(q)) = Len(q)
  <2>1. DOMAIN p = 1 .. Len(s) /\ DOMAIN Parts(q) = 1 .. Len(q)  BY <1>1 DEF Parts
  <2> QED  BY <1>1, <1>2, <2>1
<1>4. /\ r \in Seq(T) /\ Len(r) = Len(s) + 1 /\ r[Len(s) + 1] = Part(x)
      /\ \A i \in 1 .. Len(s) : r[i] = Part(s[i])
  <2>1. \A i \in 1 .. Len(s) : p[i] = Part(s[i])  BY <1>1 DEF Parts
  <2> HIDE DEF p
  <2> QED  BY <1>1, <1>2, <1>3, <2>1, AppendProperties
<1>5. \A i \in 1 .. Len(q) : Parts(q)[i] = r[i]
  <2>1. \A i \in 1 .. Len(q) : Parts(q)[i] = Part(q[i])  BY <1>1 DEF Parts
  <2>2. \A i \in 1 .. Len(q) : i = Len(s) + 1 \/ i \in 1 .. Len(s)  BY <1>1
  <2> HIDE DEF r
  <2> QED  BY <1>1, <1>4, <2>1, <2>2
<1> HIDE DEF r
<1>6. Parts(q) = r  BY <1>1, <1>2, <1>3, <1>4, <1>5, SeqEqual
<1>7. Trees!FlattenSeq(r) = Trees!FlattenSeq(p) \o Part(x)
  BY <1>2, FlatAppend DEF T, r
<1> QED  BY <1>6, <1>7 DEF Shown, q

LEMMA ShownConcat ==
  ASSUME Grown, NEW s \in Seq(Nodes)
  PROVE  \A t \in Seq(Nodes) : Shown(s \o t) = Shown(s) \o Shown(t)
<1> DEFINE P == {t \in Seq(Nodes) : Shown(s \o t) = Shown(s) \o Shown(t)}
<1>1. <<>> \in P
  <2>1. <<>> \in Seq(Nodes) /\ s \o <<>> = s /\ Shown(s) \o <<>> = Shown(s)
    BY EmptySeq, ShownType, ConcatEmptySeq
  <2> QED  BY <2>1, ShownNone
<1>2. ASSUME NEW t \in Seq(Nodes), NEW x \in Nodes, t \in P PROVE Append(t, x) \in P
  <2>1. Append(t, x) \in Seq(Nodes) /\ s \o t \in Seq(Nodes)  BY AppendProperties, ConcatProperties
  <2>2. s \o Append(t, x) = Append(s \o t, x)
    <3>1. <<x>> \in Seq(Nodes) /\ Append(t, x) = t \o <<x>> /\ Append(s \o t, x) = (s \o t) \o <<x>>
      BY <2>1, AppendIsConcat
    <3> QED  BY <3>1, ConcatAssociative
  <2>3. Shown(s \o Append(t, x)) = (Shown(s) \o Shown(t)) \o Part(x)
    BY <1>2, <2>1, <2>2, ShownAppend
  <2>4. Shown(Append(t, x)) = Shown(t) \o Part(x)  BY ShownAppend
  <2>5. Shown(s) \in Seq(Nodes) /\ Shown(t) \in Seq(Nodes) /\ Part(x) \in Seq(Nodes)
    BY ShownType, PartType
  <2>6. (Shown(s) \o Shown(t)) \o Part(x) = Shown(s) \o (Shown(t) \o Part(x))
    BY <2>5, ConcatAssociative, SMTT(30)
  <2> QED  BY <2>1, <2>3, <2>4, <2>6
<1> HIDE DEF P
<1>3. Seq(Nodes) \subseteq P  BY <1>1, <1>2, SequenceInduction
<1> QED  BY <1>3 DEF P

\* What is shown of the nodes on the stack, from its top.
Back(s) == Shown(Trees!Reverse(s))

LEMMA BackNone == Back(<<>>) = <<>>
<1>1. Trees!Reverse(<<>>) = <<>>  BY DEF Trees!Reverse
<1> QED  BY <1>1, ShownNone DEF Back

LEMMA ReverseType ==
  ASSUME NEW S, NEW s \in Seq(S)
  PROVE  /\ Trees!Reverse(s) \in Seq(S) /\ Len(Trees!Reverse(s)) = Len(s)
         /\ \A i \in 1 .. Len(s) : Trees!Reverse(s)[i] = s[Len(s) - i + 1]
<1>1. Len(s) \in Nat /\ \A i \in 1 .. Len(s) : s[i] \in S  BY LenProperties
<1>2. \A i \in 1 .. Len(s) : Len(s) - i + 1 \in 1 .. Len(s)  BY <1>1
<1>3. Trees!Reverse(s) \in [1 .. Len(s) -> S]  BY <1>1, <1>2 DEF Trees!Reverse
<1> QED  BY <1>1, <1>3 DEF Trees!Reverse

LEMMA BackType ==
  ASSUME Grown, NEW s \in Seq(Nodes)
  PROVE  Back(s) \in Seq(Nodes)
BY ReverseType, ShownType DEF Back

LEMMA ReverseAppend ==
  ASSUME NEW S, NEW s \in Seq(S), NEW x \in S
  PROVE  Trees!Reverse(Append(s, x)) = <<x>> \o Trees!Reverse(s)
<1> DEFINE q == Append(s, x)
           r == Trees!Reverse(s)
           l == Trees!Reverse(q)
           t == <<x>> \o r
<1>1. /\ q \in Seq(S) /\ Len(q) = Len(s) + 1 /\ Len(s) \in Nat /\ q[Len(s) + 1] = x
      /\ \A i \in 1 .. Len(s) : q[i] = s[i]
  BY AppendProperties, LenProperties
<1>2. /\ r \in Seq(S) /\ Len(r) = Len(s)
      /\ \A i \in 1 .. Len(s) : r[i] = s[Len(s) - i + 1]
  BY ReverseType
<1> HIDE DEF q, r
<1>3. /\ l \in Seq(S) /\ Len(l) = Len(q)
      /\ \A i \in 1 .. Len(q) : l[i] = q[Len(q) - i + 1]
  BY <1>1, ReverseType
<1>4. /\ t \in Seq(S) /\ Len(t) = 1 + Len(s)
      /\ \A i \in 1 .. 1 + Len(s) : t[i] = IF i <= 1 THEN x ELSE r[i - 1]
  <2>1. <<x>> \in Seq(S) /\ Len(<<x>>) = 1 /\ <<x>>[1] = x  OBVIOUS
  <2>2. /\ <<x>> \o r \in Seq(S) /\ Len(<<x>> \o r) = Len(<<x>>) + Len(r)
        /\ \A i \in 1 .. Len(<<x>>) + Len(r) :
             (<<x>> \o r)[i] = IF i <= Len(<<x>>) THEN <<x>>[i] ELSE r[i - Len(<<x>>)]
    BY <1>2, <2>1, ConcatProperties
  <2> QED  BY <1>1, <1>2, <2>1, <2>2
<1> HIDE DEF l, t
<1>5. ASSUME NEW i \in 1 .. Len(q) PROVE l[i] = t[i]
  <2>1. CASE i = 1
    <3>1. l[i] = q[Len(s) + 1] /\ t[i] = x  BY <1>1, <1>3, <1>4, <2>1
    <3> QED  BY <1>1, <3>1
  <2>2. CASE i # 1
    <3>1. i - 1 \in 1 .. Len(s) /\ Len(s) - (i - 1) + 1 \in 1 .. Len(s)
          /\ Len(q) - i + 1 = Len(s) - (i - 1) + 1 /\ ~(i <= 1) /\ i \in 1 .. 1 + Len(s)
      BY <1>1, <2>2
    <3>2. t[i] = r[i - 1] /\ r[i - 1] = s[Len(s) - (i - 1) + 1]  BY <1>2, <1>4, <3>1
    <3>3. l[i] = q[Len(s) - (i - 1) + 1]  BY <1>3, <3>1
    <3>4. q[Len(s) - (i - 1) + 1] = s[Len(s) - (i - 1) + 1]  BY <1>1, <3>1
    <3> QED  BY <3>2, <3>3, <3>4
  <2> QED  BY <2>1, <2>2
<1>6. Len(l) = Len(t)  BY <1>1, <1>3, <1>4
<1>7. l = t  BY <1>3, <1>4, <1>5, <1>6, SeqEqual
<1> QED  BY <1>7 DEF l, t, q, r

LEMMA BackAppend ==
  ASSUME Grown, NEW s \in Seq(Nodes), NEW x \in Nodes
  PROVE  Back(Append(s, x)) = Part(x) \o Back(s)
<1> DEFINE one == <<x>>
           r == Trees!Reverse(s)
<1>1. one \in Seq(Nodes) /\ r \in Seq(Nodes) /\ one = Append(<<>>, x) /\ <<>> \in Seq(Nodes)
  BY ReverseType
<1>2. Trees!Reverse(Append(s, x)) = one \o r  BY ReverseAppend
<1>3. Part(x) \in Seq(Nodes)  BY PartType
<1> HIDE DEF one, r
<1>4. Shown(one \o r) = Shown(one) \o Shown(r)  BY <1>1, ShownConcat
<1>5. Shown(one) = Shown(<<>>) \o Part(x)  BY <1>1, ShownAppend
<1>6. Shown(one) = Part(x)  BY <1>3, <1>5, ShownNone, ConcatEmptySeq
<1> QED  BY <1>2, <1>4, <1>6 DEF Back, r

LEMMA BackConcat ==
  ASSUME Grown, NEW s \in Seq(Nodes)
  PROVE  \A t \in Seq(Nodes) : Back(s \o t) = Back(t) \o Back(s)
<1> DEFINE P == {t \in Seq(Nodes) : Back(s \o t) = Back(t) \o Back(s)}
<1>1. <<>> \in P
  <2>1. <<>> \in Seq(Nodes) /\ s \o <<>> = s /\ <<>> \o Back(s) = Back(s)
    BY EmptySeq, BackType, ConcatEmptySeq
  <2> QED  BY <2>1, BackNone
<1>2. ASSUME NEW t \in Seq(Nodes), NEW x \in Nodes, t \in P PROVE Append(t, x) \in P
  <2>1. Append(t, x) \in Seq(Nodes) /\ s \o t \in Seq(Nodes)  BY AppendProperties, ConcatProperties
  <2>2. s \o Append(t, x) = Append(s \o t, x)
    <3>1. <<x>> \in Seq(Nodes) /\ Append(t, x) = t \o <<x>> /\ Append(s \o t, x) = (s \o t) \o <<x>>
      BY <2>1, AppendIsConcat
    <3> QED  BY <3>1, ConcatAssociative
  <2>3. Back(s \o Append(t, x)) = Part(x) \o (Back(t) \o Back(s))
    BY <1>2, <2>1, <2>2, BackAppend
  <2>4. Back(Append(t, x)) = Part(x) \o Back(t)  BY BackAppend
  <2>5. Back(s) \in Seq(Nodes) /\ Back(t) \in Seq(Nodes) /\ Part(x) \in Seq(Nodes)
    BY BackType, PartType
  <2>6. (Part(x) \o Back(t)) \o Back(s) = Part(x) \o (Back(t) \o Back(s))
    <3> DEFINE a == Part(x)
               b == Back(t)
               c == Back(s)
    <3>1. a \in Seq(Nodes) /\ b \in Seq(Nodes) /\ c \in Seq(Nodes)  BY <2>5
    <3> HIDE DEF a, b, c
    <3>2. (a \o b) \o c = a \o (b \o c)  BY <3>1, ConcatAssociative, SMTT(30)
    <3> QED  BY <3>2 DEF a, b, c
  <2> QED  BY <2>1, <2>3, <2>4, <2>6
<1> HIDE DEF P
<1>3. Seq(Nodes) \subseteq P  BY <1>1, <1>2, SequenceInduction
<1> QED  BY <1>3 DEF P

\* Nothing is shown of what is hollow: nothing is below it.
LEMMA HollowPart ==
  ASSUME Grown, NEW x \in hollow
  PROVE  Part(x) = <<>>
<1>1. x \in Nodes  BY DEF Grown
<1>2. Trees!Kids(x) = <<>>
  <2>1. {k \in Nodes : parent[k] = x} = {}  BY DEF Grown
  <2>2. Trees!Kids(x) \in Seq({})  BY <2>1, KidsAre
  <2> QED  BY <2>2, EmptySeq, ElementOfSeq
<1>3. Trees!Preorder[x] = <<>>  BY <1>1, <1>2, PreorderIs, ShownNone
<1>4. Trees!Self(x) = <<>>  BY DEF Trees!Self
<1>5. <<>> \in Seq(Nodes)  BY EmptySeq
<1> QED  BY <1>3, <1>4, <1>5, ConcatEmptySeq DEF Part

\* Nodes of which nothing is shown show nothing together.
LEMMA ShownOfNothing ==
  ASSUME Grown, NEW S \in SUBSET Nodes, \A x \in S : Part(x) = <<>>
  PROVE  \A s \in Seq(S) : Shown(s) = <<>>
<1> DEFINE P == {s \in Seq(S) : Shown(s) = <<>>}
<1>1. <<>> \in P  BY EmptySeq, ShownNone
<1>2. ASSUME NEW s \in Seq(S), NEW x \in S, s \in P PROVE Append(s, x) \in P
  <2>1. s \in Seq(Nodes) /\ Append(s, x) \in Seq(S) /\ <<>> \in Seq(Nodes)
    BY SeqMonotonic, AppendProperties, EmptySeq
  <2>2. Shown(Append(s, x)) = <<>> \o <<>>  BY <1>2, <2>1, ShownAppend
  <2>3. Shown(Append(s, x)) = <<>>  BY <2>1, <2>2, ConcatEmptySeq
  <2> QED  BY <2>1, <2>3
<1> HIDE DEF P
<1>3. Seq(S) \subseteq P  BY <1>1, <1>2, SequenceInduction
<1> QED  BY <1>3 DEF P

\* Nothing is shown of what is too deep: what is below it is deeper still.
LEMMA DeepPart ==
  ASSUME Grown
  PROVE  \A n \in Nodes : Trees!Depth[n] > TreeDepth => Part(n) = <<>>
<1>0. PICK b \in Nat : \A n \in Nodes : n <= b  BY Numbers, Bounded
<1> DEFINE D == Nodes
           rank == [n \in D |-> b - n]
           Deep == {n \in D : Trees!Depth[n] > TreeDepth}
           P == {n \in D : n \in Deep => Part(n) = <<>>}
<1>1. rank \in [D -> Nat] /\ \A n \in D : n \in Nat  BY <1>0, Numbers
<1>2. ASSUME NEW n \in D, \A m \in D : rank[m] < rank[n] => m \in P PROVE n \in P
  <2> SUFFICES ASSUME n \in Deep PROVE Part(n) = <<>>  OBVIOUS
  <2> DEFINE S == {k \in Nodes : parent[k] = n}
  <2>1. \A k \in S : k \in Deep /\ rank[k] < rank[n]
    <3> SUFFICES ASSUME NEW k \in S PROVE k \in Deep /\ rank[k] < rank[n]  OBVIOUS
    <3>1. n # 0 /\ n < k /\ k <= b /\ n <= b /\ k \in Nat /\ n \in Nat
      BY <1>0, <1>1, Numbers DEF Grown
    <3>2. Trees!Depth[k] = Trees!Depth[n] + 1 /\ Trees!Depth[n] \in Nat
      BY <3>1, DepthIs
    <3>3. Trees!Depth[n] > TreeDepth /\ TreeDepth \in Nat  BY Numbers
    <3>4. k \in Deep  BY <3>2, <3>3
    <3> QED  BY <3>1, <3>4
  <2>2. \A k \in S : Part(k) = <<>>  BY <1>2, <2>1
  <2>3. Trees!Kids(n) \in Seq(S)  BY KidsAre
  <2>4. S \in SUBSET Nodes  OBVIOUS
  <2> HIDE DEF S
  <2>5. Shown(Trees!Kids(n)) = <<>>  BY <2>2, <2>3, <2>4, ShownOfNothing
  <2>6. Trees!Preorder[n] = <<>>  BY <2>5, PreorderIs
  <2>7. Trees!Self(n) = <<>>  BY DEF Trees!Self
  <2>8. <<>> \in Seq(Nodes)  BY EmptySeq
  <2> QED  BY <2>6, <2>7, <2>8, ConcatEmptySeq DEF Part
<1> HIDE DEF P, rank, D, Deep
<1>3. D \subseteq P  BY <1>1, <1>2, Induction
<1> QED  BY <1>3 DEF P, D, Deep

\* Pushing a list from its last to its first shows it from its first to its last.
LEMMA SolidBack ==
  ASSUME Grown
  PROVE  \A s \in Seq(Nodes) : Back(Trees!Solid[s]) = Shown(s)
<1> DEFINE P == {s \in Seq(Nodes) : Back(Trees!Solid[s]) = Shown(s)}
<1>1. <<>> \in P  BY EmptySeq, SolidIs, BackNone, ShownNone
<1>2. ASSUME NEW s \in Seq(Nodes), NEW x \in Nodes, s \in P PROVE Append(s, x) \in P
  <2>1. Trees!Solid[s] \in Seq(Nodes)
    <3>1. Trees!Solid[s] \in Seq(Nodes \ hollow)  BY SolidIs
    <3> QED  BY <3>1, SeqMonotonic
  <2>2. Own(x) \in Seq(Nodes) /\ Shown(s) \in Seq(Nodes) /\ Append(s, x) \in Seq(Nodes)
    <3>1. <<>> \in Seq(Nodes) /\ <<x>> \in Seq(Nodes)  OBVIOUS
    <3> QED  BY <3>1, ShownType, AppendProperties DEF Own
  <2>3. Back(Own(x)) = Part(x)
    <3>1. CASE x \in hollow  BY <3>1, HollowPart, BackNone DEF Own
    <3>2. CASE x \notin hollow
      <4>1. Own(x) = Append(<<>>, x) /\ <<>> \in Seq(Nodes)  BY <3>2 DEF Own
      <4>2. Back(Own(x)) = Part(x) \o Back(<<>>)  BY <4>1, BackAppend
      <4> QED  BY <4>2, BackNone, PartType, ConcatEmptySeq
    <3> QED  BY <3>1, <3>2
  <2>4. Back(Trees!Solid[Append(s, x)]) = Back(Trees!Solid[s]) \o Back(Own(x))
    <3>1. Trees!Solid[Append(s, x)] = Own(x) \o Trees!Solid[s]  BY SolidIs
    <3> QED  BY <2>1, <2>2, <3>1, BackConcat
  <2>5. Shown(Append(s, x)) = Shown(s) \o Part(x)  BY ShownAppend
  <2> QED  BY <1>2, <2>2, <2>3, <2>4, <2>5
<1> HIDE DEF P
<1>3. Seq(Nodes) \subseteq P  BY <1>1, <1>2, SequenceInduction
<1> QED  BY <1>3 DEF P

\* The nodes on the stack, and what is left to show.
Line(s) == [i \in DOMAIN s |-> s[i].node]

\* The nodes on the stack are as deep as it says they are, and what is still to be shown of the
\* tree is, from the top of the stack down, what is shown of them and of all below them.
TreeInv ==
  /\ Trees!TypeOK /\ Grown
  /\ \A i \in 1 .. Len(stack) : stack[i].depth = Trees!Depth[stack[i].node]
  /\ Trees!Wanted = result \o Back(Line(stack))

Items == [node : Nodes \ hollow, depth : Nat]

LEMMA LineType ==
  ASSUME NEW s \in Seq(Items)
  PROVE  Line(s) \in Seq(Nodes)
<1>1. Len(s) \in Nat /\ DOMAIN s = 1 .. Len(s) /\ \A i \in 1 .. Len(s) : s[i] \in Items
  BY LenProperties
<1>2. \A i \in 1 .. Len(s) : s[i].node \in Nodes  BY <1>1 DEF Items
<1>3. Line(s) \in [1 .. Len(s) -> Nodes]  BY <1>1, <1>2 DEF Line
<1> QED  BY <1>1, <1>3

LEMMA LineConcat ==
  ASSUME NEW s \in Seq(Items), NEW t \in Seq(Items)
  PROVE  Line(s \o t) = Line(s) \o Line(t)
<1> DEFINE q == s \o t
           r == Line(s) \o Line(t)
<1>1. /\ q \in Seq(Items) /\ Len(q) = Len(s) + Len(t)
      /\ \A i \in 1 .. Len(s) + Len(t) : q[i] = IF i <= Len(s) THEN s[i] ELSE t[i - Len(s)]
      /\ Len(s) \in Nat /\ Len(t) \in Nat
      /\ DOMAIN q = 1 .. Len(q) /\ DOMAIN s = 1 .. Len(s) /\ DOMAIN t = 1 .. Len(t)
  BY ConcatProperties, LenProperties
<1> HIDE DEF q, Items
<1>2. /\ Line(s) \in Seq(Nodes) /\ Line(t) \in Seq(Nodes) /\ Line(q) \in Seq(Nodes)
  BY <1>1, LineType
<1>3. /\ DOMAIN Line(s) = 1 .. Len(s) /\ \A i \in 1 .. Len(s) : Line(s)[i] = s[i].node
      /\ DOMAIN Line(t) = 1 .. Len(t) /\ \A i \in 1 .. Len(t) : Line(t)[i] = t[i].node
      /\ DOMAIN Line(q) = 1 .. Len(q) /\ \A i \in 1 .. Len(q) : Line(q)[i] = q[i].node
  BY <1>1 DEF Line
<1>4. Len(Line(s)) = Len(s) /\ Len(Line(t)) = Len(t) /\ Len(Line(q)) = Len(q)
  BY <1>1, <1>2, <1>3
<1>5. /\ r \in Seq(Nodes) /\ Len(r) = Len(s) + Len(t)
      /\ \A i \in 1 .. Len(s) + Len(t) :
           r[i] = IF i <= Len(s) THEN Line(s)[i] ELSE Line(t)[i - Len(s)]
  <2> DEFINE a == Line(s)
             b == Line(t)
  <2>1. a \in Seq(Nodes) /\ b \in Seq(Nodes) /\ Len(a) = Len(s) /\ Len(b) = Len(t)
    BY <1>2, <1>4
  <2> HIDE DEF a, b
  <2>2. /\ a \o b \in Seq(Nodes) /\ Len(a \o b) = Len(a) + Len(b)
        /\ \A i \in 1 .. Len(a) + Len(b) : (a \o b)[i] = IF i <= Len(a) THEN a[i] ELSE b[i - Len(a)]
    BY <2>1, ConcatProperties
  <2> QED  BY <2>1, <2>2 DEF a, b
<1> HIDE DEF r
<1>6. ASSUME NEW i \in 1 .. Len(q) PROVE Line(q)[i] = r[i]
  <2>1. CASE i <= Len(s)  BY <1>1, <1>3, <1>5, <2>1, SMTT(30)
  <2>2. CASE ~(i <= Len(s))
    <3>1. i - Len(s) \in 1 .. Len(t)  BY <1>1, <2>2
    <3> QED  BY <1>1, <1>3, <1>5, <2>2, <3>1
  <2> QED  BY <2>1, <2>2
<1>7. Line(q) = r  BY <1>1, <1>2, <1>4, <1>5, <1>6, SeqEqual
<1> QED  BY <1>7 DEF q, r

LEMMA PushedAre ==
  ASSUME NEW s \in Seq(Nodes), NEW d \in Nat
  PROVE  /\ Trees!Pushed(s, d) \in Seq(Items) /\ Line(Trees!Pushed(s, d)) = Trees!Solid[s]
         /\ \A i \in 1 .. Len(Trees!Pushed(s, d)) :
              Trees!Pushed(s, d)[i].depth = d /\ Trees!Pushed(s, d)[i].node = Trees!Solid[s][i]
         /\ Len(Trees!Pushed(s, d)) = Len(Trees!Solid[s])
<1> DEFINE t == Trees!Solid[s]
           p == Trees!Pushed(s, d)
<1>1. /\ t \in Seq(Nodes \ hollow) /\ Len(t) \in Nat /\ DOMAIN t = 1 .. Len(t)
      /\ \A i \in 1 .. Len(t) : t[i] \in Nodes \ hollow
  BY SolidIs, LenProperties
<1>2. p = [i \in DOMAIN t |-> [node |-> t[i], depth |-> d]]  BY DEF Trees!Pushed
<1> HIDE DEF t, p
<1>3. p \in [1 .. Len(t) -> Items]  BY <1>1, <1>2 DEF Items
<1>4. p \in Seq(Items) /\ Len(p) = Len(t)  BY <1>1, <1>3
<1>5. \A i \in 1 .. Len(t) : p[i].depth = d /\ p[i].node = t[i]  BY <1>1, <1>2
<1>6. Line(p) = t
  <2>1. Line(p) = [i \in 1 .. Len(t) |-> p[i].node]  BY <1>3 DEF Line
  <2>2. Line(p) = [i \in 1 .. Len(t) |-> t[i]]  BY <1>5, <2>1
  <2> QED  BY <1>1, <2>2
<1> QED  BY <1>4, <1>5, <1>6 DEF t, p

LEMMA SolidMembers ==
  ASSUME NEW S \in SUBSET Nodes
  PROVE  \A s \in Seq(S) : Trees!Solid[s] \in Seq(S)
<1> DEFINE P == {s \in Seq(S) : Trees!Solid[s] \in Seq(S)}
<1>1. <<>> \in P  BY EmptySeq, SolidIs
<1>2. ASSUME NEW s \in Seq(S), NEW x \in S, s \in P PROVE Append(s, x) \in P
  <2>1. s \in Seq(Nodes) /\ x \in Nodes /\ Append(s, x) \in Seq(S)
    BY SeqMonotonic, AppendProperties
  <2>2. Trees!Solid[Append(s, x)] = Own(x) \o Trees!Solid[s]  BY <2>1, SolidIs
  <2>3. Own(x) \in Seq(S)
    <3>1. <<>> \in Seq(S) /\ <<x>> \in Seq(S)  OBVIOUS
    <3> QED  BY <3>1 DEF Own
  <2>4. Own(x) \o Trees!Solid[s] \in Seq(S)  BY <1>2, <2>3, ConcatProperties
  <2> QED  BY <2>1, <2>2, <2>4
<1> HIDE DEF P
<1>3. Seq(S) \subseteq P  BY <1>1, <1>2, SequenceInduction
<1> QED  BY <1>3 DEF P

\* Items that stand for what is below a node.
StandFor(p, n) ==
  /\ p \in Seq(Items) /\ Back(Line(p)) = Trees!Preorder[n]
  /\ \A i \in 1 .. Len(p) : p[i].depth = Trees!Depth[p[i].node]

\* That is what is pushed when a node is visited: its children, one deeper than the node.
LEMMA KidsPushed ==
  ASSUME Grown, NEW n \in Nodes \cup {0}, NEW d \in Nat,
         \A k \in Nodes : parent[k] = n => Trees!Depth[k] = d
  PROVE  StandFor(Trees!Pushed(Trees!Kids(n), d), n)
<1> DEFINE S == {k \in Nodes : parent[k] = n}
           kids == Trees!Kids(n)
           p == Trees!Pushed(kids, d)
           t == Trees!Solid[kids]
<1>1. kids \in Seq(Nodes) /\ kids \in Seq(S)  BY KidsBelow, KidsAre
<1>2. /\ p \in Seq(Items) /\ Line(p) = t /\ Len(p) = Len(t)
      /\ \A i \in 1 .. Len(p) : p[i].depth = d /\ p[i].node = t[i]
  BY <1>1, PushedAre
<1>3. t \in Seq(S)  BY <1>1, SolidMembers
<1>4. Back(t) = Shown(kids) /\ Trees!Preorder[n] = Shown(kids)  BY <1>1, SolidBack, PreorderIs
<1> HIDE DEF p, t, S
<1>5. ASSUME NEW i \in 1 .. Len(p) PROVE p[i].depth = Trees!Depth[p[i].node]
  <2>1. t[i] \in S  BY <1>2, <1>3, ElementOfSeq
  <2>2. Trees!Depth[t[i]] = d  BY <2>1 DEF S
  <2> QED  BY <1>2, <2>2
<1> QED  BY <1>2, <1>4, <1>5 DEF StandFor, p

LEMMA TreeStart == Trees!Init => TreeInv
<1> SUFFICES ASSUME Trees!Init PROVE TreeInv  OBVIOUS
<1>1. Grown  BY DEF Trees!Init, Grown
<1>2. \A k \in Nodes : parent[k] = 0 => Trees!Depth[k] = 0  BY <1>1, DepthIs
<1>3. stack = Trees!Pushed(Trees!Kids(0), 0) /\ result = <<>>  BY DEF Trees!Init
<1>4. /\ stack \in Seq(Items) /\ Back(Line(stack)) = Trees!Preorder[0]
      /\ \A i \in 1 .. Len(stack) : stack[i].depth = Trees!Depth[stack[i].node]
  BY <1>1, <1>2, <1>3, KidsPushed DEF StandFor
<1>5. Trees!TypeOK
  <2>1. result \in Seq(Nodes)  BY <1>3, EmptySeq
  <2>2. node \in [Nodes -> TreeEntries]  BY DEF Trees!Init
  <2> QED  BY <1>1, <1>4, <2>1, <2>2 DEF Trees!TypeOK, Grown, Items
<1>6. Trees!Wanted = result \o Back(Line(stack))
  <2>1. Trees!Preorder[0] \in Seq(Nodes)  BY <1>1, PreorderIs
  <2> QED  BY <1>3, <1>4, <2>1, ConcatEmptySeq DEF Trees!Wanted
<1> QED  BY <1>1, <1>4, <1>5, <1>6 DEF TreeInv

\* What depends on the tree alone stays while the tree stays.
LEMMA Unmoved ==
  ASSUME UNCHANGED Trees!tree
  PROVE  /\ Trees!Depth' = Trees!Depth /\ Trees!Wanted' = Trees!Wanted
         /\ Back(Line(stack))' = Back(Line(stack'))
<1>1. UNCHANGED <<parent, hollow, node>>  BY DEF Trees!tree
<1>2. Trees!Depth' = Trees!Depth  BY <1>1 DEF Trees!Depth
<1>3. Trees!Preorder' = Trees!Preorder
  BY <1>1 DEF Trees!Depth, Trees!Preorder, Trees!Self, Trees!Kids, Trees!Ascending
<1>4. Back(Line(stack))' = Back(Line(stack'))
  BY <1>1, <1>2, <1>3 DEF Back, Line, Shown, Parts, Part, Trees!Self
<1> QED  BY <1>2, <1>3, <1>4 DEF Trees!Wanted

LEMMA TreeStep == TreeInv /\ [Trees!Next]_Trees!vars => TreeInv'
<1> SUFFICES ASSUME TreeInv, [Trees!Next]_Trees!vars PROVE TreeInv'  OBVIOUS
<1>0. Grown /\ Trees!TypeOK  BY DEF TreeInv
<1>1. CASE UNCHANGED Trees!vars
  <2>1. UNCHANGED Trees!tree /\ stack' = stack /\ result' = result  BY <1>1 DEF Trees!vars
  <2>2. UNCHANGED <<parent, hollow, node>>  BY <2>1 DEF Trees!tree
  <2> QED  BY <2>1, <2>2, Unmoved DEF TreeInv, Trees!TypeOK, Grown
<1>2. CASE Trees!Visit
  <2> DEFINE item == Trees!Last(stack)
             rest == Trees!Front(stack)
             n == item.node
             kids == Trees!Pushed(Trees!Kids(n), item.depth + 1)
  <2>1. stack # <<>> /\ UNCHANGED Trees!tree  BY <1>2 DEF Trees!Visit
  <2>2. UNCHANGED <<parent, hollow, node>>  BY <2>1 DEF Trees!tree
  <2>3. stack \in Seq(Items)  BY <1>0 DEF Trees!TypeOK, Items
  <2>4. /\ rest \in Seq(Items) /\ item \in Items /\ stack = Append(rest, item)
        /\ Len(rest) \in Nat /\ Len(stack) = Len(rest) + 1
    BY <2>1, <2>3, FrontLast
  <2>5. n \in Nodes /\ n \notin hollow /\ item.depth \in Nat  BY <2>4 DEF Items
  <2>6. \A i \in 1 .. Len(rest) : rest[i].depth = Trees!Depth[rest[i].node]
    <3>1. \A i \in 1 .. Len(rest) : stack[i] = rest[i] /\ i \in 1 .. Len(stack)
      BY <2>4, AppendProperties
    <3> QED  BY <3>1 DEF TreeInv
  <2>7. item.depth = Trees!Depth[n]
    <3>1. Len(stack) \in 1 .. Len(stack)  BY <2>4
    <3>2. item = stack[Len(stack)]  BY DEF Trees!Last
    <3> QED  BY <3>1, <3>2 DEF TreeInv
  <2>8. Line(rest) \in Seq(Nodes)  BY <2>4, LineType
  <2>9. Back(Line(stack)) = Part(n) \o Back(Line(rest))
    <3>1. <<item>> \in Seq(Items) /\ stack = rest \o <<item>>
      <4> HIDE DEF item, rest
      <4>1. stack = rest \o <<item>>  BY <2>4, AppendIsConcat
      <4>2. <<item>> \in Seq(Items)  BY <2>4
      <4> QED  BY <4>1, <4>2
    <3>2. Line(<<item>>) = <<n>>  BY DEF Line
    <3>3. Line(stack) = Append(Line(rest), n)
      <4>1. Line(stack) = Line(rest) \o <<n>>  BY <2>4, <3>1, <3>2, LineConcat
      <4> QED  BY <2>5, <2>8, <4>1, AppendIsConcat
    <3> QED  BY <1>0, <2>5, <2>8, <3>3, BackAppend
  <2>10. /\ Back(Line(rest)) \in Seq(Nodes) /\ Part(n) \in Seq(Nodes)
         /\ Trees!Self(n) \in Seq(Nodes) /\ Trees!Preorder[n] \in Seq(Nodes)
         /\ result \in Seq(Nodes)
    BY <1>0, <2>5, <2>8, BackType, PartType, SelfType, PreorderIs DEF Trees!TypeOK
  <2>11. Trees!Wanted = result \o (Part(n) \o Back(Line(rest)))  BY <2>9 DEF TreeInv
  <2> HIDE DEF item, rest, n, kids
  <2>12. /\ result' \in Seq(Nodes) /\ stack' \in Seq(Items)
         /\ \A i \in 1 .. Len(stack') : stack'[i].depth = Trees!Depth[stack'[i].node]
         /\ Trees!Wanted = result' \o Back(Line(stack'))
    <3>1. CASE item.depth > TreeDepth
      <4>1. stack' = rest /\ result' = result  BY <1>2, <3>1 DEF Trees!Visit, item, rest
      <4>2. Part(n) = <<>>  BY <1>0, <2>5, <2>7, <3>1, DeepPart
      <4>3. Trees!Wanted = result \o Back(Line(rest))
        BY <2>10, <2>11, <4>2, ConcatEmptySeq
      <4> QED  BY <2>4, <2>6, <2>10, <4>1, <4>3
    <3>2. CASE ~(item.depth > TreeDepth)
      <4>1. /\ result' = IF Trees!Malformed(node[n]) THEN result ELSE Append(result, n)
            /\ stack' = rest \o kids
        BY <1>2, <3>2 DEF Trees!Visit, item, rest, n, kids
      <4>2. \A k \in Nodes : parent[k] = n => Trees!Depth[k] = item.depth + 1
        <5>1. n # 0  BY <2>5, Numbers
        <5> QED  BY <1>0, <2>7, <5>1, DepthIs
      <4>3. /\ kids \in Seq(Items) /\ Back(Line(kids)) = Trees!Preorder[n]
            /\ \A i \in 1 .. Len(kids) : kids[i].depth = Trees!Depth[kids[i].node]
        <5> DEFINE d == item.depth + 1
        <5>1. d \in Nat /\ \A k \in Nodes : parent[k] = n => Trees!Depth[k] = d
          BY <2>5, <4>2
        <5>2. kids = Trees!Pushed(Trees!Kids(n), d)  BY DEF kids
        <5> HIDE DEF d
        <5>3. n \in Nodes \cup {0} /\ Grown  BY <1>0, <2>5
        <5>4. StandFor(kids, n)  BY <5>1, <5>2, <5>3, KidsPushed
        <5> QED  BY <5>4 DEF StandFor
      <4>4. result' = result \o Trees!Self(n)
        <5>1. Trees!Self(n) = IF Trees!Malformed(node[n]) THEN <<>> ELSE <<n>>
          BY <2>5, <2>7, <3>2 DEF Trees!Self
        <5> QED  BY <2>5, <2>10, <4>1, <5>1, AppendIsConcat, ConcatEmptySeq
      <4>5. Back(Line(stack')) = Trees!Preorder[n] \o Back(Line(rest))
        <5>1. Line(kids) \in Seq(Nodes) /\ Line(stack') = Line(rest) \o Line(kids)
          BY <2>4, <4>1, <4>3, LineType, LineConcat
        <5> QED  BY <1>0, <2>8, <4>3, <5>1, BackConcat
      <4>6. Trees!Wanted = result' \o Back(Line(stack'))
        <5> DEFINE r == result
                   s == Trees!Self(n)
                   p == Trees!Preorder[n]
                   b == Back(Line(rest))
        <5>1. /\ r \in Seq(Nodes) /\ s \in Seq(Nodes) /\ p \in Seq(Nodes) /\ b \in Seq(Nodes)
              /\ p \o b \in Seq(Nodes)
          BY <2>10, ConcatProperties
        <5>2. /\ Trees!Wanted = r \o ((s \o p) \o b) /\ result' = r \o s
              /\ Back(Line(stack')) = p \o b
          BY <2>11, <4>4, <4>5 DEF Part
        <5> HIDE DEF r, s, p, b
        <5>3. (s \o p) \o b = s \o (p \o b)  BY <5>1, ConcatAssociative
        <5>4. (r \o s) \o (p \o b) = r \o (s \o (p \o b))
          <6> DEFINE q == p \o b
          <6>1. q \in Seq(Nodes)  BY <5>1
          <6> HIDE DEF q
          <6>2. (r \o s) \o q = r \o (s \o q)  BY <5>1, <6>1, ConcatAssociative, SMTT(30)
          <6> QED  BY <6>2 DEF q
        <5> QED  BY <5>2, <5>3, <5>4
      <4>7. result' \in Seq(Nodes)  BY <2>10, <4>4, ConcatProperties
      <4>8. /\ stack' \in Seq(Items)
            /\ \A i \in 1 .. Len(stack') : stack'[i].depth = Trees!Depth[stack'[i].node]
        <5> DEFINE q == rest \o kids
        <5>1. /\ q \in Seq(Items) /\ Len(q) = Len(rest) + Len(kids) /\ Len(kids) \in Nat
              /\ \A i \in 1 .. Len(rest) + Len(kids) :
                   q[i] = IF i <= Len(rest) THEN rest[i] ELSE kids[i - Len(rest)]
          BY <2>4, <4>3, ConcatProperties, LenProperties
        <5> HIDE DEF q
        <5>2. ASSUME NEW i \in 1 .. Len(q) PROVE q[i].depth = Trees!Depth[q[i].node]
          <6>1. CASE i <= Len(rest)  BY <2>4, <2>6, <5>1, <6>1
          <6>2. CASE ~(i <= Len(rest))
            <7>1. i - Len(rest) \in 1 .. Len(kids)  BY <2>4, <5>1, <6>2
            <7> QED  BY <4>3, <5>1, <6>2, <7>1
          <6> QED  BY <6>1, <6>2
        <5> QED  BY <4>1, <5>1, <5>2 DEF q
      <4> QED  BY <4>6, <4>7, <4>8
    <3> QED  BY <3>1, <3>2
  <2>13. Trees!TypeOK'  BY <1>0, <2>2, <2>12 DEF Trees!TypeOK, Items
  <2>14. Grown'  BY <1>0, <2>2 DEF Grown
  <2> QED  BY <2>1, <2>12, <2>13, <2>14, Unmoved DEF TreeInv
<1> QED  BY <1>1, <1>2 DEF Trees!Next

LEMMA TreeShows == TreeInv => TreeInOrder
<1> SUFFICES ASSUME TreeInv PROVE TreeInOrder  OBVIOUS
<1> DEFINE w == Trees!Wanted
           b == Back(Line(stack))
           r == result
<1>1. r \in Seq(Nodes) /\ Grown /\ w = r \o b  BY DEF TreeInv, Trees!TypeOK
<1>2. stack \in Seq(Items)  BY DEF TreeInv, Trees!TypeOK, Items
<1>3. b \in Seq(Nodes)  BY <1>1, <1>2, LineType, BackType
<1>4. stack = <<>> => r = w
  <2>1. stack = <<>> => b = <<>>
    <3>1. Line(<<>>) = <<>>  BY DEF Line
    <3> QED  BY <3>1, BackNone
  <2> HIDE DEF b, r, w
  <2> QED  BY <1>1, <1>3, <2>1, ConcatEmptySeq
<1>5. Trees!IsPrefix(r, w)
  <2> HIDE DEF b, r, w
  <2>1. /\ w \in Seq(Nodes) /\ Len(w) = Len(r) + Len(b) /\ Len(r) \in Nat /\ Len(b) \in Nat
        /\ \A i \in 1 .. Len(r) + Len(b) : w[i] = IF i <= Len(r) THEN r[i] ELSE b[i - Len(r)]
    BY <1>1, <1>3, ConcatProperties, LenProperties
  <2>2. SubSeq(r, 1, Len(r)) = SubSeq(w, 1, Len(r))
    <3>1. \A i \in 1 .. Len(r) : r[i] \in Nodes /\ w[i] = r[i]  BY <1>1, <2>1
    <3>2. SubSeq(r, 1, Len(r)) = r  BY <1>1, SubSeqFull
    <3>3. /\ SubSeq(w, 1, Len(r)) \in Seq(Nodes)
          /\ Len(SubSeq(w, 1, Len(r))) = IF 1 <= Len(r) THEN Len(r) - 1 + 1 ELSE 0
          /\ \A i \in 1 .. Len(r) - 1 + 1 : SubSeq(w, 1, Len(r))[i] = w[1 + i - 1]
      BY <2>1, <3>1, SubSeqProperties
    <3>4. Len(SubSeq(w, 1, Len(r))) = Len(r)  BY <2>1, <3>3
    <3>5. \A i \in 1 .. Len(r) : SubSeq(w, 1, Len(r))[i] = r[i]  BY <2>1, <3>1, <3>3
    <3>6. SubSeq(w, 1, Len(r)) = r  BY <1>1, <3>3, <3>4, <3>5, SeqEqual
    <3> QED  BY <3>2, <3>6
  <2> QED  BY <2>1, <2>2 DEF Trees!IsPrefix
<1> HIDE DEF w, b, r
<1> QED  BY <1>4, <1>5 DEF TreeInOrder, Trees!TreeInOrder, TreeInv, w, r

\* For every tree of entries, and every limit on the nodes and the depth, the list a client gets is
\* the tree in preorder as far as it goes, and the whole of it when the loop ran out of nodes
\* (serializeSessionTreeNodes of command-router.ts).
THEOREM TreeInOrderHolds == Trees!Spec => []TreeInOrder
<1>1. Trees!Spec => []TreeInv  BY TreeStart, TreeStep, PTL DEF Trees!Spec
<1> QED  BY <1>1, TreeShows, PTL
-----------------------------------------------------------------------------
(* The history *)

LEMMA SameEnds ==
  ASSUME NEW s
  PROVE  History!Front(s) = Trees!Front(s) /\ History!Last(s) = Trees!Last(s)
BY DEF History!Front, Trees!Front, History!Last, Trees!Last

\* The newline that a piece ends at.
LEMMA NewlinesAre ==
  ASSUME NEW s \in Seq(Int)
  PROVE  /\ History!Newlines(s) \in SUBSET Nat /\ IsFiniteSet(History!Newlines(s))
         /\ \A i \in History!Newlines(s) : i \in 1 .. Len(s) /\ s[i] = 0
         /\ \A i \in 1 .. Len(s) : s[i] = 0 => i \in History!Newlines(s)
<1>1. Len(s) \in Nat  OBVIOUS
<1>2. IsFiniteSet(1 .. Len(s))  BY <1>1, FS_Interval
<1>3. History!Newlines(s) \subseteq 1 .. Len(s)  BY DEF History!Newlines
<1>4. IsFiniteSet(History!Newlines(s))  BY <1>2, <1>3, FS_Subset
<1> QED  BY <1>1, <1>3, <1>4 DEF History!Newlines, History!Newline

LEMMA MaxIs ==
  ASSUME NEW S \in SUBSET Nat, NEW m \in S, \A n \in S : n <= m
  PROVE  History!Max(S) = m
<1> DEFINE W(x) == \A y \in S : x >= y
           c == CHOOSE x \in S : W(x)
<1>1. W(m)  OBVIOUS
<1>2. c \in S /\ W(c)
  <2> HIDE DEF W
  <2> QED  BY <1>1
<1>3. c >= m /\ c <= m /\ c \in Nat /\ m \in Nat  BY <1>2
<1> HIDE DEF c
<1>4. c = m  BY <1>3
<1> QED  BY <1>4 DEF c, History!Max

\* A piece, a newline, and what is before it.
Joined(u, t) == u \o (<<0>> \o t)

LEMMA Regrouped ==
  ASSUME NEW f \in Seq(Int), NEW g \in Seq(Int), NEW h \in Seq(Int)
  PROVE  (f \o g) \o h = f \o (g \o h)
BY ConcatAssociative, SMTT(30)

LEMMA JoinedIs ==
  ASSUME NEW u \in Seq(Int), NEW t \in Seq(Int)
  PROVE  /\ Joined(u, t) \in Seq(Int) /\ Len(Joined(u, t)) = Len(u) + 1 + Len(t)
         /\ Len(u) \in Nat /\ Len(t) \in Nat
         /\ \A i \in 1 .. Len(u) : Joined(u, t)[i] = u[i]
         /\ Joined(u, t)[Len(u) + 1] = 0
         /\ \A i \in 1 .. Len(t) : Joined(u, t)[Len(u) + 1 + i] = t[i]
<1> DEFINE z == <<0>>
           w == z \o t
           r == u \o w
<1>1. z \in Seq(Int) /\ Len(z) = 1 /\ z[1] = 0  OBVIOUS
<1>2. Len(u) \in Nat /\ Len(t) \in Nat  OBVIOUS
<1> HIDE DEF z
<1>3. /\ w \in Seq(Int) /\ Len(w) = 1 + Len(t)
      /\ \A i \in 1 .. 1 + Len(t) : w[i] = IF i <= 1 THEN z[i] ELSE t[i - 1]
  <2>1. /\ z \o t \in Seq(Int) /\ Len(z \o t) = Len(z) + Len(t)
        /\ \A i \in 1 .. Len(z) + Len(t) : (z \o t)[i] = IF i <= Len(z) THEN z[i] ELSE t[i - Len(z)]
    BY <1>1, ConcatProperties
  <2> QED  BY <1>1, <2>1
<1> HIDE DEF w
<1>4. /\ r \in Seq(Int) /\ Len(r) = Len(u) + Len(w)
      /\ \A i \in 1 .. Len(u) + Len(w) : r[i] = IF i <= Len(u) THEN u[i] ELSE w[i - Len(u)]
  BY <1>3, ConcatProperties
<1> HIDE DEF r
<1>5. Joined(u, t) = r  BY DEF Joined, r, w, z
<1>6. \A i \in 1 .. Len(u) : r[i] = u[i]  BY <1>2, <1>3, <1>4, SMTT(30)
<1>7. r[Len(u) + 1] = 0
  <2>1. /\ Len(u) + 1 \in 1 .. Len(u) + Len(w) /\ ~(Len(u) + 1 <= Len(u))
        /\ Len(u) + 1 - Len(u) = 1 /\ 1 \in 1 .. 1 + Len(t) /\ 1 <= 1
    BY <1>2, <1>3
  <2>2. r[Len(u) + 1] = w[1]  BY <1>4, <2>1
  <2> QED  BY <1>1, <1>3, <2>1, <2>2
<1>8. ASSUME NEW i \in 1 .. Len(t) PROVE r[Len(u) + 1 + i] = t[i]
  <2>1. /\ Len(u) + 1 + i \in 1 .. Len(u) + Len(w) /\ ~(Len(u) + 1 + i <= Len(u))
        /\ Len(u) + 1 + i - Len(u) = 1 + i /\ 1 + i \in 1 .. 1 + Len(t) /\ ~(1 + i <= 1)
        /\ 1 + i - 1 = i
    BY <1>2, <1>3
  <2>2. r[Len(u) + 1 + i] = w[1 + i]  BY <1>4, <2>1
  <2>3. w[1 + i] = t[1 + i - 1]
    <3>1. ASSUME NEW k \in 1 .. 1 + Len(t), ~(k <= 1) PROVE w[k] = t[k - 1]  BY <1>3, <3>1
    <3> QED  BY <2>1, <3>1
  <2> QED  BY <2>1, <2>2, <2>3
<1> QED  BY <1>2, <1>3, <1>4, <1>5, <1>6, <1>7, <1>8

LEMMA PartOf ==
  ASSUME NEW S, NEW s \in Seq(S), NEW m \in Nat \ {0}, NEW n \in Nat, n <= Len(s), m <= n + 1
  PROVE  /\ SubSeq(s, m, n) \in Seq(S) /\ Len(SubSeq(s, m, n)) = n - m + 1
         /\ \A i \in 1 .. n - m + 1 : SubSeq(s, m, n)[i] = s[m + i - 1]
<1>1. Len(s) \in Nat  OBVIOUS
<1>2. \A i \in m .. n : s[i] \in S  BY <1>1
<1>3. /\ SubSeq(s, m, n) \in Seq(S)
      /\ Len(SubSeq(s, m, n)) = IF m <= n THEN n - m + 1 ELSE 0
      /\ \A i \in 1 .. n - m + 1 : SubSeq(s, m, n)[i] = s[m + i - 1]
  BY <1>2, SubSeqProperties
<1>4. ~(m <= n) => n - m + 1 = 0  OBVIOUS
<1> QED  BY <1>3, <1>4

\* What is cut at its last newline: what is before it, and what is after it.
LEMMA Cut ==
  ASSUME NEW s \in Seq(Int), History!Newlines(s) # {}
  PROVE  LET end == History!Max(History!Newlines(s))
             u == SubSeq(s, 1, end - 1)
             t == SubSeq(s, end + 1, Len(s))
         IN /\ end \in 1 .. Len(s) /\ u \in Seq(Int) /\ t \in Seq(Int)
            /\ Len(u) < Len(s) /\ s = Joined(u, t) /\ History!Newlines(t) = {}
<1> DEFINE N == History!Newlines(s)
           end == History!Max(N)
           u == SubSeq(s, 1, end - 1)
           t == SubSeq(s, end + 1, Len(s))
<1>1. /\ N \in SUBSET Nat /\ IsFiniteSet(N) /\ N # {}
      /\ \A i \in N : i \in 1 .. Len(s) /\ s[i] = 0
      /\ \A i \in 1 .. Len(s) : s[i] = 0 => i \in N
  BY NewlinesAre
<1> HIDE DEF N
<1>2. PICK m \in N : \A n \in N : n <= m  BY <1>1, Greatest
<1>3. end = m  BY <1>1, <1>2, MaxIs
<1> HIDE DEF end
<1>4. end \in 1 .. Len(s) /\ s[end] = 0 /\ \A n \in N : n <= end  BY <1>1, <1>2, <1>3
<1>5. Len(s) \in Nat  OBVIOUS
<1>6. /\ u \in Seq(Int) /\ Len(u) = end - 1 /\ \A i \in 1 .. end - 1 : u[i] = s[i]
  <2>1. /\ 1 \in Nat \ {0} /\ end - 1 \in Nat /\ end - 1 <= Len(s) /\ 1 <= end - 1 + 1
        /\ end - 1 - 1 + 1 = end - 1 /\ \A i \in 1 .. end - 1 : 1 + i - 1 = i
    BY <1>4, <1>5
  <2>2. /\ SubSeq(s, 1, end - 1) \in Seq(Int) /\ Len(SubSeq(s, 1, end - 1)) = end - 1 - 1 + 1
        /\ \A i \in 1 .. end - 1 - 1 + 1 : SubSeq(s, 1, end - 1)[i] = s[1 + i - 1]
    BY <2>1, PartOf
  <2> QED  BY <2>1, <2>2
<1>7. /\ t \in Seq(Int) /\ Len(t) = Len(s) - end /\ \A i \in 1 .. Len(s) - end : t[i] = s[end + i]
  <2>1. /\ end + 1 \in Nat \ {0} /\ Len(s) <= Len(s) /\ end + 1 <= Len(s) + 1
        /\ Len(s) - (end + 1) + 1 = Len(s) - end
        /\ \A i \in 1 .. Len(s) - end : end + 1 + i - 1 = end + i
    BY <1>4, <1>5
  <2>2. /\ SubSeq(s, end + 1, Len(s)) \in Seq(Int)
        /\ Len(SubSeq(s, end + 1, Len(s))) = Len(s) - (end + 1) + 1
        /\ \A i \in 1 .. Len(s) - (end + 1) + 1 : SubSeq(s, end + 1, Len(s))[i] = s[end + 1 + i - 1]
    BY <1>5, <2>1, PartOf
  <2> QED  BY <2>1, <2>2
<1> HIDE DEF u, t
<1>8. Joined(u, t) = s
  <2> DEFINE j == Joined(u, t)
  <2>1. /\ j \in Seq(Int) /\ Len(j) = end - 1 + 1 + (Len(s) - end)
        /\ \A i \in 1 .. end - 1 : j[i] = u[i]
        /\ j[end - 1 + 1] = 0 /\ \A i \in 1 .. Len(s) - end : j[end - 1 + 1 + i] = t[i]
    <3>1. /\ Joined(u, t) \in Seq(Int) /\ Len(Joined(u, t)) = Len(u) + 1 + Len(t)
          /\ \A i \in 1 .. Len(u) : Joined(u, t)[i] = u[i]
          /\ Joined(u, t)[Len(u) + 1] = 0
          /\ \A i \in 1 .. Len(t) : Joined(u, t)[Len(u) + 1 + i] = t[i]
      BY <1>6, <1>7, JoinedIs
    <3> QED  BY <1>6, <1>7, <3>1
  <2> HIDE DEF j
  <2>2. Len(j) = Len(s) /\ end - 1 + 1 = end  BY <1>4, <1>5, <2>1
  <2>3. ASSUME NEW i \in 1 .. Len(j) PROVE j[i] = s[i]
    <3>1. CASE i < end
      <4>1. i \in 1 .. end - 1  BY <1>4, <3>1
      <4> QED  BY <1>6, <2>1, <4>1
    <3>2. CASE i = end  BY <1>4, <2>1, <2>2, <3>2
    <3>3. CASE i > end
      <4>1. i - end \in 1 .. Len(s) - end /\ end + (i - end) = i  BY <1>4, <1>5, <2>2, <3>3
      <4>2. j[end + (i - end)] = t[i - end]  BY <2>1, <2>2, <4>1
      <4>3. t[i - end] = s[end + (i - end)]  BY <1>7, <4>1
      <4> QED  BY <4>1, <4>2, <4>3
    <3> QED  BY <1>4, <3>1, <3>2, <3>3
  <2>4. j = s  BY <2>1, <2>2, <2>3, SeqEqual
  <2> QED  BY <2>4 DEF j
<1>9. History!Newlines(t) = {}
  <2> SUFFICES ASSUME NEW i \in History!Newlines(t) PROVE FALSE  OBVIOUS
  <2>1. i \in 1 .. Len(t) /\ t[i] = 0  BY <1>7, NewlinesAre
  <2>2. i \in 1 .. Len(s) - end /\ s[end + i] = 0  BY <1>7, <2>1
  <2>3. end + i \in 1 .. Len(s)  BY <1>4, <1>5, <2>2
  <2>4. end + i \in N  BY <1>1, <2>2, <2>3
  <2> QED  BY <1>4, <2>2, <2>4
<1>10. Len(u) < Len(s)  BY <1>4, <1>5, <1>6
<1> QED  BY <1>4, <1>6, <1>7, <1>8, <1>9, <1>10 DEF end, u, t, N

LEMMA PiecesAre ==
  \A s \in Seq(Int) :
    /\ History!Pieces[s] \in Seq(Seq(Int)) /\ History!Pieces[s] # <<>>
    /\ History!Pieces[s] =
         IF History!Newlines(s) = {} THEN <<s>>
         ELSE LET end == History!Max(History!Newlines(s))
              IN <<SubSeq(s, end + 1, Len(s))>> \o History!Pieces[SubSeq(s, 1, end - 1)]
<1> DEFINE D == Seq(Int)
           T == {q \in Seq(D) : q # <<>>}
           rank == [s \in D |-> Len(s)]
           Top(s) == SubSeq(s, History!Max(History!Newlines(s)) + 1, Len(s))
           Low(s) == SubSeq(s, 1, History!Max(History!Newlines(s)) - 1)
           G == [p \in D \X [D -> T] |->
                   IF History!Newlines(p[1]) = {} THEN <<p[1]>>
                   ELSE <<Top(p[1])>> \o p[2][Low(p[1])]]
           Eqn(f) == f = [s \in D |-> IF History!Newlines(s) = {} THEN <<s>>
                                      ELSE <<Top(s)>> \o f[Low(s)]]
           F == CHOOSE f : Eqn(f)
<1>1. rank \in [D -> Nat]  BY LenProperties
<1>2. \A s \in D : History!Newlines(s) # {} =>
        Top(s) \in D /\ Low(s) \in D /\ rank[Low(s)] < rank[s]
  BY Cut
<1>3. \A s \in D : <<s>> \in T /\ \A q \in T : <<s>> \o q \in T
  <2> SUFFICES ASSUME NEW s \in D PROVE <<s>> \in T /\ \A q \in T : <<s>> \o q \in T  OBVIOUS
  <2> DEFINE z == <<s>>
  <2> HIDE DEF D
  <2>1. z \in Seq(D) /\ z # <<>>  OBVIOUS
  <2> HIDE DEF z
  <2>2. \A q \in Seq(D) : z \o q \in Seq(D) /\ z \o q # <<>>
    BY <2>1, ConcatProperties, ConcatEqualIffEmpty
  <2> QED  BY <2>1, <2>2 DEF z
<1>4. T # {}
  <2>1. <<>> \in D  BY EmptySeq
  <2> QED  BY <1>3, <2>1
<1> HIDE DEF D, T, rank, Top, Low
<1>5. IsRule(D, T, rank, G)
  <2>1. ASSUME NEW s \in D, NEW f \in [D -> T] PROVE G[<<s, f>>] \in T
    BY <1>2, <1>3
  <2>2. ASSUME NEW s \in D, NEW f \in [D -> T], NEW g \in [D -> T],
               \A t \in D : rank[t] < rank[s] => f[t] = g[t]
        PROVE  G[<<s, f>>] = G[<<s, g>>]
    BY <1>2, <2>2
  <2> HIDE DEF G
  <2> QED  BY <1>1, <1>4, <2>1, <2>2 DEF IsRule
<1>6. PICK f : f \in [D -> T] /\ \A s \in D : f[s] = G[<<s, f>>]
  <2> HIDE DEF G
  <2> QED  BY <1>5, Recursion DEF Follows
<1>7. Eqn(f)  BY <1>6
<1>8. Eqn(F)  BY <1>7
<1>9. History!Pieces = F  BY DEF History!Pieces, D, Top, Low
<1> HIDE DEF F
<1>10. \A s \in D : F[s] = IF History!Newlines(s) = {} THEN <<s>> ELSE <<Top(s)>> \o F[Low(s)]
  BY <1>8
<1>11. \A s \in D : F[s] \in T
  <2> DEFINE P == {s \in D : F[s] \in T}
  <2>1. ASSUME NEW s \in D, \A t \in D : rank[t] < rank[s] => t \in P PROVE s \in P
    BY <1>2, <1>3, <1>10, <2>1
  <2> HIDE DEF P
  <2>2. D \subseteq P  BY <1>1, <2>1, Induction
  <2> QED  BY <2>2 DEF P
<1> QED  BY <1>9, <1>10, <1>11 DEF D, T, Top, Low

LEMMA OnePiece ==
  ASSUME NEW s \in Seq(Int), History!Newlines(s) = {}
  PROVE  History!Pieces[s] = <<s>>
BY PiecesAre

\* The last newline of a sequence cuts off the first of its pieces.
LEMMA JoinedPieces ==
  ASSUME NEW u \in Seq(Int), NEW t \in Seq(Int), History!Newlines(t) = {}
  PROVE  History!Pieces[Joined(u, t)] = <<t>> \o History!Pieces[u]
<1> DEFINE s == Joined(u, t)
           c == Len(u) + 1
           N == History!Newlines(s)
<1>1. /\ s \in Seq(Int) /\ Len(s) = Len(u) + 1 + Len(t) /\ Len(u) \in Nat /\ Len(t) \in Nat
      /\ \A i \in 1 .. Len(u) : s[i] = u[i]
      /\ s[Len(u) + 1] = 0 /\ \A i \in 1 .. Len(t) : s[Len(u) + 1 + i] = t[i]
  BY JoinedIs
<1> HIDE DEF s
<1>2. /\ N \in SUBSET Nat /\ \A i \in N : i \in 1 .. Len(s) /\ s[i] = 0
      /\ \A i \in 1 .. Len(s) : s[i] = 0 => i \in N
  BY <1>1, NewlinesAre
<1> HIDE DEF N
<1>3. c \in N  BY <1>1, <1>2
<1>4. ASSUME NEW n \in N, ~(n <= c) PROVE FALSE
  <2>1. n - c \in 1 .. Len(t) /\ c + (n - c) = n  BY <1>1, <1>2, <1>4
  <2>2. t[n - c] = 0  BY <1>1, <1>2, <2>1
  <2>3. n - c \in History!Newlines(t)  BY <2>1, <2>2, NewlinesAre
  <2> QED  BY <2>3
<1>5. History!Max(N) = c  BY <1>2, <1>3, <1>4, MaxIs
<1>6. SubSeq(s, 1, c - 1) = u
  <2>1. /\ 1 \in Nat \ {0} /\ c - 1 \in Nat /\ c - 1 <= Len(s) /\ 1 <= c - 1 + 1
        /\ c - 1 - 1 + 1 = Len(u) /\ \A i \in 1 .. Len(u) : 1 + i - 1 = i
    BY <1>1
  <2>2. /\ SubSeq(s, 1, c - 1) \in Seq(Int) /\ Len(SubSeq(s, 1, c - 1)) = c - 1 - 1 + 1
        /\ \A i \in 1 .. c - 1 - 1 + 1 : SubSeq(s, 1, c - 1)[i] = s[1 + i - 1]
    BY <1>1, <2>1, PartOf
  <2>3. Len(SubSeq(s, 1, c - 1)) = Len(u) /\ \A i \in 1 .. Len(u) : SubSeq(s, 1, c - 1)[i] = u[i]
    BY <1>1, <2>1, <2>2
  <2> HIDE DEF c
  <2> QED  BY <2>2, <2>3, SeqEqual
<1>7. SubSeq(s, c + 1, Len(s)) = t
  <2>1. /\ c + 1 \in Nat \ {0} /\ Len(s) \in Nat /\ Len(s) <= Len(s) /\ c + 1 <= Len(s) + 1
        /\ Len(s) - (c + 1) + 1 = Len(t)
        /\ \A i \in 1 .. Len(t) : c + 1 + i - 1 = Len(u) + 1 + i
    BY <1>1
  <2>2. /\ SubSeq(s, c + 1, Len(s)) \in Seq(Int)
        /\ Len(SubSeq(s, c + 1, Len(s))) = Len(s) - (c + 1) + 1
        /\ \A i \in 1 .. Len(s) - (c + 1) + 1 : SubSeq(s, c + 1, Len(s))[i] = s[c + 1 + i - 1]
    BY <1>1, <2>1, PartOf
  <2>3. /\ Len(SubSeq(s, c + 1, Len(s))) = Len(t)
        /\ \A i \in 1 .. Len(t) : SubSeq(s, c + 1, Len(s))[i] = t[i]
    BY <1>1, <2>1, <2>2
  <2> HIDE DEF c
  <2> QED  BY <2>2, <2>3, SeqEqual
<1>8. N # {}  BY <1>3
<1> HIDE DEF c
<1>9. History!Pieces[s] = <<SubSeq(s, c + 1, Len(s))>> \o History!Pieces[SubSeq(s, 1, c - 1)]
  BY <1>1, <1>5, <1>8, PiecesAre DEF N
<1> QED  BY <1>6, <1>7, <1>9 DEF s

\* Cut before or after it is put together, a sequence falls into the same pieces: all that a part
\* of it falls into are final but the last, which what comes before may go on into.
LEMMA PiecesConcat ==
  ASSUME NEW a \in Seq(Int)
  PROVE  \A b \in Seq(Int) :
           History!Pieces[a \o b]
             = Trees!Front(History!Pieces[b]) \o History!Pieces[a \o Trees!Last(History!Pieces[b])]
<1> DEFINE D == Seq(Int)
           B == Seq(D)
           rank == [b \in D |-> Len(b)]
           Splits(b) == History!Pieces[a \o b]
             = Trees!Front(History!Pieces[b]) \o History!Pieces[a \o Trees!Last(History!Pieces[b])]
           P == {b \in D : Splits(b)}
<1>1. rank \in [D -> Nat]  BY LenProperties
<1>2. ASSUME NEW b \in D, \A c \in D : rank[c] < rank[b] => c \in P PROVE b \in P
  <2>1. a \o b \in D /\ History!Pieces[a \o b] \in B  BY ConcatProperties, PiecesAre
  <2>2. CASE History!Newlines(b) = {}
    <3>1. History!Pieces[b] = <<b>>  BY <2>2, OnePiece
    <3>2. Trees!Front(<<b>>) = <<>> /\ Trees!Last(<<b>>) = b
      <4>1. <<b>> = Append(<<>>, b) /\ <<>> \in B  BY EmptySeq
      <4> QED  BY <4>1, LastAppended
    <3>3. Splits(b)
      <4> DEFINE q == History!Pieces[a \o b]
      <4>1. <<>> \o q = q
        <5> HIDE DEF q
        <5> QED  BY <2>1, ConcatEmptySeq DEF q
      <4> QED  BY <3>1, <3>2, <4>1
    <3> QED  BY <3>3
  <2>3. CASE History!Newlines(b) # {}
    <3>1. PICK u \in D, t \in D : Len(u) < Len(b) /\ b = Joined(u, t) /\ History!Newlines(t) = {}
      BY <2>3, Cut
    <3>2. Splits(u)  BY <1>2, <3>1
    <3> DEFINE z == <<t>>
               w == History!Pieces[u]
               f == Trees!Front(w)
               l == Trees!Last(w)
               v == History!Pieces[a \o l]
    <3>3. z \in B /\ w \in B /\ w # <<>>
      <4>1. w \in B /\ w # <<>>  BY PiecesAre
      <4>2. z \in B
        <5> HIDE DEF D
        <5> QED  OBVIOUS
      <4> QED  BY <4>1, <4>2
    <3>4. f \in B /\ l \in D /\ w = Append(f, l)  BY <3>3, FrontLast
    <3>5. v \in B
      <4>1. a \o l \in D  BY <3>4, ConcatProperties
      <4> QED  BY <4>1, PiecesAre
    <3>6. History!Pieces[b] = z \o w  BY <3>1, JoinedPieces
    <3>7. a \o b = Joined(a \o u, t) /\ a \o u \in D
      <4>1. <<0>> \o t \in D /\ a \o u \in D
        <5>1. <<0>> \in D  OBVIOUS
        <5> QED  BY <5>1, ConcatProperties
      <4>2. (a \o u) \o (<<0>> \o t) = a \o (u \o (<<0>> \o t))
        <5> DEFINE y == <<0>> \o t
        <5>1. y \in Seq(Int)  BY <4>1
        <5> HIDE DEF y
        <5>2. a \in Seq(Int) /\ u \in Seq(Int)  OBVIOUS
        <5> HIDE DEF D
        <5>3. (a \o u) \o y = a \o (u \o y)  BY <5>1, <5>2, Regrouped
        <5> QED  BY <5>3 DEF y
      <4> QED  BY <3>1, <4>1, <4>2 DEF Joined
    <3>8. History!Pieces[a \o b] = z \o History!Pieces[a \o u]  BY <3>1, <3>7, JoinedPieces
    <3>9. History!Pieces[a \o u] = f \o v  BY <3>2
    <3> HIDE DEF z, f, l, v, w, D
    <3>10. z \o w = Append(z \o f, l)
      <4>1. <<l>> \in B /\ w = f \o <<l>>  BY <3>4, AppendIsConcat
      <4>2. (z \o f) \o <<l>> = z \o (f \o <<l>>)  BY <3>3, <3>4, <4>1, ConcatAssociative
      <4>3. z \o f \in B  BY <3>3, <3>4, ConcatProperties
      <4>4. Append(z \o f, l) = (z \o f) \o <<l>>  BY <3>4, <4>3, AppendIsConcat
      <4> QED  BY <4>1, <4>2, <4>4
    <3>11. Trees!Front(z \o w) = z \o f /\ Trees!Last(z \o w) = l
      <4> DEFINE g == z \o f
      <4>1. g \in B  BY <3>3, <3>4, ConcatProperties
      <4> HIDE DEF g
      <4>2. Trees!Front(Append(g, l)) = g /\ Trees!Last(Append(g, l)) = l
        BY <3>4, <4>1, LastAppended
      <4> QED  BY <3>10, <4>2 DEF g
    <3>12. z \o (f \o v) = (z \o f) \o v  BY <3>3, <3>4, <3>5, ConcatAssociative, SMTT(30)
    <3>13. Splits(b)  BY <3>6, <3>8, <3>9, <3>11, <3>12 DEF v
    <3> QED  BY <3>13
  <2> QED  BY <2>2, <2>3
<1> HIDE DEF P, D, rank
<1>3. D \subseteq P  BY <1>1, <1>2, Induction
<1> QED  BY <1>3 DEF P, D

\* The members of a sequence at some of its places.
Selects(f, S, s, q) ==
  /\ f \in [0 .. Len(s) -> Seq(S)] /\ History!Selected(s, q) = f[Len(s)]
  /\ \A i \in 0 .. Len(s) :
       f[i] = IF i = 0 THEN <<>> ELSE IF i \in q THEN Append(f[i - 1], s[i]) ELSE f[i - 1]

LEMMA SelectedFunction ==
  ASSUME NEW S, NEW s \in Seq(S), NEW q
  PROVE  \E f : Selects(f, S, s, q)
<1> DEFINE D == 0 .. Len(s)
           T == Seq(S)
           rank == [i \in D |-> i]
           G == [p \in D \X [D -> T] |->
                   IF p[1] = 0 THEN <<>>
                   ELSE IF p[1] \in q THEN Append(p[2][p[1] - 1], s[p[1]]) ELSE p[2][p[1] - 1]]
           Eqn(f) == f = [i \in D |-> IF i = 0 THEN <<>> ELSE IF i \in q THEN Append(f[i - 1], s[i])
                                                             ELSE f[i - 1]]
           F == CHOOSE f : Eqn(f)
<1>0. Len(s) \in Nat /\ \A i \in D : i # 0 => s[i] \in S  BY LenProperties
<1>1. T # {} /\ <<>> \in T /\ rank \in [D -> Nat]  BY <1>0, EmptySeq
<1>2. \A i \in D : i # 0 => i - 1 \in D /\ rank[i - 1] < rank[i]  BY <1>0
<1>3. \A t \in T, x \in S : Append(t, x) \in T  BY AppendProperties
<1> HIDE DEF rank, T, D
<1>4. PICK f : f \in [D -> T] /\ \A i \in D : f[i] = G[<<i, f>>]
  <2>1. ASSUME NEW i \in D, NEW f \in [D -> T] PROVE G[<<i, f>>] \in T
    BY <1>0, <1>1, <1>2, <1>3
  <2>2. ASSUME NEW i \in D, NEW f \in [D -> T], NEW g \in [D -> T],
               \A j \in D : rank[j] < rank[i] => f[j] = g[j]
        PROVE  G[<<i, f>>] = G[<<i, g>>]
    BY <1>2, <2>2
  <2> HIDE DEF G
  <2>3. IsRule(D, T, rank, G)  BY <1>1, <2>1, <2>2 DEF IsRule
  <2> QED  BY <2>3, Recursion DEF Follows
<1>5. Eqn(f)  BY <1>4
<1>6. Eqn(F)  BY <1>5
<1>7. History!Selected(s, q) = F[Len(s)]  BY DEF History!Selected, D
<1> HIDE DEF F
<1>8. \A i \in D : F[i] = IF i = 0 THEN <<>> ELSE IF i \in q THEN Append(F[i - 1], s[i])
                                             ELSE F[i - 1]
  BY <1>6
<1>9. F \in [D -> T]
  <2> DEFINE P == {i \in D : F[i] \in T}
  <2>1. ASSUME NEW i \in D, \A j \in D : rank[j] < rank[i] => j \in P PROVE i \in P
    BY <1>0, <1>1, <1>2, <1>3, <1>8, <2>1
  <2> HIDE DEF P
  <2>2. D \subseteq P  BY <1>1, <2>1, Induction
  <2>3. \A i \in D : F[i] \in T  BY <2>2 DEF P
  <2> QED  BY <1>6, <2>3
<1> QED  BY <1>7, <1>8, <1>9 DEF T, D, Selects

LEMMA SelectedType ==
  ASSUME NEW S, NEW s \in Seq(S), NEW q
  PROVE  History!Selected(s, q) \in Seq(S)
<1>1. Len(s) \in 0 .. Len(s)  BY LenProperties
<1> QED  BY <1>1, SelectedFunction DEF Selects

LEMMA SelectedNone ==
  ASSUME NEW q
  PROVE  History!Selected(<<>>, q) = <<>>
<1>1. <<>> \in Seq({}) /\ Len(<<>>) = 0  BY EmptySeq
<1>2. History!Selected(<<>>, q) \in Seq({})  BY <1>1, SelectedType
<1> QED  BY <1>2, EmptySeq, ElementOfSeq

LEMMA SelectedAppend ==
  ASSUME NEW S, NEW s \in Seq(S), NEW x \in S, NEW p, NEW q,
         \A i \in 1 .. Len(s) : i \in p <=> i \in q
  PROVE  History!Selected(Append(s, x), q)
           = IF Len(s) + 1 \in q THEN Append(History!Selected(s, p), x) ELSE History!Selected(s, p)
<1> DEFINE r == Append(s, x)
           D == 0 .. Len(s)
           rank == [i \in D |-> i]
<1>1. /\ r \in Seq(S) /\ Len(r) = Len(s) + 1 /\ Len(s) \in Nat /\ r[Len(s) + 1] = x
      /\ \A i \in 1 .. Len(s) : r[i] = s[i]
  BY AppendProperties, LenProperties
<1> HIDE DEF r
<1>2. PICK f : Selects(f, S, s, p)  BY SelectedFunction
<1>3. PICK g : Selects(g, S, r, q)  BY <1>1, SelectedFunction
<1> DEFINE P == {i \in D : f[i] = g[i]}
<1>4. rank \in [D -> Nat]  BY <1>1
<1>5. ASSUME NEW i \in D, \A j \in D : rank[j] < rank[i] => j \in P PROVE i \in P
  <2>1. i \in 0 .. Len(r)  BY <1>1
  <2>2. CASE i = 0  BY <1>2, <1>3, <2>1, <2>2 DEF Selects
  <2>3. CASE i # 0
    <3>1. i - 1 \in D /\ rank[i - 1] < rank[i] /\ i \in 1 .. Len(s)  BY <1>1, <2>3
    <3>2. f[i - 1] = g[i - 1] /\ r[i] = s[i] /\ (i \in p <=> i \in q)  BY <1>1, <1>5, <3>1
    <3>3. f[i] = IF i \in p THEN Append(f[i - 1], s[i]) ELSE f[i - 1]
      BY <1>2, <2>3 DEF Selects
    <3>4. g[i] = IF i \in q THEN Append(g[i - 1], r[i]) ELSE g[i - 1]
      BY <1>3, <2>1, <2>3 DEF Selects
    <3> QED  BY <3>2, <3>3, <3>4
  <2> QED  BY <2>2, <2>3
<1> HIDE DEF P, D, rank
<1>6. D \subseteq P  BY <1>4, <1>5, Induction
<1>7. f[Len(s)] = g[Len(s)]  BY <1>1, <1>6 DEF P, D
<1>8. /\ Len(r) \in 0 .. Len(r) /\ Len(r) # 0 /\ Len(r) - 1 = Len(s)  BY <1>1
<1>9. g[Len(r)] = IF Len(r) \in q THEN Append(g[Len(s)], x) ELSE g[Len(s)]
  BY <1>1, <1>3, <1>8 DEF Selects
<1> QED  BY <1>1, <1>2, <1>3, <1>7, <1>9 DEF r, Selects

\* One line after another, each as OnLine says.
Scans == [entries : Seq(Int), lines : Nat, truncated : BOOLEAN, stop : BOOLEAN, late : BOOLEAN]

LEMMA OnLineType ==
  ASSUME NEW s \in Scans, NEW line \in Seq(Int)
  PROVE  History!OnLine(s, line) \in Scans
<1> DEFINE seen == [s EXCEPT !.lines = @ + 1]
<1>1. seen \in Scans  BY DEF Scans
<1>2. \A t \in Scans : History!Stopped(t) \in Scans  BY DEF Scans, History!Stopped
<1>3. History!Matches(line) =>
        [seen EXCEPT !.entries = Append(@, History!ToHistoryEntry(line))] \in Scans
  <2> SUFFICES ASSUME History!Matches(line)
               PROVE  [seen EXCEPT !.entries = Append(@, History!ToHistoryEntry(line))] \in Scans
    OBVIOUS
  <2>1. Len(line) = 2  BY DEF History!Matches, History!Parses
  <2>2. line[1] \in Int  BY <2>1
  <2>3. Append(seen.entries, line[1]) \in Seq(Int)  BY <1>1, <2>2, AppendProperties DEF Scans
  <2> HIDE DEF seen
  <2> QED  BY <1>1, <2>3 DEF Scans, History!ToHistoryEntry
<1> HIDE DEF seen
<1> QED  BY <1>1, <1>2, <1>3 DEF History!OnLine, seen

Reads(f, s, l) ==
  /\ f \in [SUBSET (1 .. Len(l)) -> Scans] /\ History!OnLines(s, l) = f[1 .. Len(l)]
  /\ \A X \in SUBSET (1 .. Len(l)) :
       f[X] = IF X = {} THEN s
              ELSE History!OnLine(f[X \ {History!Max(X)}], l[History!Max(X)])

LEMMA LinesFunction ==
  ASSUME NEW s \in Scans, NEW l \in Seq(Seq(Int))
  PROVE  \E f : Reads(f, s, l)
<1> DEFINE D == SUBSET (1 .. Len(l))
           rank == [X \in D |-> Cardinality(X)]
           G == [p \in D \X [D -> Scans] |->
                   IF p[1] = {} THEN s
                   ELSE History!OnLine(p[2][p[1] \ {History!Max(p[1])}], l[History!Max(p[1])])]
           Eqn(f) == f = [X \in D |-> IF X = {} THEN s
                            ELSE History!OnLine(f[X \ {History!Max(X)}], l[History!Max(X)])]
           F == CHOOSE f : Eqn(f)
<1>0. Len(l) \in Nat /\ DOMAIN l = 1 .. Len(l) /\ \A i \in 1 .. Len(l) : l[i] \in Seq(Int)
  BY LenProperties
<1>1. ASSUME NEW X \in D
      PROVE  IsFiniteSet(X) /\ Cardinality(X) \in Nat /\ X \in SUBSET Nat
  <2>1. IsFiniteSet(1 .. Len(l))  BY <1>0, FS_Interval
  <2>2. IsFiniteSet(X)  BY <2>1, FS_Subset
  <2> QED  BY <2>2, FS_CardinalityType
<1>2. rank \in [D -> Nat]  BY <1>1
<1>3. ASSUME NEW X \in D, X # {}
      PROVE  /\ History!Max(X) \in 1 .. Len(l) /\ X \ {History!Max(X)} \in D
             /\ rank[X \ {History!Max(X)}] < rank[X]
  <2>1. PICK m \in X : \A n \in X : n <= m  BY <1>1, <1>3, Greatest
  <2>2. History!Max(X) = m  BY <1>1, <2>1, MaxIs
  <2>3. Cardinality(X \ {m}) = Cardinality(X) - 1  BY <1>1, FS_RemoveElement
  <2>4. X \ {m} \in D  OBVIOUS
  <2>5. m \in 1 .. Len(l) /\ Cardinality(X) - 1 < Cardinality(X)  BY <1>1, <2>1
  <2>6. rank[X \ {m}] < rank[X]  BY <2>3, <2>4, <2>5
  <2> QED  BY <2>2, <2>4, <2>5, <2>6
<1>4. \A t \in Scans, i \in 1 .. Len(l) : History!OnLine(t, l[i]) \in Scans  BY <1>0, OnLineType
<1> HIDE DEF D, rank
<1>5. PICK f : f \in [D -> Scans] /\ \A X \in D : f[X] = G[<<X, f>>]
  <2>1. ASSUME NEW X \in D, NEW f \in [D -> Scans] PROVE G[<<X, f>>] \in Scans
    BY <1>3, <1>4
  <2>2. ASSUME NEW X \in D, NEW f \in [D -> Scans], NEW g \in [D -> Scans],
               \A Y \in D : rank[Y] < rank[X] => f[Y] = g[Y]
        PROVE  G[<<X, f>>] = G[<<X, g>>]
    BY <1>3, <2>2
  <2> HIDE DEF G
  <2>3. IsRule(D, Scans, rank, G)  BY <1>2, <2>1, <2>2 DEF IsRule
  <2> QED  BY <2>3, Recursion DEF Follows
<1>6. Eqn(f)  BY <1>5
<1>7. Eqn(F)  BY <1>6
<1>8. History!OnLines(s, l) = F[1 .. Len(l)]
  BY <1>0 DEF History!OnLines, History!FoldLeft, History!MapThenFoldSet, D
<1> HIDE DEF F
<1>9. \A X \in D : F[X] = IF X = {} THEN s
                          ELSE History!OnLine(F[X \ {History!Max(X)}], l[History!Max(X)])
  BY <1>7
<1>10. F \in [D -> Scans]
  <2> DEFINE P == {X \in D : F[X] \in Scans}
  <2>1. ASSUME NEW X \in D, \A Y \in D : rank[Y] < rank[X] => Y \in P PROVE X \in P
    BY <1>3, <1>4, <1>9, <2>1
  <2> HIDE DEF P
  <2>2. D \subseteq P  BY <1>2, <2>1, Induction
  <2>3. \A X \in D : F[X] \in Scans  BY <2>2 DEF P
  <2> QED  BY <1>7, <2>3
<1> QED  BY <1>8, <1>9, <1>10 DEF D, Reads

LEMMA OnLinesNone ==
  ASSUME NEW s \in Scans
  PROVE  History!OnLines(s, <<>>) = s
<1>1. <<>> \in Seq(Seq(Int)) /\ Len(<<>>) = 0 /\ 1 .. 0 = {}  BY EmptySeq
<1>2. PICK f : Reads(f, s, <<>>)  BY <1>1, LinesFunction
<1>3. {} \in SUBSET (1 .. 0)  OBVIOUS
<1> QED  BY <1>1, <1>2, <1>3 DEF Reads

LEMMA OnLinesType ==
  ASSUME NEW s \in Scans, NEW l \in Seq(Seq(Int))
  PROVE  History!OnLines(s, l) \in Scans
<1>1. PICK f : Reads(f, s, l)  BY LinesFunction
<1>2. 1 .. Len(l) \in SUBSET (1 .. Len(l))  OBVIOUS
<1> QED  BY <1>1, <1>2 DEF Reads

LEMMA OnLinesAppend ==
  ASSUME NEW s \in Scans, NEW l \in Seq(Seq(Int)), NEW x \in Seq(Int)
  PROVE  History!OnLines(s, Append(l, x)) = History!OnLine(History!OnLines(s, l), x)
<1> DEFINE r == Append(l, x)
           D == SUBSET (1 .. Len(l))
           rank == [X \in D |-> Cardinality(X)]
<1>1. /\ r \in Seq(Seq(Int)) /\ Len(r) = Len(l) + 1 /\ Len(l) \in Nat /\ r[Len(l) + 1] = x
      /\ \A i \in 1 .. Len(l) : r[i] = l[i]
  BY AppendProperties, LenProperties
<1> HIDE DEF r
<1>2. PICK f : Reads(f, s, l)  BY LinesFunction
<1>3. PICK g : Reads(g, s, r)  BY <1>1, LinesFunction
<1> DEFINE P == {X \in D : f[X] = g[X]}
<1>4. ASSUME NEW X \in D
      PROVE  IsFiniteSet(X) /\ Cardinality(X) \in Nat /\ X \in SUBSET Nat
  <2>1. IsFiniteSet(1 .. Len(l))  BY <1>1, FS_Interval
  <2>2. IsFiniteSet(X)  BY <2>1, FS_Subset
  <2> QED  BY <2>2, FS_CardinalityType
<1>5. rank \in [D -> Nat]  BY <1>4
<1>6. ASSUME NEW X \in D, \A Y \in D : rank[Y] < rank[X] => Y \in P PROVE X \in P
  <2>1. X \in SUBSET (1 .. Len(r))  BY <1>1
  <2>2. CASE X = {}  BY <1>2, <1>3, <2>1, <2>2 DEF Reads
  <2>3. CASE X # {}
    <3>1. PICK m \in X : \A n \in X : n <= m  BY <1>4, <2>3, Greatest
    <3>2. History!Max(X) = m  BY <1>4, <3>1, MaxIs
    <3>3. Cardinality(X \ {m}) = Cardinality(X) - 1  BY <1>4, FS_RemoveElement
    <3>4. X \ {m} \in D /\ m \in 1 .. Len(l)  OBVIOUS
    <3>5. rank[X \ {m}] < rank[X]
      <4>1. Cardinality(X) - 1 < Cardinality(X)  BY <1>4
      <4> QED  BY <3>3, <3>4, <4>1
    <3> HIDE DEF rank, D
    <3>6. f[X \ {m}] = g[X \ {m}]  BY <1>6, <3>4, <3>5
    <3>7. f[X] = History!OnLine(f[X \ {m}], l[m])  BY <1>2, <2>3, <3>2 DEF Reads, D
    <3>8. g[X] = History!OnLine(g[X \ {m}], r[m])  BY <1>3, <2>1, <2>3, <3>2 DEF Reads
    <3>9. r[m] = l[m]  BY <1>1, <3>4
    <3> QED  BY <3>6, <3>7, <3>8, <3>9
  <2> QED  BY <2>2, <2>3
<1> HIDE DEF P, D, rank
<1>7. D \subseteq P  BY <1>5, <1>6, Induction
<1>8. f[1 .. Len(l)] = g[1 .. Len(l)]  BY <1>7 DEF P, D
<1> DEFINE W == 1 .. Len(r)
<1>9. W \in SUBSET Nat /\ Len(r) \in W /\ (\A n \in W : n <= Len(r)) /\ W \ {Len(r)} = 1 .. Len(l)
  BY <1>1
<1> HIDE DEF W
<1>10. History!Max(W) = Len(r) /\ W # {}  BY <1>9, MaxIs
<1>11. g[W] = History!OnLine(g[W \ {History!Max(W)}], r[History!Max(W)])
  <2>1. \A X \in SUBSET W :
          g[X] = IF X = {} THEN s ELSE History!OnLine(g[X \ {History!Max(X)}], r[History!Max(X)])
    BY <1>3 DEF Reads, W
  <2> QED  BY <1>10, <2>1
<1>12. g[W] = History!OnLine(g[1 .. Len(l)], x)  BY <1>1, <1>9, <1>10, <1>11
<1>13. History!OnLines(s, l) = f[1 .. Len(l)] /\ History!OnLines(s, r) = g[W]
  BY <1>2, <1>3 DEF Reads, W
<1> QED  BY <1>8, <1>12, <1>13 DEF r

LEMMA OnLinesConcat ==
  ASSUME NEW s \in Scans, NEW l \in Seq(Seq(Int))
  PROVE  \A k \in Seq(Seq(Int)) :
           History!OnLines(s, l \o k) = History!OnLines(History!OnLines(s, l), k)
<1> DEFINE S == Seq(Int)
           Both(k) == History!OnLines(s, l \o k) = History!OnLines(History!OnLines(s, l), k)
           P == {k \in Seq(S) : Both(k)}
<1>0. History!OnLines(s, l) \in Scans  BY OnLinesType
<1>1. <<>> \in P
  <2>1. <<>> \in Seq(S) /\ l \o <<>> = l  BY EmptySeq, ConcatEmptySeq
  <2> QED  BY <1>0, <2>1, OnLinesNone
<1>2. ASSUME NEW k \in Seq(S), NEW x \in S, k \in P PROVE Append(k, x) \in P
  <2>1. Append(k, x) \in Seq(S) /\ l \o k \in Seq(S)  BY AppendProperties, ConcatProperties
  <2>2. l \o Append(k, x) = Append(l \o k, x)
    <3> HIDE DEF S
    <3>1. <<x>> \in Seq(S) /\ Append(k, x) = k \o <<x>> /\ l \in Seq(S)
      BY AppendIsConcat DEF S
    <3>2. Append(l \o k, x) = (l \o k) \o <<x>>  BY <2>1, AppendIsConcat
    <3> QED  BY <3>1, <3>2, ConcatAssociative
  <2>3. History!OnLines(s, l \o Append(k, x)) = History!OnLine(History!OnLines(s, l \o k), x)
    BY <2>1, <2>2, OnLinesAppend
  <2>4. History!OnLines(History!OnLines(s, l), Append(k, x))
          = History!OnLine(History!OnLines(History!OnLines(s, l), k), x)
    BY <1>0, OnLinesAppend
  <2> QED  BY <1>2, <2>1, <2>3, <2>4
<1> HIDE DEF P
<1>3. Seq(S) \subseteq P  BY <1>1, <1>2, SequenceInduction
<1> QED  BY <1>3 DEF P, S

\* A scan that has stopped stays as it is.
LEMMA StoppedStays ==
  ASSUME NEW s \in Scans, s.stop
  PROVE  \A k \in Seq(Seq(Int)) : History!OnLines(s, k) = s
<1> DEFINE S == Seq(Int)
           P == {k \in Seq(S) : History!OnLines(s, k) = s}
<1>1. <<>> \in P  BY EmptySeq, OnLinesNone
<1>2. ASSUME NEW k \in Seq(S), NEW x \in S, k \in P PROVE Append(k, x) \in P
  <2>1. Append(k, x) \in Seq(S)  BY AppendProperties
  <2>2. History!OnLines(s, Append(k, x)) = History!OnLine(s, x)  BY <1>2, OnLinesAppend
  <2>3. History!OnLine(s, x) = s  BY DEF History!OnLine
  <2> QED  BY <2>1, <2>2, <2>3
<1> HIDE DEF P
<1>3. Seq(S) \subseteq P  BY <1>1, <1>2, SequenceInduction
<1> QED  BY <1>3 DEF P, S

\* The lines of a sequence of pieces that are not blank, those a query looks at, and those it finds.
LinesOf(q) == History!Selected(q, {i \in DOMAIN q : q[i] # <<>>})
Scanned(q) ==
  SubSeq(LinesOf(q), 1, IF query.lines < Len(LinesOf(q)) THEN query.lines ELSE Len(LinesOf(q)))
Matched(l) == History!Selected(l, {i \in DOMAIN l : History!Matches(l[i])})
FoundOf(q) == Matched(Scanned(q))

LEMMA LinesOfType ==
  ASSUME NEW q \in Seq(Seq(Int))
  PROVE  LinesOf(q) \in Seq(Seq(Int)) /\ Len(LinesOf(q)) \in Nat
<1>1. LinesOf(q) \in Seq(Seq(Int))  BY SelectedType DEF LinesOf
<1> QED  BY <1>1, LenProperties

LEMMA LinesOfAppend ==
  ASSUME NEW q \in Seq(Seq(Int)), NEW x \in Seq(Int)
  PROVE  LinesOf(Append(q, x)) = IF x = <<>> THEN LinesOf(q) ELSE Append(LinesOf(q), x)
<1> DEFINE r == Append(q, x)
           a == {i \in DOMAIN q : q[i] # <<>>}
           b == {i \in DOMAIN r : r[i] # <<>>}
<1>1. /\ r \in Seq(Seq(Int)) /\ Len(r) = Len(q) + 1 /\ Len(q) \in Nat /\ r[Len(q) + 1] = x
      /\ \A i \in 1 .. Len(q) : r[i] = q[i]
      /\ DOMAIN r = 1 .. Len(r) /\ DOMAIN q = 1 .. Len(q)
  BY AppendProperties, LenProperties
<1> HIDE DEF r
<1>2. \A i \in 1 .. Len(q) : i \in a <=> i \in b  BY <1>1
<1>3. Len(q) + 1 \in b <=> x # <<>>  BY <1>1
<1> HIDE DEF a, b
<1>4. History!Selected(r, b) = IF Len(q) + 1 \in b THEN Append(History!Selected(q, a), x)
                               ELSE History!Selected(q, a)
  BY <1>2, SelectedAppend DEF r
<1> QED  BY <1>3, <1>4 DEF LinesOf, a, b, r

LEMMA MatchedType ==
  ASSUME NEW l \in Seq(Seq(Int))
  PROVE  Matched(l) \in Seq(Seq(Int)) /\ Len(Matched(l)) \in Nat
<1>1. Matched(l) \in Seq(Seq(Int))  BY SelectedType DEF Matched
<1> QED  BY <1>1, LenProperties

LEMMA MatchedAppend ==
  ASSUME NEW q \in Seq(Seq(Int)), NEW x \in Seq(Int)
  PROVE  Matched(Append(q, x)) = IF History!Matches(x) THEN Append(Matched(q), x) ELSE Matched(q)
<1> DEFINE r == Append(q, x)
           a == {i \in DOMAIN q : History!Matches(q[i])}
           b == {i \in DOMAIN r : History!Matches(r[i])}
<1>1. /\ r \in Seq(Seq(Int)) /\ Len(r) = Len(q) + 1 /\ Len(q) \in Nat /\ r[Len(q) + 1] = x
      /\ \A i \in 1 .. Len(q) : r[i] = q[i]
      /\ DOMAIN r = 1 .. Len(r) /\ DOMAIN q = 1 .. Len(q)
  BY AppendProperties, LenProperties
<1> HIDE DEF r
<1>2. \A i \in 1 .. Len(q) : i \in a <=> i \in b  BY <1>1
<1>3. Len(q) + 1 \in b <=> History!Matches(x)  BY <1>1
<1> HIDE DEF a, b
<1>4. History!Selected(r, b) = IF Len(q) + 1 \in b THEN Append(History!Selected(q, a), x)
                               ELSE History!Selected(q, a)
  BY <1>2, SelectedAppend DEF r
<1> QED  BY <1>3, <1>4 DEF Matched, a, b, r

LEMMA Nothing ==
  ASSUME query.lines \in Nat
  PROVE  LinesOf(<<>>) = <<>> /\ FoundOf(<<>>) = <<>>
<1>1. LinesOf(<<>>) = <<>>  BY SelectedNone DEF LinesOf
<1>2. Scanned(<<>>) = <<>>
  <2>1. Scanned(<<>>) = SubSeq(<<>>, 1, 0)  BY <1>1 DEF Scanned
  <2> QED  BY <2>1, SubSeqEmpty
<1>3. FoundOf(<<>>) = <<>>  BY <1>2, SelectedNone DEF FoundOf, Matched
<1> QED  BY <1>1, <1>3

LEMMA FoundOfAppend ==
  ASSUME query.lines \in Nat, NEW q \in Seq(Seq(Int)), NEW x \in Seq(Int)
  PROVE  /\ FoundOf(q) \in Seq(Seq(Int)) /\ Len(FoundOf(q)) \in Nat
         /\ FoundOf(Append(q, x)) =
              IF x = <<>> \/ query.lines <= Len(LinesOf(q)) \/ ~History!Matches(x) THEN FoundOf(q)
              ELSE Append(FoundOf(q), x)
<1> DEFINE B == Seq(Seq(Int))
           l == LinesOf(q)
           r == Append(l, x)
           n == query.lines
           r1 == SubSeq(r, 1, IF n < Len(r) THEN n ELSE Len(r))
           l1 == SubSeq(l, 1, IF n < Len(l) THEN n ELSE Len(l))
<1>1. l \in B /\ Len(l) \in Nat  BY LinesOfType
<1>2. LinesOf(Append(q, x)) = IF x = <<>> THEN l ELSE r  BY LinesOfAppend
<1>3. /\ r \in B /\ Len(r) = Len(l) + 1 /\ \A i \in 1 .. Len(l) : r[i] = l[i]
  BY <1>1, AppendProperties
<1>4. Scanned(q) = l1 /\ l1 \in B
  <2>1. Scanned(q) = l1  BY DEF Scanned
  <2> HIDE DEF l
  <2>2. CASE n < Len(l)
    <3>1. 1 \in Nat \ {0} /\ n \in Nat /\ n <= Len(l) /\ 1 <= n + 1  BY <1>1, <2>2
    <3>2. SubSeq(l, 1, n) \in B  BY <1>1, <3>1, PartOf
    <3> QED  BY <2>1, <2>2, <3>2
  <2>3. CASE ~(n < Len(l))
    <3>1. l1 = l  BY <1>1, <2>3, SubSeqFull
    <3> QED  BY <1>1, <2>1, <3>1
  <2> QED  BY <2>2, <2>3
<1>5. FoundOf(q) = Matched(l1)  BY <1>4 DEF FoundOf
<1>6. FoundOf(q) \in B /\ Len(FoundOf(q)) \in Nat  BY <1>4, <1>5, MatchedType
<1>7. CASE x = <<>>
  <2>1. FoundOf(Append(q, x)) = FoundOf(q)  BY <1>2, <1>7 DEF FoundOf, Scanned
  <2> QED  BY <1>6, <1>7, <2>1
<1>8. CASE x # <<>>
  <2>1. FoundOf(Append(q, x)) = Matched(r1)
    <3>1. LinesOf(Append(q, x)) = r  BY <1>2, <1>8
    <3> HIDE DEF r
    <3> QED  BY <3>1 DEF FoundOf, Scanned
  <2>2. CASE n <= Len(l)
    <3> HIDE DEF r, l
    <3>1. r1 = SubSeq(r, 1, n)  BY <1>1, <1>3, <2>2
    <3>2. l1 = SubSeq(l, 1, n)  BY <1>1, <2>2
    <3>3. SubSeq(r, 1, n) = SubSeq(l, 1, n)
      <4>1. /\ 1 \in Nat \ {0} /\ n \in Nat /\ n <= Len(l) /\ n <= Len(r) /\ 1 <= n + 1
            /\ n - 1 + 1 = n /\ \A i \in 1 .. n : 1 + i - 1 = i /\ i \in 1 .. Len(l)
        BY <1>1, <1>3, <2>2
      <4>2. /\ SubSeq(r, 1, n) \in B /\ Len(SubSeq(r, 1, n)) = n - 1 + 1
            /\ \A i \in 1 .. n - 1 + 1 : SubSeq(r, 1, n)[i] = r[1 + i - 1]
        BY <1>3, <4>1, PartOf
      <4>3. /\ SubSeq(l, 1, n) \in B /\ Len(SubSeq(l, 1, n)) = n - 1 + 1
            /\ \A i \in 1 .. n - 1 + 1 : SubSeq(l, 1, n)[i] = l[1 + i - 1]
        BY <1>1, <4>1, PartOf
      <4> DEFINE y == SubSeq(r, 1, n)
                 z == SubSeq(l, 1, n)
      <4>4. /\ y \in B /\ z \in B /\ Len(y) = n /\ Len(z) = n
            /\ \A i \in 1 .. n : y[i] = r[i] /\ z[i] = l[i]
        BY <4>1, <4>2, <4>3
      <4> HIDE DEF y, z, n, B
      <4>5. \A i \in 1 .. Len(y) : y[i] = z[i]  BY <1>3, <4>1, <4>4
      <4>6. y = z  BY <4>4, <4>5, SeqEqual DEF B
      <4> QED  BY <4>6 DEF y, z
    <3>4. r1 = l1  BY <3>1, <3>2, <3>3
    <3>5. FoundOf(Append(q, x)) = FoundOf(q)
      <4> HIDE DEF r1, l1
      <4> QED  BY <1>5, <2>1, <3>4
    <3> QED  BY <1>6, <2>2, <3>5 DEF l
  <2>3. CASE ~(n <= Len(l))
    <3> HIDE DEF r, l
    <3>1. r1 = r  BY <1>1, <1>3, <2>3, SubSeqFull
    <3>2. l1 = l  BY <1>1, <2>3, SubSeqFull
    <3>3. Matched(r) = IF History!Matches(x) THEN Append(Matched(l), x) ELSE Matched(l)
      BY <1>1, MatchedAppend DEF r
    <3>4. FoundOf(Append(q, x)) = IF History!Matches(x) THEN Append(FoundOf(q), x) ELSE FoundOf(q)
      BY <1>5, <2>1, <3>1, <3>2, <3>3
    <3> QED  BY <1>6, <1>8, <2>3, <3>4 DEF l
  <2> QED  BY <2>2, <2>3
<1> QED  BY <1>7, <1>8

Fresh == [entries |-> <<>>, lines |-> 0, truncated |-> FALSE, stop |-> FALSE, late |-> FALSE]

\* What a scan has, once it has gone over the lines of q and unless its time ran out.
Good(s, q) ==
  /\ s \in Scans /\ ~s.late /\ s.truncated = s.stop
  /\ Len(s.entries) <= query.limit /\ Len(s.entries) <= Len(FoundOf(q))
  /\ \A i \in 1 .. Len(s.entries) : s.entries[i] = History!ToHistoryEntry(FoundOf(q)[i])
  /\ ~s.stop => /\ s.lines = Len(LinesOf(q)) /\ s.lines <= query.lines
                /\ Len(s.entries) = Len(FoundOf(q))
  /\ s.stop => \/ /\ Len(LinesOf(q)) > query.lines
                  /\ Len(s.entries) = query.limit \/ Len(s.entries) = Len(FoundOf(q))
               \/ Len(FoundOf(q)) > query.limit /\ Len(s.entries) = query.limit

Queried == query \in [chunk : Nat \ {0}, limit : Nat \ {0}, lines : Nat]

\* A line counted.
Counted(s) == [s EXCEPT !.lines = @ + 1]

LEMMA CountedIs ==
  ASSUME NEW s \in Scans
  PROVE  /\ Counted(s) \in Scans
         /\ Counted(s) = [entries |-> s.entries, lines |-> s.lines + 1, truncated |-> s.truncated,
                           stop |-> s.stop, late |-> s.late]
<1>1. Counted(s) \in Scans  BY DEF Counted, Scans
<1>2. Counted(s) = [entries |-> s.entries, lines |-> s.lines + 1, truncated |-> s.truncated,
                    stop |-> s.stop, late |-> s.late]
  BY DEF Counted, Scans
<1> QED  BY <1>1, <1>2

\* One more line.
LEMMA GoodStep ==
  ASSUME Queried, NEW q \in Seq(Seq(Int)), NEW s \in Scans, Good(s, q),
         NEW x \in Seq(Int)
  PROVE  Good(History!OnLine(s, x), Append(q, x))
<1> DEFINE f == FoundOf(q)
           l == LinesOf(q)
           f1 == FoundOf(Append(q, x))
           l1 == LinesOf(Append(q, x))
           t == History!OnLine(s, x)
           m == query.limit
           n == query.lines
<1>1. n \in Nat /\ m \in Nat /\ m # 0  BY DEF Queried
<1>2. /\ f \in Seq(Seq(Int)) /\ Len(f) \in Nat
      /\ f1 = IF x = <<>> \/ n <= Len(l) \/ ~History!Matches(x) THEN f ELSE Append(f, x)
  BY <1>1, FoundOfAppend
<1>3. l \in Seq(Seq(Int)) /\ Len(l) \in Nat /\ l1 = IF x = <<>> THEN l ELSE Append(l, x)
  BY LinesOfType, LinesOfAppend
<1>4. t \in Scans  BY OnLineType DEF Good
<1>5. s \in Scans /\ s.entries \in Seq(Int) /\ Len(s.entries) \in Nat /\ s.lines \in Nat
  BY DEF Good, Scans
<1>6. /\ Len(s.entries) <= m /\ Len(s.entries) <= Len(f)
      /\ \A i \in 1 .. Len(s.entries) : s.entries[i] = History!ToHistoryEntry(f[i])
      /\ ~s.stop => s.lines = Len(l) /\ s.lines <= n /\ Len(s.entries) = Len(f)
      /\ s.stop => \/ Len(l) > n /\ (Len(s.entries) = m \/ Len(s.entries) = Len(f))
                   \/ Len(f) > m /\ Len(s.entries) = m
      /\ ~s.late /\ s.truncated = s.stop
  BY DEF Good
<1>7. /\ Len(Append(f, x)) = Len(f) + 1 /\ Append(f, x)[Len(f) + 1] = x
      /\ \A i \in 1 .. Len(f) : Append(f, x)[i] = f[i]
      /\ Len(Append(l, x)) = Len(l) + 1
  BY <1>2, <1>3, AppendProperties
<1> HIDE DEF f, l, f1, l1, m, n
\* What was found before is found now, in the same place.
<1>8. /\ Len(f) <= Len(f1) /\ Len(f1) \in Nat /\ Len(l) <= Len(l1) /\ Len(l1) \in Nat
      /\ \A i \in 1 .. Len(s.entries) : s.entries[i] = History!ToHistoryEntry(f1[i])
      /\ Len(s.entries) <= Len(f1)
  <2>1. \A i \in 1 .. Len(s.entries) : i \in 1 .. Len(f)  BY <1>2, <1>5, <1>6
  <2>2. CASE f1 = f  BY <1>2, <1>3, <1>5, <1>6, <1>7, <2>2
  <2>3. CASE f1 = Append(f, x)
    <3>1. \A i \in 1 .. Len(s.entries) : f1[i] = f[i]  BY <1>7, <2>1, <2>3
    <3>2. Len(f1) = Len(f) + 1  BY <1>7, <2>3
    <3> QED  BY <1>2, <1>3, <1>5, <1>6, <1>7, <3>1, <3>2, SMTT(30)
  <2> QED  BY <1>2, <2>2, <2>3
<1>9. SUFFICES /\ ~t.late /\ t.truncated = t.stop
               /\ Len(t.entries) <= m /\ Len(t.entries) <= Len(f1)
               /\ \A i \in 1 .. Len(t.entries) : t.entries[i] = History!ToHistoryEntry(f1[i])
               /\ ~t.stop => t.lines = Len(l1) /\ t.lines <= n /\ Len(t.entries) = Len(f1)
               /\ t.stop => \/ Len(l1) > n /\ (Len(t.entries) = m \/ Len(t.entries) = Len(f1))
                            \/ Len(f1) > m /\ Len(t.entries) = m
  BY <1>4 DEF Good, f1, l1, m, n
<1> DEFINE seen == Counted(s)
<1>10. /\ seen.entries = s.entries /\ seen.lines = s.lines + 1 /\ seen.stop = s.stop
       /\ seen.late = s.late /\ seen.truncated = s.truncated /\ seen \in Scans
  <2>1. seen = [entries |-> s.entries, lines |-> s.lines + 1, truncated |-> s.truncated,
                stop |-> s.stop, late |-> s.late]
    BY CountedIs
  <2>2. seen \in Scans  BY CountedIs
  <2> HIDE DEF seen
  <2> QED  BY <2>1, <2>2
<1>11. t = IF s.stop \/ x = <<>> THEN s
           ELSE IF s.lines + 1 > n THEN History!Stopped(seen)
           ELSE IF ~History!Matches(x) THEN seen
           ELSE IF Len(s.entries) < m
                THEN [seen EXCEPT !.entries = Append(@, History!ToHistoryEntry(x))]
           ELSE History!Stopped(seen)
  BY <1>10 DEF History!OnLine, History!HasRoom, m, n, Counted
<1>12. /\ History!Stopped(seen).entries = s.entries /\ History!Stopped(seen).stop
       /\ History!Stopped(seen).truncated /\ ~History!Stopped(seen).late
  BY <1>6, <1>10 DEF History!Stopped, Scans
<1> HIDE DEF t, seen
<1>13. CASE x = <<>>
  <2>1. t = s /\ f1 = f /\ l1 = l  BY <1>2, <1>3, <1>11, <1>13
  <2> QED  BY <1>6, <2>1
<1>14. CASE s.stop /\ x # <<>>
  <2>1. t = s /\ l1 = Append(l, x) /\ Len(l1) = Len(l) + 1  BY <1>3, <1>7, <1>11, <1>14
  <2>2. CASE Len(l) > n /\ (Len(s.entries) = m \/ Len(s.entries) = Len(f))
    <3>1. f1 = f  BY <1>1, <1>2, <1>3, <2>2
    <3>2. Len(l1) > n  BY <1>1, <1>3, <2>1, <2>2
    <3> QED  BY <1>6, <1>8, <1>14, <2>1, <2>2, <3>1, <3>2
  <2>3. CASE Len(f) > m /\ Len(s.entries) = m
    <3>1. Len(f1) > m  BY <1>1, <1>2, <1>8, <2>3
    <3> QED  BY <1>6, <1>8, <1>14, <2>1, <2>3, <3>1
  <2> QED  BY <1>6, <1>14, <2>2, <2>3
<1>15. CASE ~s.stop /\ x # <<>> /\ s.lines + 1 > n
  <2>1. t = History!Stopped(seen) /\ l1 = Append(l, x) /\ Len(l1) = Len(l) + 1
    BY <1>3, <1>7, <1>11, <1>15
  <2>2. Len(l) = n /\ f1 = f  BY <1>1, <1>2, <1>3, <1>5, <1>6, <1>15
  <2>3. Len(l1) > n /\ Len(t.entries) = Len(f1)  BY <1>1, <1>6, <1>12, <1>15, <2>1, <2>2
  <2> QED  BY <1>6, <1>8, <1>12, <2>1, <2>3
<1>16. CASE ~s.stop /\ x # <<>> /\ ~(s.lines + 1 > n)
  <2>1. /\ l1 = Append(l, x) /\ Len(l1) = Len(l) + 1 /\ s.lines + 1 = Len(l1) /\ Len(l1) <= n
        /\ ~(n <= Len(l)) /\ Len(s.entries) = Len(f)
    <3>1. l1 = Append(l, x) /\ Len(l1) = Len(l) + 1  BY <1>3, <1>7, <1>16
    <3>2. s.lines = Len(l) /\ Len(s.entries) = Len(f)  BY <1>6, <1>16
    <3>3. s.lines + 1 <= n  BY <1>1, <1>5, <1>16
    <3> QED  BY <1>1, <1>3, <3>1, <3>2, <3>3
  <2>2. CASE ~History!Matches(x)
    <3>1. t = seen /\ f1 = f  BY <1>2, <1>11, <1>16, <2>2
    <3> QED  BY <1>6, <1>10, <1>16, <2>1, <3>1
  <2>3. CASE History!Matches(x)
    <3>1. f1 = Append(f, x) /\ Len(f1) = Len(f) + 1 /\ f1[Len(f) + 1] = x
      BY <1>2, <1>7, <1>16, <2>1, <2>3
    <3>2. CASE Len(s.entries) < m
      <4> DEFINE y == History!ToHistoryEntry(x)
      <4>1. y \in Int
        <5>1. Len(x) = 2  BY <2>3 DEF History!Matches, History!Parses
        <5>2. x[1] \in Int  BY <5>1
        <5> QED  BY <5>2 DEF History!ToHistoryEntry
      <4> HIDE DEF y
      <4>2. t = [seen EXCEPT !.entries = Append(@, y)]  BY <1>11, <1>16, <2>3, <3>2 DEF y
      <4>3. /\ t.entries = Append(s.entries, y) /\ t.stop = s.stop /\ t.late = s.late
            /\ t.truncated = s.truncated /\ t.lines = s.lines + 1
        BY <1>10, <4>2 DEF Scans
      <4>4. /\ Len(Append(s.entries, y)) = Len(s.entries) + 1
            /\ Append(s.entries, y)[Len(s.entries) + 1] = y
            /\ \A i \in 1 .. Len(s.entries) : Append(s.entries, y)[i] = s.entries[i]
        BY <1>5, <4>1, AppendProperties
      <4>5. ASSUME NEW i \in 1 .. Len(t.entries)
            PROVE  t.entries[i] = History!ToHistoryEntry(f1[i])
        <5>1. CASE i = Len(s.entries) + 1
          <6>1. t.entries[i] = y /\ f1[i] = x  BY <2>1, <3>1, <4>3, <4>4, <5>1
          <6> QED  BY <6>1 DEF y
        <5>2. CASE i # Len(s.entries) + 1
          <6>1. i \in 1 .. Len(s.entries)  BY <1>5, <4>3, <4>4, <5>2
          <6> QED  BY <1>8, <4>3, <4>4, <6>1
        <5> QED  BY <5>1, <5>2
      <4>6. Len(t.entries) <= m /\ Len(t.entries) = Len(f1)
        BY <1>1, <1>2, <1>5, <2>1, <3>1, <3>2, <4>3, <4>4
      <4>7. ~t.stop /\ ~t.late /\ t.truncated = t.stop  BY <1>6, <1>16, <4>3
      <4>8. t.lines = Len(l1) /\ t.lines <= n /\ Len(t.entries) <= Len(f1)
        BY <1>8, <2>1, <4>3, <4>6
      <4> QED  BY <4>5, <4>6, <4>7, <4>8
    <3>3. CASE ~(Len(s.entries) < m)
      <4>1. t = History!Stopped(seen)  BY <1>11, <1>16, <2>3, <3>3
      <4>2. Len(s.entries) = m /\ Len(f1) > m  BY <1>1, <1>5, <1>6, <2>1, <3>1, <3>3
      <4> QED  BY <1>6, <1>8, <1>12, <4>1, <4>2
    <3> QED  BY <3>2, <3>3
  <2> QED  BY <2>2, <2>3
<1> QED  BY <1>13, <1>14, <1>15, <1>16

LEMMA AllGood ==
  ASSUME Queried
  PROVE  \A q \in Seq(Seq(Int)) : Good(History!OnLines(Fresh, q), q)
<1> DEFINE S == Seq(Int)
           P == {q \in Seq(S) : Good(History!OnLines(Fresh, q), q)}
<1>0. Fresh \in Scans
  <2>1. <<>> \in Seq(Int)  BY EmptySeq
  <2> QED  BY <2>1 DEF Fresh, Scans
<1>1. <<>> \in P
  <2>1. query.lines \in Nat /\ query.limit \in Nat /\ query.lines >= 0 /\ query.limit >= 0
    BY DEF Queried
  <2>2. History!OnLines(Fresh, <<>>) = Fresh  BY <1>0, OnLinesNone
  <2>3. LinesOf(<<>>) = <<>> /\ FoundOf(<<>>) = <<>>  BY <2>1, Nothing
  <2>4. /\ Fresh.entries = <<>> /\ Fresh.lines = 0
        /\ Fresh.truncated = FALSE /\ Fresh.stop = FALSE /\ Fresh.late = FALSE
    BY DEF Fresh
  <2>5. Len(<<>>) = 0 /\ 1 .. 0 = {} /\ <<>> \in Seq(S)  BY EmptySeq
  <2>6. Good(Fresh, <<>>)
    <3> DEFINE s == Fresh
    <3>1. /\ Len(s.entries) = 0 /\ Len(LinesOf(<<>>)) = 0 /\ Len(FoundOf(<<>>)) = 0
          /\ s.lines = 0 /\ s.truncated = s.stop /\ ~s.stop /\ ~s.late /\ s \in Scans
      BY <1>0, <2>3, <2>4, <2>5
    <3> HIDE DEF s
    <3> QED  BY <2>1, <3>1 DEF Good, s
  <2> QED  BY <2>2, <2>5, <2>6
<1>2. ASSUME NEW q \in Seq(S), NEW x \in S, q \in P PROVE Append(q, x) \in P
  <2>1. Append(q, x) \in Seq(S)  BY AppendProperties
  <2>2. History!OnLines(Fresh, Append(q, x)) = History!OnLine(History!OnLines(Fresh, q), x)
    BY <1>0, OnLinesAppend
  <2>3. Good(History!OnLine(History!OnLines(Fresh, q), x), Append(q, x))
    <3>1. History!OnLines(Fresh, q) \in Scans /\ Good(History!OnLines(Fresh, q), q)
      BY <1>0, <1>2, OnLinesType
    <3> QED  BY <3>1, GoodStep
  <2> QED  BY <2>1, <2>2, <2>3
<1> HIDE DEF P
<1>3. Seq(S) \subseteq P  BY <1>1, <1>2, SequenceInduction
<1> QED  BY <1>3 DEF P, S

\* What is found in some pieces is found first when more of them follow.
LEMMA FoundFirst ==
  ASSUME Queried, NEW q \in Seq(Seq(Int))
  PROVE  \A r \in Seq(Seq(Int)) :
           /\ Len(FoundOf(q)) <= Len(FoundOf(q \o r))
           /\ \A i \in 1 .. Len(FoundOf(q)) : FoundOf(q \o r)[i] = FoundOf(q)[i]
<1> DEFINE S == Seq(Int)
           First(r) == /\ Len(FoundOf(q)) <= Len(FoundOf(q \o r))
                       /\ \A i \in 1 .. Len(FoundOf(q)) : FoundOf(q \o r)[i] = FoundOf(q)[i]
           P == {r \in Seq(S) : First(r)}
<1>0. query.lines \in Nat  BY DEF Queried
<1>1. <<>> \in P
  <2>1. <<>> \in Seq(S) /\ q \o <<>> = q /\ Len(FoundOf(q)) \in Nat
    BY <1>0, EmptySeq, ConcatEmptySeq, FoundOfAppend
  <2> QED  BY <2>1
<1>2. ASSUME NEW r \in Seq(S), NEW x \in S, r \in P PROVE Append(r, x) \in P
  <2>1. Append(r, x) \in Seq(S) /\ q \o r \in Seq(S)  BY AppendProperties, ConcatProperties
  <2>2. q \o Append(r, x) = Append(q \o r, x)
    <3> HIDE DEF S
    <3>1. <<x>> \in Seq(S) /\ Append(r, x) = r \o <<x>> /\ q \in Seq(S)
      BY AppendIsConcat DEF S
    <3>2. Append(q \o r, x) = (q \o r) \o <<x>>  BY <2>1, AppendIsConcat
    <3> QED  BY <3>1, <3>2, ConcatAssociative
  <2> DEFINE f == FoundOf(q)
             g == FoundOf(q \o r)
             h == FoundOf(Append(q \o r, x))
  <2>3. f \in Seq(S) /\ Len(f) \in Nat  BY <1>0, FoundOfAppend
  <2>4. g \in Seq(S) /\ Len(g) \in Nat /\ (h = g \/ h = Append(g, x))
    BY <1>0, <2>1, FoundOfAppend
  <2>5. Len(f) <= Len(g) /\ \A i \in 1 .. Len(f) : g[i] = f[i]  BY <1>2
  <2> HIDE DEF f, g, h, S
  <2>6. Len(f) <= Len(h) /\ \A i \in 1 .. Len(f) : h[i] = f[i]
    <3>1. CASE h = g  BY <2>5, <3>1
    <3>2. CASE h = Append(g, x)
      <4>1. Len(h) = Len(g) + 1 /\ \A i \in 1 .. Len(g) : h[i] = g[i]
        BY <2>4, <3>2, AppendProperties
      <4>2. \A i \in 1 .. Len(f) : i \in 1 .. Len(g)  BY <2>3, <2>4, <2>5
      <4> QED  BY <2>3, <2>4, <2>5, <4>1, <4>2
    <3> QED  BY <2>4, <3>1, <3>2
  <2> QED  BY <2>1, <2>2, <2>6 DEF f, h
<1> HIDE DEF P
<1>3. Seq(S) \subseteq P  BY <1>1, <1>2, SequenceInduction
<1> QED  BY <1>3 DEF P, S

\* The pieces of what has been read when everything from a position on has been, what the lines
\* that are complete by then come to, and the same when the time ran out there.
Whole(p) == History!Pieces[SubSeq(bytes, p + 1, size)]
Sofar(p) == History!OnLines(Fresh, Trees!Front(Whole(p)))
Entire(p) == History!OnLines(Fresh, Whole(p))
Late(s) == [History!Stopped(s) EXCEPT !.late = TRUE]

\* What is left over of the last chunk is the last piece of all that has been read, and the scan is
\* what the other pieces come to; once the scan is done it is what all pieces come to.
HistoryInv ==
  /\ bytes \in Seq(Int) /\ size \in Nat /\ size <= Len(bytes)
  /\ position \in Nat /\ position <= size
  /\ Queried /\ at \in {"open", "reading", "done"}
  /\ at = "open" => position = size
  /\ at # "done" => leftover = Trees!Last(Whole(position))
  /\ scan.late => scan = Late(Sofar(position))
  /\ ~scan.late => scan = IF at = "done" THEN Entire(0) ELSE Sofar(position)

LEMMA FreshType == Fresh \in Scans
<1>1. <<>> \in Seq(Int)  BY EmptySeq
<1> QED  BY <1>1 DEF Fresh, Scans

LEMMA WholeType ==
  ASSUME bytes \in Seq(Int), size \in Nat, size <= Len(bytes), NEW q \in Nat, q <= size
  PROVE  /\ Whole(q) \in Seq(Seq(Int)) /\ Whole(q) # <<>>
         /\ Trees!Front(Whole(q)) \in Seq(Seq(Int)) /\ Trees!Last(Whole(q)) \in Seq(Int)
         /\ Whole(q) = Append(Trees!Front(Whole(q)), Trees!Last(Whole(q)))
         /\ Whole(q) = Trees!Front(Whole(q)) \o <<Trees!Last(Whole(q))>>
<1> DEFINE b == SubSeq(bytes, q + 1, size)
           w == Whole(q)
<1>1. b \in Seq(Int)
  <2>1. q + 1 \in Nat \ {0} /\ q + 1 <= size + 1  OBVIOUS
  <2> QED  BY <2>1, PartOf
<1>2. w \in Seq(Seq(Int)) /\ w # <<>>
  <2> HIDE DEF b
  <2>1. History!Pieces[b] \in Seq(Seq(Int)) /\ History!Pieces[b] # <<>>  BY <1>1, PiecesAre
  <2> QED  BY <2>1 DEF Whole, b
<1> HIDE DEF w
<1>3. /\ Trees!Front(w) \in Seq(Seq(Int)) /\ Trees!Last(w) \in Seq(Int)
      /\ w = Append(Trees!Front(w), Trees!Last(w))
  BY <1>2, FrontLast
<1>4. w = Trees!Front(w) \o <<Trees!Last(w)>>  BY <1>3, AppendIsConcat
<1> QED  BY <1>2, <1>3, <1>4 DEF w

\* What was read earlier, and what a chunk before it adds.
LEMMA WholeIs ==
  ASSUME bytes \in Seq(Int), size \in Nat, size <= Len(bytes), NEW p \in Nat, NEW q \in Nat,
         p <= q, q <= size
  PROVE  /\ SubSeq(bytes, p + 1, q) \in Seq(Int)
         /\ SubSeq(bytes, p + 1, q) \o Trees!Last(Whole(q)) \in Seq(Int)
         /\ Whole(p) = Trees!Front(Whole(q))
                         \o History!Pieces[SubSeq(bytes, p + 1, q) \o Trees!Last(Whole(q))]
<1> DEFINE a == SubSeq(bytes, p + 1, q)
           b == SubSeq(bytes, q + 1, size)
           w == History!Pieces[b]
<1>0. Len(bytes) \in Nat  OBVIOUS
<1>1. a \in Seq(Int) /\ b \in Seq(Int)
  <2>1. p + 1 \in Nat \ {0} /\ q <= Len(bytes) /\ p + 1 <= q + 1  BY <1>0
  <2>2. q + 1 \in Nat \ {0} /\ q + 1 <= size + 1  OBVIOUS
  <2> QED  BY <2>1, <2>2, PartOf
<1>2. a \o b = SubSeq(bytes, p + 1, size)
  <2>1. p + 1 \in 1 .. Len(bytes) + 1 /\ q \in p + 1 - 1 .. Len(bytes) /\ size \in q .. Len(bytes)
    BY <1>0
  <2> QED  BY <2>1, ConcatAdjacentSubSeq
<1> HIDE DEF a, b
<1>3. History!Pieces[a \o b] = Trees!Front(w) \o History!Pieces[a \o Trees!Last(w)]
  BY <1>1, PiecesConcat
<1>4. Whole(q) = w /\ Whole(p) = History!Pieces[a \o b]  BY <1>2 DEF Whole, b
<1>5. Trees!Last(Whole(q)) \in Seq(Int)  BY WholeType
<1> HIDE DEF w
<1>6. a \o Trees!Last(w) \in Seq(Int)  BY <1>1, <1>4, <1>5, ConcatProperties
<1> QED  BY <1>1, <1>3, <1>4, <1>6 DEF a

LEMMA OneEnds ==
  ASSUME NEW S, NEW x \in S
  PROVE  Trees!Front(<<x>>) = <<>> /\ Trees!Last(<<x>>) = x
<1>1. <<x>> = Append(<<>>, x) /\ <<>> \in Seq(S)  BY EmptySeq
<1> QED  BY <1>1, LastAppended

\* Where nothing has been read, nothing has come of it.
LEMMA NothingRead ==
  ASSUME NEW p \in Nat, p = size
  PROVE  Trees!Last(Whole(p)) = <<>> /\ Sofar(p) = Fresh
<1>1. SubSeq(bytes, p + 1, size) = <<>>  BY SubSeqEmpty
<1>2. <<>> \in Seq(Int)  BY EmptySeq
<1>3. History!Newlines(<<>>) = {}  BY DEF History!Newlines
<1>4. Whole(p) = <<<<>>>>  BY <1>1, <1>2, <1>3, OnePiece DEF Whole
<1>5. Trees!Front(Whole(p)) = <<>> /\ Trees!Last(Whole(p)) = <<>>  BY <1>2, <1>4, OneEnds
<1> QED  BY <1>5, FreshType, OnLinesNone DEF Sofar

LEMMA HistoryStart == History!Init => HistoryInv
<1> SUFFICES ASSUME History!Init PROVE HistoryInv  OBVIOUS
<1>1. /\ bytes \in Seq(Int) /\ size = 0 /\ position = 0 /\ leftover = <<>> /\ scan = Fresh
      /\ at = "open" /\ Queried
  BY QueriesAssumption DEF History!HistoryAssumption, History!Init, Fresh, Queried
<1>2. Len(bytes) \in Nat  BY <1>1
<1>3. Trees!Last(Whole(position)) = <<>> /\ Sofar(position) = Fresh  BY <1>1, NothingRead
<1>4. scan.late = FALSE  BY <1>1 DEF Fresh
<1> QED  BY <1>1, <1>2, <1>3, <1>4 DEF HistoryInv

LEMMA SofarType ==
  ASSUME bytes \in Seq(Int), size \in Nat, size <= Len(bytes), NEW p \in Nat, p <= size
  PROVE  Sofar(p) \in Scans /\ Entire(p) \in Scans
<1>1. Trees!Front(Whole(p)) \in Seq(Seq(Int)) /\ Whole(p) \in Seq(Seq(Int))  BY WholeType
<1> QED  BY <1>1, FreshType, OnLinesType DEF Sofar, Entire

LEMMA StoppedIs ==
  ASSUME NEW s \in Scans
  PROVE  /\ History!Stopped(s) \in Scans /\ History!Stopped(s).entries = s.entries
         /\ History!Stopped(s).truncated = TRUE /\ History!Stopped(s).stop = TRUE
BY DEF History!Stopped, Scans

LEMMA LateIs ==
  ASSUME NEW s \in Scans
  PROVE  /\ Late(s) \in Scans /\ Late(s).entries = s.entries
         /\ Late(s).truncated = TRUE /\ Late(s).stop = TRUE /\ Late(s).late = TRUE
<1> DEFINE t == History!Stopped(s)
<1>1. t \in Scans /\ t.entries = s.entries /\ t.truncated = TRUE /\ t.stop = TRUE  BY StoppedIs
<1> HIDE DEF t
<1>2. /\ [t EXCEPT !.late = TRUE] \in Scans /\ [t EXCEPT !.late = TRUE].entries = t.entries
      /\ [t EXCEPT !.late = TRUE].truncated = t.truncated
      /\ [t EXCEPT !.late = TRUE].stop = t.stop /\ [t EXCEPT !.late = TRUE].late = TRUE
  BY <1>1 DEF Scans
<1> QED  BY <1>1, <1>2 DEF Late, t

LEMMA ScanType ==
  ASSUME HistoryInv
  PROVE  scan \in Scans /\ Sofar(position) \in Scans /\ ~Sofar(position).late
<1>1. /\ bytes \in Seq(Int) /\ size \in Nat /\ size <= Len(bytes) /\ position \in Nat
      /\ position <= size /\ 0 \in Nat /\ 0 <= size /\ Queried
  BY DEF HistoryInv
<1>2. Sofar(position) \in Scans /\ Entire(0) \in Scans  BY <1>1, SofarType
<1>3. ~Sofar(position).late
  <2>1. Trees!Front(Whole(position)) \in Seq(Seq(Int))  BY <1>1, WholeType
  <2> QED  BY <1>1, <2>1, AllGood DEF Sofar, Good
<1> QED  BY <1>2, <1>3, LateIs DEF HistoryInv

LEMMA SameLines ==
  ASSUME query' = query, NEW s, NEW l
  PROVE  History!OnLines(s, l)' = History!OnLines(s, l)
BY DEF History!OnLines, History!FoldLeft, History!MapThenFoldSet, History!OnLine, History!HasRoom

\* The pieces are the same as long as the file is up to the size it had.
LEMMA SamePieces ==
  ASSUME size' = size, query' = query, NEW p,
         SubSeq(bytes', p + 1, size) = SubSeq(bytes, p + 1, size)
  PROVE  Whole(p)' = Whole(p) /\ Sofar(p)' = Sofar(p) /\ Entire(p)' = Entire(p)
<1>1. Whole(p)' = Whole(p)  BY DEF Whole
<1>2. PICK l, k : l = Whole(p) /\ k = Trees!Front(l)  OBVIOUS
<1>3. Sofar(p)' = History!OnLines(Fresh, k)'  BY <1>1, <1>2 DEF Sofar
<1>4. Entire(p)' = History!OnLines(Fresh, l)'  BY <1>1, <1>2 DEF Entire
<1>5. Sofar(p) = History!OnLines(Fresh, k) /\ Entire(p) = History!OnLines(Fresh, l)
  BY <1>2 DEF Sofar, Entire
<1> QED  BY <1>1, <1>3, <1>4, <1>5, SameLines

LEMMA HistoryOpens == HistoryInv /\ History!OpenScan => HistoryInv'
<1> SUFFICES ASSUME HistoryInv, History!OpenScan PROVE HistoryInv'  OBVIOUS
<1>1. PICK p : p = Len(bytes)  OBVIOUS
<1>2. /\ at = "open" /\ at' = "reading" /\ size' = p /\ position' = p /\ bytes' = bytes
      /\ query' = query /\ leftover' = leftover /\ scan' = scan
  BY <1>1 DEF History!OpenScan
<1>3. bytes \in Seq(Int) /\ p \in Nat /\ Queried /\ position \in Nat /\ position = size
  BY <1>1, <1>2 DEF HistoryInv
<1>4. leftover = <<>> /\ (scan.late => scan = Late(Fresh)) /\ (~scan.late => scan = Fresh)
  <2>1. Trees!Last(Whole(position)) = <<>> /\ Sofar(position) = Fresh  BY <1>3, NothingRead
  <2> QED  BY <1>2, <2>1 DEF HistoryInv
<1>5. Trees!Last(Whole(p))' = <<>> /\ Sofar(p)' = Fresh
  <2>1. <<>> \in Seq(Int) /\ History!Newlines(<<>>) = {}  BY EmptySeq DEF History!Newlines
  <2>2. SubSeq(bytes, p + 1, p) = <<>>  BY <1>3, SubSeqEmpty
  <2>3. Whole(p)' = <<<<>>>>  BY <1>2, <2>1, <2>2, OnePiece DEF Whole
  <2>4. Trees!Front(<<<<>>>>) = <<>> /\ Trees!Last(<<<<>>>>) = <<>>  BY <2>1, OneEnds
  <2>5. PICK k : k = <<>>  OBVIOUS
  <2>6. Sofar(p)' = History!OnLines(Fresh, k)'  BY <2>3, <2>4, <2>5 DEF Sofar
  <2>7. History!OnLines(Fresh, k)' = Fresh  BY <1>2, <2>5, SameLines, OnLinesNone, FreshType
  <2> QED  BY <2>3, <2>4, <2>6, <2>7
<1> QED  BY <1>2, <1>3, <1>4, <1>5, <1>1 DEF HistoryInv, Queried

LEMMA FrontOfConcat ==
  ASSUME NEW S, NEW f \in Seq(S), NEW w \in Seq(S), w # <<>>
  PROVE  /\ Trees!Front(f \o w) = f \o Trees!Front(w) /\ Trees!Last(f \o w) = Trees!Last(w)
         /\ Trees!Front(w) \in Seq(S)
<1> DEFINE u == Trees!Front(w)
           l == Trees!Last(w)
<1>1. u \in Seq(S) /\ l \in S /\ w = Append(u, l)  BY FrontLast
<1> HIDE DEF u, l
<1>2. f \o w = Append(f \o u, l) /\ f \o u \in Seq(S)
  <2>1. <<l>> \in Seq(S) /\ w = u \o <<l>>  BY <1>1, AppendIsConcat
  <2>2. (f \o u) \o <<l>> = f \o (u \o <<l>>)  BY <1>1, <2>1, ConcatAssociative
  <2>3. f \o u \in Seq(S)  BY <1>1, ConcatProperties
  <2>4. Append(f \o u, l) = (f \o u) \o <<l>>  BY <1>1, <2>3, AppendIsConcat
  <2> QED  BY <2>1, <2>2, <2>3, <2>4
<1> DEFINE v == f \o u
<1> HIDE DEF v
<1>3. Trees!Front(Append(v, l)) = v /\ Trees!Last(Append(v, l)) = l
  <2>1. v \in Seq(S)  BY <1>2 DEF v
  <2> QED  BY <1>1, <2>1, LastAppended
<1> QED  BY <1>1, <1>2, <1>3 DEF u, l, v

\* While the scan has not stopped it has not run out of time.
LEMMA InTime ==
  ASSUME HistoryInv, at # "done", ~scan.stop
  PROVE  ~scan.late /\ scan = Sofar(position)
<1>1. ~scan.late
  <2> SUFFICES ASSUME scan.late PROVE FALSE  OBVIOUS
  <2>1. scan = Late(Sofar(position)) /\ Sofar(position) \in Scans  BY ScanType DEF HistoryInv
  <2>2. Late(Sofar(position)).stop = TRUE  BY <2>1, LateIs
  <2> QED  BY <2>1, <2>2
<1> QED  BY <1>1 DEF HistoryInv

LEMMA HistoryReads == HistoryInv /\ History!ReadChunk => HistoryInv'
<1> SUFFICES ASSUME HistoryInv, History!ReadChunk PROVE HistoryInv'  OBVIOUS
<1>0. /\ bytes \in Seq(Int) /\ size \in Nat /\ size <= Len(bytes) /\ position \in Nat
      /\ position <= size /\ Queried /\ at = "reading" /\ position > 0 /\ ~scan.stop
      /\ leftover = Trees!Last(Whole(position))
  BY DEF HistoryInv, History!ReadChunk
<1>1. PICK p : p = IF position > query.chunk THEN position - query.chunk ELSE 0  OBVIOUS
<1>2. p \in Nat /\ p <= position /\ p <= size
  <2>1. query.chunk \in Nat  BY <1>0 DEF Queried
  <2> QED  BY <1>0, <1>1, <2>1
<1> DEFINE w == History!Pieces[SubSeq(bytes, p + 1, position) \o leftover]
           f == Trees!Front(Whole(position))
<1>3. /\ position' = p /\ scan' = History!OnLines(scan, Trees!Front(w))
      /\ leftover' = Trees!Last(w) /\ bytes' = bytes /\ size' = size /\ query' = query /\ at' = at
  BY <1>1, SameEnds DEF History!ReadChunk, History!Rest
<1>4. /\ SubSeq(bytes, p + 1, position) \o leftover \in Seq(Int) /\ Whole(p) = f \o w
  BY <1>0, <1>2, WholeIs
<1>5. w \in Seq(Seq(Int)) /\ w # <<>> /\ f \in Seq(Seq(Int))
  BY <1>0, <1>4, PiecesAre, WholeType
<1> HIDE DEF w
<1>6. scan = History!OnLines(Fresh, f)  BY <1>0, InTime DEF Sofar
<1> HIDE DEF f
<1>7. /\ Trees!Front(Whole(p)) = f \o Trees!Front(w) /\ Trees!Last(Whole(p)) = Trees!Last(w)
      /\ Trees!Front(w) \in Seq(Seq(Int))
  BY <1>4, <1>5, FrontOfConcat
<1>8. scan' = Sofar(p)
  <2>1. History!OnLines(Fresh, f \o Trees!Front(w)) = History!OnLines(scan, Trees!Front(w))
    BY <1>5, <1>6, <1>7, FreshType, OnLinesConcat
  <2> QED  BY <1>3, <1>7, <2>1 DEF Sofar
<1>9. ~Sofar(p).late
  <2>1. Trees!Front(Whole(p)) \in Seq(Seq(Int))  BY <1>0, <1>2, WholeType
  <2> QED  BY <1>0, <2>1, AllGood DEF Sofar, Good
<1>10. Whole(p)' = Whole(p) /\ Sofar(p)' = Sofar(p)  BY <1>3, SamePieces
<1>11. ~scan'.late  BY <1>8, <1>9
<1>12. leftover' = Trees!Last(Whole(p))  BY <1>3, <1>7
<1> QED  BY <1>0, <1>2, <1>3, <1>8, <1>10, <1>11, <1>12 DEF HistoryInv, Queried

LEMMA HistoryRunsOut == HistoryInv /\ History!RunOut => HistoryInv'
<1> SUFFICES ASSUME HistoryInv, History!RunOut PROVE HistoryInv'  OBVIOUS
<1>1. PICK p : p = position  OBVIOUS
<1>2. /\ at = "reading" /\ ~scan.stop /\ scan' = Late(scan) /\ position' = p /\ bytes' = bytes
      /\ size' = size /\ query' = query /\ leftover' = leftover /\ at' = at
  BY <1>1 DEF History!RunOut, Late
<1>3. scan = Sofar(p) /\ scan \in Scans  BY <1>1, <1>2, InTime, ScanType
<1>4. scan'.late = TRUE /\ scan' = Late(Sofar(p))  BY <1>2, <1>3, LateIs
<1>5. Whole(p)' = Whole(p) /\ Sofar(p)' = Sofar(p)  BY <1>2, SamePieces
<1> QED  BY <1>1, <1>2, <1>4, <1>5 DEF HistoryInv, Queried

LEMMA EntireType ==
  ASSUME HistoryInv
  PROVE  Entire(0) \in Scans /\ ~Entire(0).late
<1>1. bytes \in Seq(Int) /\ size \in Nat /\ size <= Len(bytes) /\ 0 \in Nat /\ 0 <= size /\ Queried
  BY DEF HistoryInv
<1>2. Whole(0) \in Seq(Seq(Int)) /\ Entire(0) \in Scans  BY <1>1, WholeType, SofarType
<1> QED  BY <1>1, <1>2, AllGood DEF Entire, Good

LEMMA HistoryFinishes == HistoryInv /\ History!FinishScan => HistoryInv'
<1> SUFFICES ASSUME HistoryInv, History!FinishScan PROVE HistoryInv'  OBVIOUS
<1>0. /\ bytes \in Seq(Int) /\ size \in Nat /\ size <= Len(bytes) /\ position \in Nat
      /\ position <= size /\ 0 <= position /\ 0 \in Nat /\ at = "reading"
      /\ leftover = Trees!Last(Whole(position))
  BY DEF HistoryInv, History!FinishScan
<1>1. PICK p : p = position  OBVIOUS
<1>2. position = 0 \/ scan.stop  BY DEF History!FinishScan
<1>3. /\ scan' = History!OnLines(scan, <<leftover>>)
      /\ at' = "done" /\ position' = p /\ bytes' = bytes /\ size' = size /\ query' = query
  BY <1>1 DEF History!FinishScan
<1>4. /\ Trees!Front(Whole(position)) \in Seq(Seq(Int)) /\ leftover \in Seq(Int)
      /\ Whole(position) = Trees!Front(Whole(position)) \o <<leftover>>
      /\ <<leftover>> \in Seq(Seq(Int))
  <2>1. /\ Trees!Front(Whole(position)) \in Seq(Seq(Int)) /\ leftover \in Seq(Int)
        /\ Whole(position) = Trees!Front(Whole(position)) \o <<leftover>>
    BY <1>0, WholeType
  <2> QED  BY <2>1
<1>5. scan \in Scans  BY ScanType
<1>6. (scan'.late => scan' = Late(Sofar(p))) /\ (~scan'.late => scan' = Entire(0))
  <2>1. CASE scan.stop
    <3>1. scan' = scan  BY <1>3, <1>4, <1>5, <2>1, StoppedStays
    <3>2. CASE scan.late  BY <1>0, <1>1, <3>1, <3>2 DEF HistoryInv
    <3>3. CASE ~scan.late
      <4> DEFINE w == History!Pieces[SubSeq(bytes, 0 + 1, position) \o leftover]
                 f == Trees!Front(Whole(position))
      <4>1. SubSeq(bytes, 0 + 1, position) \o leftover \in Seq(Int) /\ Whole(0) = f \o w
        BY <1>0, WholeIs
      <4>2. w \in Seq(Seq(Int))  BY <4>1, PiecesAre
      <4>3. f \in Seq(Seq(Int)) /\ scan = History!OnLines(Fresh, f)
        BY <1>0, <1>4, <3>3 DEF HistoryInv, Sofar
      <4> HIDE DEF f, w
      <4>4. History!OnLines(Fresh, f \o w) = History!OnLines(scan, w)
        BY <4>2, <4>3, FreshType, OnLinesConcat
      <4>5. History!OnLines(scan, w) = scan  BY <1>5, <2>1, <4>2, StoppedStays
      <4>6. Entire(0) = scan  BY <4>1, <4>4, <4>5 DEF Entire
      <4> QED  BY <3>1, <3>3, <4>6
    <3> QED  BY <3>2, <3>3
  <2>2. CASE ~scan.stop
    <3>1. position = 0 /\ scan = Sofar(position)  BY <1>0, <1>2, <2>2, InTime
    <3> DEFINE f == Trees!Front(Whole(position))
               z == <<leftover>>
    <3>2. f \in Seq(Seq(Int)) /\ scan = History!OnLines(Fresh, f) /\ z \in Seq(Seq(Int))
      BY <1>4, <3>1 DEF Sofar
    <3>3. Whole(0) = f \o z  BY <1>4, <3>1
    <3>4. scan' = History!OnLines(scan, z)  BY <1>3
    <3> HIDE DEF f, z
    <3>5. History!OnLines(Fresh, f \o z) = History!OnLines(scan, z)
      BY <3>2, FreshType, OnLinesConcat
    <3>6. scan' = Entire(0)  BY <3>3, <3>4, <3>5 DEF Entire
    <3> QED  BY <3>6, EntireType
  <2> QED  BY <2>1, <2>2
<1>7. Sofar(p)' = Sofar(p) /\ Entire(0)' = Entire(0)  BY <1>3, SamePieces
<1> QED  BY <1>0, <1>1, <1>3, <1>6, <1>7 DEF HistoryInv, Queried

LEMMA Longer ==
  ASSUME NEW S, NEW s \in Seq(S), NEW t \in Seq(S)
  PROVE  /\ s \o t \in Seq(S) /\ Len(s) <= Len(s \o t) /\ Len(s) \in Nat
         /\ \A i \in 1 .. Len(s) : (s \o t)[i] = s[i]
<1>1. Len(s) \in Nat /\ Len(t) \in Nat  BY LenProperties
<1>2. /\ s \o t \in Seq(S) /\ Len(s \o t) = Len(s) + Len(t)
      /\ \A i \in 1 .. Len(s) + Len(t) : (s \o t)[i] = IF i <= Len(s) THEN s[i] ELSE t[i - Len(s)]
  BY ConcatProperties
<1>3. \A i \in 1 .. Len(s) : i \in 1 .. Len(s) + Len(t) /\ i <= Len(s)  BY <1>1
<1> DEFINE r == s \o t
<1> HIDE DEF r
<1> QED  BY <1>1, <1>2, <1>3

LEMMA SamePart ==
  ASSUME NEW S, NEW s \in Seq(S), NEW t \in Seq(S), NEW n \in Nat, n <= Len(s), Len(s) <= Len(t),
         \A i \in 1 .. Len(s) : t[i] = s[i], NEW q \in Nat, q <= n
  PROVE  SubSeq(t, q + 1, n) = SubSeq(s, q + 1, n)
<1> DEFINE m == q + 1
           x == SubSeq(t, m, n)
           y == SubSeq(s, m, n)
<1>0. Len(s) \in Nat /\ Len(t) \in Nat  BY LenProperties
<1>1. /\ m \in Nat \ {0} /\ m <= n + 1 /\ n <= Len(t)
      /\ \A i \in 1 .. n - m + 1 : m + i - 1 \in 1 .. Len(s)
  BY <1>0
<1> HIDE DEF m
<1>2. x \in Seq(S) /\ Len(x) = n - m + 1 /\ \A i \in 1 .. n - m + 1 : x[i] = t[m + i - 1]
  BY <1>1, PartOf
<1>3. y \in Seq(S) /\ Len(y) = n - m + 1 /\ \A i \in 1 .. n - m + 1 : y[i] = s[m + i - 1]
  BY <1>1, PartOf
<1> HIDE DEF x, y
<1>4. Len(x) = Len(y) /\ \A i \in 1 .. Len(x) : x[i] = y[i]  BY <1>1, <1>2, <1>3
<1>5. x = y  BY <1>2, <1>3, <1>4, SeqEqual
<1> QED  BY <1>5 DEF x, y, m

LEMMA HistoryAppends == HistoryInv /\ History!AppendRecord => HistoryInv'
<1> SUFFICES ASSUME HistoryInv, History!AppendRecord PROVE HistoryInv'  OBVIOUS
<1>0. /\ bytes \in Seq(Int) /\ size \in Nat /\ size <= Len(bytes) /\ position \in Nat
      /\ position <= size /\ 0 \in Nat /\ 0 <= size /\ at # "open"
  BY DEF HistoryInv, History!AppendRecord
<1>1. PICK p : p = position  OBVIOUS
<1> DEFINE e == History!Entry(1)
           z == <<History!Newline>>
           b == (bytes \o e) \o z
<1>2. /\ bytes' = b /\ position' = p /\ size' = size /\ query' = query /\ leftover' = leftover
      /\ at' = at /\ scan' = scan
  BY <1>1 DEF History!AppendRecord
<1>3. /\ b \in Seq(Int) /\ Len(bytes) <= Len(b) /\ Len(bytes) \in Nat
      /\ \A i \in 1 .. Len(bytes) : b[i] = bytes[i]
  <2>1. e \in Seq(Int)  BY DEF History!Entry, History!End
  <2>2. z \in Seq(Int)  BY DEF History!Newline
  <2> HIDE DEF e, z
  <2>3. b = bytes \o (e \o z) /\ e \o z \in Seq(Int)
    <3>1. (bytes \o e) \o z = bytes \o (e \o z)  BY <1>0, <2>1, <2>2, ConcatAssociative, SMTT(30)
    <3>2. e \o z \in Seq(Int)  BY <2>1, <2>2, ConcatProperties
    <3> QED  BY <3>1, <3>2
  <2> DEFINE y == e \o z
  <2> HIDE DEF b, y
  <2>4. /\ bytes \o y \in Seq(Int) /\ Len(bytes) <= Len(bytes \o y) /\ Len(bytes) \in Nat
        /\ \A i \in 1 .. Len(bytes) : (bytes \o y)[i] = bytes[i]
    <3>1. y \in Seq(Int)  BY <2>3 DEF y
    <3> QED  BY <1>0, <3>1, Longer
  <2>5. b = bytes \o y  BY <2>3 DEF y
  <2> QED  BY <2>4, <2>5
<1> HIDE DEF b
<1>4. ASSUME NEW q \in Nat, q <= size
      PROVE  SubSeq(b, q + 1, size) = SubSeq(bytes, q + 1, size)
  <2>1. size \in Nat /\ size <= Len(bytes) /\ bytes \in Seq(Int)  BY DEF HistoryInv
  <2> QED  BY <1>3, <1>4, <2>1, SamePart
<1>5. /\ SubSeq(bytes', p + 1, size) = SubSeq(bytes, p + 1, size)
      /\ SubSeq(bytes', 0 + 1, size) = SubSeq(bytes, 0 + 1, size)
  BY <1>0, <1>1, <1>2, <1>4
<1>6. Whole(p)' = Whole(p) /\ Sofar(p)' = Sofar(p)  BY <1>2, <1>5, SamePieces
<1>7. Entire(0)' = Entire(0)  BY <1>2, <1>5, SamePieces
<1>8. bytes' \in Seq(Int) /\ size' <= Len(bytes')  BY <1>0, <1>2, <1>3
<1> QED  BY <1>0, <1>1, <1>2, <1>6, <1>7, <1>8 DEF HistoryInv, Queried

LEMMA HistoryStutters == HistoryInv /\ UNCHANGED History!vars => HistoryInv'
<1> SUFFICES ASSUME HistoryInv, UNCHANGED History!vars PROVE HistoryInv'  OBVIOUS
<1>1. PICK p : p = position  OBVIOUS
<1>2. /\ bytes' = bytes /\ position' = p /\ size' = size /\ query' = query /\ leftover' = leftover
      /\ at' = at /\ scan' = scan
  BY <1>1 DEF History!vars
<1>3. Whole(p)' = Whole(p) /\ Sofar(p)' = Sofar(p)  BY <1>2, SamePieces
<1>4. Entire(0)' = Entire(0)  BY <1>2, SamePieces
<1> QED  BY <1>1, <1>2, <1>3, <1>4 DEF HistoryInv, Queried

LEMMA HistoryStep == HistoryInv /\ [History!Next]_History!vars => HistoryInv'
BY HistoryOpens, HistoryReads, HistoryRunsOut, HistoryFinishes, HistoryAppends, HistoryStutters
   DEF History!Next

LEMMA StartsWith ==
  ASSUME NEW S, NEW s \in Seq(S), NEW t \in Seq(S), Len(s) <= Len(t),
         \A i \in 1 .. Len(s) : s[i] = t[i]
  PROVE  History!IsPrefix(s, t)
<1> DEFINE n == Len(s)
           x == SubSeq(t, 0 + 1, n)
           y == SubSeq(s, 0 + 1, n)
<1>1. n \in Nat /\ 0 \in Nat /\ 0 <= n /\ n <= Len(s) /\ Len(t) \in Nat  BY LenProperties
<1>2. x = y  BY <1>1, SamePart
<1>3. 0 + 1 = 1  OBVIOUS
<1>4. SubSeq(t, 1, Len(s)) = SubSeq(s, 1, Len(s))  BY <1>2, <1>3
<1> QED  BY <1>4 DEF History!IsPrefix

LEMMA FunctionIsSeq ==
  ASSUME NEW S, NEW n \in Nat, NEW g \in [1 .. n -> S]
  PROVE  g \in Seq(S)
OBVIOUS

LEMMA NumbersOf ==
  ASSUME NEW f \in Seq(Seq(Int)), NEW s \in Seq(Int), Len(s) <= Len(f),
         \A i \in 1 .. Len(s) : s[i] = History!ToHistoryEntry(f[i])
  PROVE  History!IsPrefix(s, History!Numbers(f))
<1> DEFINE g == History!Numbers(f)
           S == Int \cup {History!ToHistoryEntry(f[i]) : i \in 1 .. Len(f)}
<1>1. Len(f) \in Nat /\ Len(s) \in Nat  BY LenProperties
<1>2. g \in Seq(S) /\ Len(g) = Len(f) /\ \A i \in 1 .. Len(f) : g[i] = History!ToHistoryEntry(f[i])
  <2>1. g = [k \in 1 .. Len(f) |-> History!ToHistoryEntry(f[k])]  BY DEF History!Numbers
  <2>2. \A k \in 1 .. Len(f) : History!ToHistoryEntry(f[k]) \in S  OBVIOUS
  <2> HIDE DEF g, S
  <2>3. g \in [1 .. Len(f) -> S]  BY <2>1, <2>2
  <2>4. g \in Seq(S)  BY <1>1, <2>3, FunctionIsSeq
  <2>5. DOMAIN g = 1 .. Len(g) /\ Len(g) \in Nat  BY <2>4, LenProperties
  <2>6. DOMAIN g = 1 .. Len(f)  BY <2>1
  <2>7. Len(g) = Len(f)  BY <1>1, <2>5, <2>6
  <2> QED  BY <2>1, <2>4, <2>7
<1>3. s \in Seq(S)
  <2>1. Int \subseteq S  OBVIOUS
  <2> HIDE DEF S
  <2> QED  BY <2>1, SeqMonotonic
<1> HIDE DEF g, S
<1>4. \A i \in 1 .. Len(s) : s[i] = g[i]  BY <1>1, <1>2
<1>5. History!IsPrefix(s, g)  BY <1>2, <1>3, <1>4, StartsWith
<1> QED  BY <1>5 DEF g

LEMMA HistoryShows == HistoryInv => NewestEntriesFirst
<1> SUFFICES ASSUME HistoryInv, at = "done" PROVE NewestEntriesFirst
  BY DEF NewestEntriesFirst, History!NewestEntriesFirst
<1> DEFINE w == Whole(0)
           m == query.limit
<1>0. /\ bytes \in Seq(Int) /\ size \in Nat /\ size <= Len(bytes) /\ position \in Nat
      /\ position <= size /\ 0 <= position /\ 0 \in Nat /\ 0 <= size /\ Queried
  BY DEF HistoryInv
<1>1. History!Lines = LinesOf(w)
  <2>1. 0 + 1 = 1  OBVIOUS
  <2>2. w = History!Pieces[SubSeq(bytes, 1, size)]  BY <2>1 DEF Whole
  <2> HIDE DEF w
  <2> QED  BY <2>2 DEF History!Lines, LinesOf
<1>2. History!Seen = Scanned(w)  BY <1>1 DEF History!Seen, Scanned
<1>3. History!Found = FoundOf(w)  BY <1>2 DEF History!Found, FoundOf, Matched
<1>4. w \in Seq(Seq(Int))  BY <1>0, WholeType
<1> HIDE DEF w
<1>5. /\ FoundOf(w) \in Seq(Seq(Int)) /\ Len(FoundOf(w)) \in Nat /\ LinesOf(w) \in Seq(Seq(Int))
      /\ Len(LinesOf(w)) \in Nat /\ query.lines \in Nat /\ m \in Nat
  <2>1. query.lines \in Nat /\ m \in Nat /\ <<>> \in Seq(Int)  BY <1>0, EmptySeq DEF Queried
  <2> QED  BY <1>4, <2>1, FoundOfAppend, LinesOfType
<1>6. scan \in Scans /\ scan.entries \in Seq(Int) /\ Len(scan.entries) \in Nat
  <2>1. scan \in Scans  BY ScanType
  <2>2. scan.entries \in Seq(Int)  BY <2>1 DEF Scans
  <2> QED  BY <2>1, <2>2, LenProperties
<1>7. SUFFICES /\ Len(scan.entries) <= m /\ Len(scan.entries) <= Len(FoundOf(w))
               /\ \A i \in 1 .. Len(scan.entries) :
                    scan.entries[i] = History!ToHistoryEntry(FoundOf(w)[i])
               /\ scan.late \/ Len(scan.entries) \in {m, Len(FoundOf(w))}
               /\ scan.truncated
                    = (scan.late \/ Len(FoundOf(w)) > m \/ Len(LinesOf(w)) > query.lines)
  <2>1. \A i \in 1 .. Len(scan.entries) :
          scan.entries[i] = History!ToHistoryEntry(FoundOf(w)[i])
    BY <1>7
  <2>2. History!IsPrefix(scan.entries, History!Numbers(FoundOf(w)))
    BY <1>5, <1>6, <1>7, <2>1, NumbersOf
  <2> QED  BY <1>1, <1>3, <1>7, <2>2 DEF NewestEntriesFirst, History!NewestEntriesFirst
<1>8. CASE ~scan.late
  <2>1. scan = Entire(0)  BY <1>8 DEF HistoryInv
  <2>2. Good(scan, w)  BY <1>0, <1>4, <2>1, AllGood DEF Entire, w
  <2>3. /\ scan.truncated = scan.stop /\ Len(scan.entries) <= m
        /\ Len(scan.entries) <= Len(FoundOf(w))
        /\ \A i \in 1 .. Len(scan.entries) :
             scan.entries[i] = History!ToHistoryEntry(FoundOf(w)[i])
        /\ ~scan.stop => /\ scan.lines = Len(LinesOf(w)) /\ scan.lines <= query.lines
                         /\ Len(scan.entries) = Len(FoundOf(w))
        /\ scan.stop => \/ /\ Len(LinesOf(w)) > query.lines
                           /\ Len(scan.entries) = m \/ Len(scan.entries) = Len(FoundOf(w))
                        \/ Len(FoundOf(w)) > m /\ Len(scan.entries) = m
    BY <2>2 DEF Good
  <2>4. scan.truncated \in BOOLEAN  BY <1>6 DEF Scans
  <2> HIDE DEF m
  <2>5. Len(scan.entries) \in {m, Len(FoundOf(w))}  BY <2>3
  <2>6. scan.truncated = (Len(FoundOf(w)) > m \/ Len(LinesOf(w)) > query.lines)
    <3>1. CASE scan.stop  BY <2>3, <2>4, <3>1
    <3>2. CASE ~scan.stop
      <4>1. ~(Len(FoundOf(w)) > m) /\ ~(Len(LinesOf(w)) > query.lines)  BY <1>5, <2>3, <3>2
      <4> QED  BY <2>3, <2>4, <3>2, <4>1
    <3> QED  BY <3>1, <3>2
  <2> QED  BY <1>8, <2>3, <2>5, <2>6
<1>9. CASE scan.late
  <2> DEFINE s == Sofar(position)
             f == Trees!Front(Whole(position))
             l == Trees!Last(Whole(position))
             v == History!Pieces[SubSeq(bytes, 0 + 1, position) \o l]
  <2>1. /\ s \in Scans /\ scan = Late(s)  BY <1>9, ScanType DEF HistoryInv
  <2>2. scan.entries = s.entries /\ scan.truncated = TRUE  BY <2>1, LateIs
  <2>3. f \in Seq(Seq(Int))  BY <1>0, WholeType
  <2>4. Good(s, f)  BY <1>0, <2>3, AllGood DEF Sofar
  <2>5. SubSeq(bytes, 0 + 1, position) \o l \in Seq(Int) /\ w = f \o v  BY <1>0, WholeIs DEF w
  <2>6. v \in Seq(Seq(Int))  BY <2>5, PiecesAre
  <2> HIDE DEF f, v, s
  <2>7. /\ Len(FoundOf(f)) <= Len(FoundOf(w))
        /\ \A i \in 1 .. Len(FoundOf(f)) : FoundOf(w)[i] = FoundOf(f)[i]
    BY <1>0, <2>3, <2>5, <2>6, FoundFirst
  <2>8. /\ Len(s.entries) <= m /\ Len(s.entries) <= Len(FoundOf(f))
        /\ \A i \in 1 .. Len(s.entries) : s.entries[i] = History!ToHistoryEntry(FoundOf(f)[i])
    BY <2>4 DEF Good
  <2>9. Len(FoundOf(f)) \in Nat  BY <1>5, <2>3, FoundOfAppend, EmptySeq
  <2>10. \A i \in 1 .. Len(s.entries) : i \in 1 .. Len(FoundOf(f))  BY <1>6, <2>2, <2>8, <2>9
  <2>11. \A i \in 1 .. Len(s.entries) : s.entries[i] = History!ToHistoryEntry(FoundOf(w)[i])
    BY <2>7, <2>8, <2>10
  <2>12. Len(s.entries) <= Len(FoundOf(w))  BY <1>5, <1>6, <2>2, <2>7, <2>8, <2>9
  <2> HIDE DEF m
  <2> QED  BY <1>9, <2>2, <2>8, <2>11, <2>12
<1> QED  BY <1>8, <1>9

\* For every journal, wherever the chunks fall, whatever the limits, and whatever is appended
\* meanwhile, a query of the history answers with the newest entries that match, newest first, and
\* says so when it left something out (scanJournalLinesReverse and queryHistory of
\* command-journal.ts).
THEOREM NewestEntriesFirstHolds == History!Spec => []NewestEntriesFirst
<1>1. HistoryInv /\ [History!Next]_History!vars => HistoryInv'  BY HistoryStep
<1> QED  BY <1>1, HistoryStart, HistoryShows, PTL DEF History!Spec
=============================================================================
