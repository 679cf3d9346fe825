----------------------------- MODULE FoldLemmas -----------------------------
(* What the folds of the community modules compute: FlattenSeq of a sequence of *)
(* sequences, when the outer sequence is joined, appended to or cut, and        *)
(* SumFunction of a finite family of numbers.                                   *)
EXTENDS Integers, Sequences, SequencesExt, FiniteSetTheorems, SequenceTheorems,
        WellFoundedInduction, TLAPS

-----------------------------------------------------------------------------
(* Induction.  The library's induction theorem takes an operator; this form  *)
(* takes the set of the numbers that have the property.                      *)

\* a set of numbers has a least member
LEMMA LeastMember ==
  ASSUME NEW T \in SUBSET Nat, T # {}
  PROVE  \E least \in T : \A n \in T : least <= n
<1>1. PICK least \in T : \A n \in T : ~ (<<n, least>> \in OpToRel(<, Nat))
  BY NatLessThanWellFounded, WFMin
<1>2. \A n \in T : ~ (n < least)
  BY <1>1 DEF OpToRel
<1>3. QED
  BY <1>2

\* induction over the natural numbers
LEMMA SetInduction ==
  ASSUME NEW T \in SUBSET Nat, 0 \in T, \A n \in T : n + 1 \in T
  PROVE  \A n \in Nat : n \in T
<1> SUFFICES ASSUME Nat \ T # {} PROVE FALSE
  OBVIOUS
<1>1. PICK least \in Nat \ T : \A n \in Nat \ T : least <= n
  BY LeastMember
<1>2. least # 0 /\ least - 1 \in Nat
  BY <1>1
<1>3. least - 1 \in T
  BY <1>1, <1>2
<1>4. (least - 1) + 1 \in T
  BY <1>3
<1>5. QED
  BY <1>1, <1>4

-----------------------------------------------------------------------------
(* The recursive function in the definition of FlattenSeq. *)

\* f[i] joins the first i members of s
Joins(f, s, n) == f = [i \in 1 .. n |-> IF i = 1 THEN s[i] ELSE f[i - 1] \o s[i]]

LEMMA JoinsExists == ASSUME NEW s PROVE \A n \in Nat : \E f : Joins(f, s, n)
<1> DEFINE T == {n \in Nat : \E f : Joins(f, s, n)}
<1>1. 0 \in T
  <2>1. Joins([i \in 1 .. 0 |-> s], s, 0)
    BY DEF Joins
  <2>2. QED
    BY <2>1
<1>2. ASSUME NEW n \in T PROVE n + 1 \in T
  <2>1. PICK f : Joins(f, s, n)
    OBVIOUS
  <2> DEFINE g == [i \in 1 .. n + 1 |-> IF i <= n THEN f[i]
                                        ELSE IF i = 1 THEN s[i] ELSE f[n] \o s[i]]
  <2>2. ASSUME NEW i \in 1 .. n + 1
        PROVE  g[i] = IF i = 1 THEN s[i] ELSE g[i - 1] \o s[i]
    <3>1. CASE i <= n
      <4>1. i \in 1 .. n /\ g[i] = f[i]
        BY <3>1
      <4>2. i # 1 => i - 1 \in 1 .. n + 1 /\ g[i - 1] = f[i - 1]
        BY <3>1
      <4>3. f[i] = IF i = 1 THEN s[i] ELSE f[i - 1] \o s[i]
        BY <2>1, <4>1 DEF Joins
      <4>4. QED
        BY <4>1, <4>2, <4>3
    <3>2. CASE i = n + 1
      <4>1. i # 1 => n \in 1 .. n + 1 /\ g[n] = f[n] /\ i - 1 = n
        BY <3>2
      <4>2. QED
        BY <3>2, <4>1
    <3>3. QED
      BY <3>1, <3>2
  <2>3. DOMAIN g = 1 .. n + 1 /\ g = [i \in 1 .. n + 1 |-> g[i]]
    OBVIOUS
  <2> HIDE DEF g
  <2>4. g = [i \in 1 .. n + 1 |-> IF i = 1 THEN s[i] ELSE g[i - 1] \o s[i]]
    BY <2>2, <2>3
  <2>5. Joins(g, s, n + 1)
    BY <2>4 DEF Joins
  <2>6. n + 1 \in Nat
    OBVIOUS
  <2>7. QED
    BY <2>5, <2>6
<1> HIDE DEF T
<1>3. \A n \in Nat : n \in T
  <2>1. T \in SUBSET Nat
    BY DEF T
  <2>2. QED
    BY <1>1, <1>2, <2>1, SetInduction
<1>4. QED
  BY <1>3 DEF T

LEMMA JoinsValue ==
  ASSUME NEW f, NEW s, NEW n \in Nat, Joins(f, s, n)
  PROVE  \A i \in 1 .. n : f[i] = IF i = 1 THEN s[i] ELSE f[i - 1] \o s[i]
  BY DEF Joins

\* two such functions agree as far as their sequences do
LEMMA JoinsAgree ==
  ASSUME NEW s, NEW t, NEW m \in Nat, NEW n \in Nat, NEW f, NEW g,
         Joins(f, s, m), Joins(g, t, n), \A i \in 1 .. m : s[i] = t[i], m <= n
  PROVE  \A i \in 1 .. m : f[i] = g[i]
<1> DEFINE T == {k \in Nat : k \in 1 .. m => f[k] = g[k]}
<1>1. \A k \in 1 .. m : f[k] = IF k = 1 THEN s[k] ELSE f[k - 1] \o s[k]
  BY DEF Joins
<1>2. \A k \in 1 .. n : g[k] = IF k = 1 THEN t[k] ELSE g[k - 1] \o t[k]
  BY DEF Joins
<1>3. 0 \in T
  OBVIOUS
<1>4. ASSUME NEW k \in T PROVE k + 1 \in T
  <2> SUFFICES ASSUME k + 1 \in 1 .. m PROVE f[k + 1] = g[k + 1]
    OBVIOUS
  <2>1. k + 1 \in 1 .. n /\ s[k + 1] = t[k + 1] /\ (k + 1) - 1 = k
    OBVIOUS
  <2>2. k # 0 => f[k] = g[k]
    OBVIOUS
  <2>3. QED
    BY <1>1, <1>2, <2>1, <2>2
<1> HIDE DEF T
<1>5. \A k \in Nat : k \in T
  <2>1. T \in SUBSET Nat
    BY DEF T
  <2>2. QED
    BY <1>3, <1>4, <2>1, SetInduction
<1>6. QED
  BY <1>5 DEF T

\* FlattenSeq is the last value of such a function.
LEMMA FlattenJoins ==
  ASSUME NEW s, Len(s) \in Nat, Len(s) # 0
  PROVE  \E f : Joins(f, s, Len(s)) /\ FlattenSeq(s) = f[Len(s)]
<1> DEFINE f == CHOOSE g : Joins(g, s, Len(s))
<1>1. Joins(f, s, Len(s))
  BY JoinsExists
<1>2. FlattenSeq(s) = f[Len(s)]
  BY DEF FlattenSeq, Joins
<1>3. QED
  BY <1>1, <1>2
-----------------------------------------------------------------------------
(* The laws of FlattenSeq. *)

LEMMA FlattenEmpty == FlattenSeq(<< >>) = << >>
  BY DEF FlattenSeq

LEMMA FlattenAppend ==
  ASSUME NEW Q, NEW s \in Seq(Q), NEW x \in Q, << >> \o x = x
  PROVE  FlattenSeq(Append(s, x)) = FlattenSeq(s) \o x
<1> DEFINE t == Append(s, x)
           n == Len(s)
<1>1. /\ n \in Nat /\ Len(t) = n + 1 /\ t[n + 1] = x
      /\ \A i \in 1 .. n : s[i] = t[i]
  BY AppendProperties
<1>2. n + 1 \in Nat /\ n + 1 # 0 /\ n <= n + 1
  BY <1>1
<1>3. PICK g : Joins(g, t, n + 1) /\ FlattenSeq(t) = g[n + 1]
  BY <1>1, <1>2, FlattenJoins
<1>4. CASE n = 0
  <2>1. s = << >>
    BY <1>4, EmptySeq
  <2>2. n + 1 = 1 /\ t[1] = x
    BY <1>1, <1>4
  <2> HIDE DEF t, n
  <2>3. g[1] = x
    BY <1>3, <2>2, JoinsValue
  <2>4. QED
    BY <1>3, <2>1, <2>2, <2>3, FlattenEmpty DEF t
<1>5. CASE n # 0
  <2>1. PICK f : Joins(f, s, n) /\ FlattenSeq(s) = f[n]
    BY <1>5, FlattenJoins
  <2> HIDE DEF t, n
  <2>2. \A i \in 1 .. n : f[i] = g[i]
    BY <1>1, <1>2, <1>3, <2>1, JoinsAgree
  <2>3. \A i \in 1 .. n + 1 : g[i] = IF i = 1 THEN t[i] ELSE g[i - 1] \o t[i]
    BY <1>2, <1>3, JoinsValue
  <2>4. n + 1 \in 1 .. n + 1 /\ n \in 1 .. n /\ (n + 1) - 1 = n /\ n + 1 # 1
    BY <1>1, <1>5
  <2>5. g[n + 1] = g[n] \o t[n + 1]
    BY <2>3, <2>4
  <2>6. QED
    BY <1>1, <1>3, <2>1, <2>2, <2>4, <2>5 DEF t
<1>6. QED
  BY <1>1, <1>4, <1>5

\* Concatenation under a name of its own: the provers rewrite an expanded \o
\* endlessly, and what they need of it are these facts.
Cat(s, t) == s \o t

LEMMA CatType ==
  ASSUME NEW S, NEW s \in Seq(S), NEW t \in Seq(S)
  PROVE  Cat(s, t) \in Seq(S) /\ Len(Cat(s, t)) = Len(s) + Len(t)
  BY ConcatProperties DEF Cat

LEMMA CatValue ==
  ASSUME NEW S, NEW s \in Seq(S), NEW t \in Seq(S), NEW i \in 1 .. Len(s) + Len(t)
  PROVE  Cat(s, t)[i] = IF i <= Len(s) THEN s[i] ELSE t[i - Len(s)]
  BY ConcatProperties DEF Cat

LEMMA CatEmpty ==
  ASSUME NEW S, NEW s \in Seq(S)
  PROVE  << >> \in Seq(S) /\ Cat(s, << >>) = s /\ Cat(<< >>, s) = s
  BY EmptySeq, ConcatEmptySeq DEF Cat

LEMMA CatAssociative ==
  ASSUME NEW S, NEW r \in Seq(S), NEW s \in Seq(S), NEW t \in Seq(S)
  PROVE  Cat(Cat(r, s), t) = Cat(r, Cat(s, t))
<1>1. (r \o s) \o t = r \o (s \o t)
  BY ConcatAssociative
<1>2. QED
  BY <1>1 DEF Cat

LEMMA CatAppend ==
  ASSUME NEW Q, NEW s \in Seq(Q), NEW r \in Seq(Q), NEW x \in Q
  PROVE  Cat(s, Append(r, x)) = Append(Cat(s, r), x)
  BY DEF Cat

LEMMA CatOne ==
  ASSUME NEW Q, NEW s \in Seq(Q), NEW x \in Q
  PROVE  <<x>> \in Seq(Q) /\ Cat(s, <<x>>) = Append(s, x)
  BY DEF Cat

\* two ways to cut a sequence at the same length are one
LEMMA CatCancel ==
  ASSUME NEW S, NEW r \in Seq(S), NEW s \in Seq(S), NEW t \in Seq(S), NEW u \in Seq(S),
         Cat(r, s) = Cat(t, u), Len(r) = Len(t)
  PROVE  r = t /\ s = u
<1>1. /\ Len(Cat(r, s)) = Len(r) + Len(s)
      /\ \A i \in 1 .. Len(r) + Len(s) :
           Cat(r, s)[i] = IF i <= Len(r) THEN r[i] ELSE s[i - Len(r)]
  BY CatType, CatValue
<1>2. /\ Len(Cat(t, u)) = Len(t) + Len(u)
      /\ \A i \in 1 .. Len(t) + Len(u) :
           Cat(t, u)[i] = IF i <= Len(t) THEN t[i] ELSE u[i - Len(t)]
  BY CatType, CatValue
<1>3. Len(r) \in Nat /\ Len(s) \in Nat /\ Len(u) \in Nat
  BY LenProperties
<1>4. Len(s) = Len(u)
  BY <1>1, <1>3, <1>2
<1>5. \A i \in 1 .. Len(r) : r[i] = t[i]
  BY <1>1, <1>3, <1>4, <1>2
<1>6. ASSUME NEW i \in 1 .. Len(s) PROVE s[i] = u[i]
  <2>1. /\ Len(r) + i \in 1 .. Len(r) + Len(s) /\ ~(Len(r) + i <= Len(r))
        /\ (Len(r) + i) - Len(r) = i
    BY <1>3
  <2>2. QED
    BY <1>1, <1>3, <1>4, <1>2, <2>1
<1>7. r = t
  BY <1>5, SeqEqual
<1>8. s = u
  BY <1>4, <1>6, SeqEqual
<1>9. QED
  BY <1>7, <1>8

\* cutting a sequence
LEMMA CatCut ==
  ASSUME NEW S, NEW s \in Seq(S), NEW n \in 0 .. Len(s)
  PROVE  /\ SubSeq(s, 1, n) \in Seq(S) /\ Len(SubSeq(s, 1, n)) = n
         /\ SubSeq(s, n + 1, Len(s)) \in Seq(S)
         /\ Len(SubSeq(s, n + 1, Len(s))) = Len(s) - n
         /\ Cat(SubSeq(s, 1, n), SubSeq(s, n + 1, Len(s))) = s
<1>1. Len(s) \in Nat /\ \A i \in 1 .. Len(s) : s[i] \in S
  BY LenProperties, ElementOfSeq
<1>2. SubSeq(s, 1, n) \in Seq(S) /\ Len(SubSeq(s, 1, n)) = n
  BY <1>1, SubSeqProperties
<1>3. SubSeq(s, n + 1, Len(s)) \in Seq(S) /\ Len(SubSeq(s, n + 1, Len(s))) = Len(s) - n
  BY <1>1, SubSeqProperties
<1>4. 1 \in 1 .. Len(s) + 1 /\ n \in 1 - 1 .. Len(s) /\ Len(s) \in n .. Len(s)
  BY <1>1
<1>5. SubSeq(s, 1, n) \o SubSeq(s, n + 1, Len(s)) = SubSeq(s, 1, Len(s))
  BY <1>4, ConcatAdjacentSubSeq
<1>6. SubSeq(s, 1, Len(s)) = s
  BY SubSeqFull
<1>7. QED
  BY <1>2, <1>3, <1>5, <1>6 DEF Cat

\* a sequence is empty or has a last member
LEMMA LastMember ==
  ASSUME NEW Q, NEW n \in Nat, NEW t \in Seq(Q), Len(t) = n + 1
  PROVE  \E r \in Seq(Q), x \in Q : t = Append(r, x) /\ Len(r) = n
<1>1. t # << >>
  OBVIOUS
<1>2. PICK r \in Seq(Q), x \in Q : t = Append(r, x)
  BY <1>1, SequenceEmptyOrAppend
<1>3. Len(r) = n
  BY <1>2, AppendProperties
<1>4. QED
  BY <1>2, <1>3

LEMMA FlattenAppendCat ==
  ASSUME NEW S, NEW Q \in SUBSET Seq(S), NEW s \in Seq(Q), NEW x \in Q
  PROVE  FlattenSeq(Append(s, x)) = Cat(FlattenSeq(s), x)
<1>1. << >> \o x = x
  BY ConcatEmptySeq
<1>2. FlattenSeq(Append(s, x)) = FlattenSeq(s) \o x
  BY <1>1, FlattenAppend
<1>3. QED
  BY <1>2 DEF Cat

\* joining sequences over S gives a sequence over S
LEMMA FlattenType ==
  ASSUME NEW S, NEW Q \in SUBSET Seq(S), NEW s \in Seq(Q)
  PROVE  FlattenSeq(s) \in Seq(S)
<1> DEFINE T == {n \in Nat : \A t \in Seq(Q) : Len(t) = n => FlattenSeq(t) \in Seq(S)}
<1>1. 0 \in T
  BY FlattenEmpty, EmptySeq
<1>2. ASSUME NEW n \in T PROVE n + 1 \in T
  <2> SUFFICES ASSUME NEW t \in Seq(Q), Len(t) = n + 1 PROVE FlattenSeq(t) \in Seq(S)
    OBVIOUS
  <2>1. PICK r \in Seq(Q), x \in Q : t = Append(r, x) /\ Len(r) = n
    BY LastMember
  <2>2. FlattenSeq(r) \in Seq(S) /\ x \in Seq(S)
    BY <2>1
  <2>3. FlattenSeq(t) = Cat(FlattenSeq(r), x)
    BY <2>1, FlattenAppendCat
  <2>4. QED
    BY <2>2, <2>3, CatType
<1> HIDE DEF T
<1>3. \A n \in Nat : n \in T
  <2>1. T \in SUBSET Nat
    BY DEF T
  <2>2. QED
    BY <1>1, <1>2, <2>1, SetInduction
<1>4. Len(s) \in T
  BY <1>3
<1>5. QED
  BY <1>4 DEF T

\* joining distributes over concatenation
LEMMA FlattenCat ==
  ASSUME NEW S, NEW Q \in SUBSET Seq(S), NEW s \in Seq(Q), NEW t \in Seq(Q)
  PROVE  FlattenSeq(Cat(s, t)) = Cat(FlattenSeq(s), FlattenSeq(t))
<1> DEFINE Law(u) == FlattenSeq(Cat(s, u)) = Cat(FlattenSeq(s), FlattenSeq(u))
           U == {n \in Nat : \A u \in Seq(Q) : Len(u) = n => Law(u)}
<1>1. \A u \in Seq(Q) : FlattenSeq(u) \in Seq(S)
  BY FlattenType
<1>2. 0 \in U
  <2> SUFFICES ASSUME NEW u \in Seq(Q), Len(u) = 0 PROVE Law(u)
    OBVIOUS
  <2>1. u = << >>
    BY EmptySeq
  <2>2. Cat(s, << >>) = s /\ Cat(FlattenSeq(s), << >>) = FlattenSeq(s)
    BY <1>1, CatEmpty
  <2>3. QED
    BY <2>1, <2>2, FlattenEmpty
<1>3. ASSUME NEW n \in U PROVE n + 1 \in U
  <2> SUFFICES ASSUME NEW u \in Seq(Q), Len(u) = n + 1 PROVE Law(u)
    OBVIOUS
  <2>1. PICK r \in Seq(Q), x \in Q : u = Append(r, x) /\ Len(r) = n
    BY LastMember
  <2>2. Cat(s, r) \in Seq(Q) /\ Cat(s, u) = Append(Cat(s, r), x)
    BY <2>1, CatType, CatAppend
  <2>3. FlattenSeq(Cat(s, r)) = Cat(FlattenSeq(s), FlattenSeq(r))
    BY <2>1
  <2>4. FlattenSeq(u) = Cat(FlattenSeq(r), x)
    BY <2>1, FlattenAppendCat
  <2>5. FlattenSeq(Cat(s, u)) = Cat(FlattenSeq(Cat(s, r)), x)
    BY <2>2, FlattenAppendCat
  <2>6. FlattenSeq(s) \in Seq(S) /\ FlattenSeq(r) \in Seq(S) /\ x \in Seq(S)
    BY <1>1, <2>1
  <2>7. Cat(Cat(FlattenSeq(s), FlattenSeq(r)), x) = Cat(FlattenSeq(s), Cat(FlattenSeq(r), x))
    BY <2>6, CatAssociative
  <2>8. QED
    BY <2>3, <2>4, <2>5, <2>7
<1> HIDE DEF U
<1>4. \A n \in Nat : n \in U
  <2>1. U \in SUBSET Nat
    BY DEF U
  <2>2. QED
    BY <1>2, <1>3, <2>1, SetInduction
<1>5. Len(t) \in U
  BY <1>4
<1>6. QED
  BY <1>5 DEF U

LEMMA FlattenOne == ASSUME NEW x, << >> \o x = x PROVE FlattenSeq(<<x>>) = x
<1>1. << >> \in Seq({x}) /\ <<x>> = Append(<< >>, x)
  BY EmptySeq
<1>2. QED
  BY <1>1, FlattenAppend, FlattenEmpty

\* the first member comes first
LEMMA FlattenCons ==
  ASSUME NEW S, NEW Q \in SUBSET Seq(S), NEW x \in Q, NEW s \in Seq(Q)
  PROVE  FlattenSeq(Cat(<<x>>, s)) = Cat(x, FlattenSeq(s))
<1>1. <<x>> \in Seq(Q) /\ << >> \o x = x
  BY ConcatEmptySeq
<1>2. FlattenSeq(<<x>>) = x
  BY <1>1, FlattenOne
<1>3. FlattenSeq(Cat(<<x>>, s)) = Cat(FlattenSeq(<<x>>), FlattenSeq(s))
  BY <1>1, FlattenCat
<1>4. QED
  BY <1>2, <1>3

LEMMA HeadCatTail ==
  ASSUME NEW Q, NEW s \in Seq(Q), s # << >>
  PROVE  /\ Head(s) \in Q /\ Tail(s) \in Seq(Q) /\ <<Head(s)>> \in Seq(Q)
         /\ s = Cat(<<Head(s)>>, Tail(s))
  BY DEF Cat

LEMMA FlattenHead ==
  ASSUME NEW S, NEW Q \in SUBSET Seq(S), NEW s \in Seq(Q), s # << >>
  PROVE  FlattenSeq(s) = Cat(Head(s), FlattenSeq(Tail(s)))
<1>1. Head(s) \in Q /\ Tail(s) \in Seq(Q) /\ s = Cat(<<Head(s)>>, Tail(s))
  BY HeadCatTail
<1>2. FlattenSeq(Cat(<<Head(s)>>, Tail(s))) = Cat(Head(s), FlattenSeq(Tail(s)))
  BY <1>1, FlattenCons
<1>3. QED
  BY <1>1, <1>2

-----------------------------------------------------------------------------
(* Joining what a function makes of the members of a sequence. *)

Mapped(F, s) == [i \in DOMAIN s |-> F[s[i]]]
JoinMap(F, s) == FlattenSeq(Mapped(F, s))

\* F makes a member of Q of each member of A, and the members of Q are sequences
\* over S; under names of their own, by which the provers find the lemmas
IntoSet(F, A, Q) == F \in [A -> Q]
Maps(F, A, Q, S) == Q \in SUBSET Seq(S) /\ F \in [A -> Q]

LEMMA MappedType ==
  ASSUME NEW A, NEW Q, NEW F, IntoSet(F, A, Q), NEW s \in Seq(A)
  PROVE  /\ Mapped(F, s) \in Seq(Q) /\ Len(Mapped(F, s)) = Len(s)
         /\ \A i \in 1 .. Len(s) : Mapped(F, s)[i] = F[s[i]]
<1>1. Len(s) \in Nat /\ DOMAIN s = 1 .. Len(s) /\ \A i \in 1 .. Len(s) : s[i] \in A
  BY LenProperties, ElementOfSeq
<1>2. Mapped(F, s) \in [1 .. Len(s) -> Q]
  BY <1>1 DEF Mapped, IntoSet
<1>3. Mapped(F, s) \in Seq(Q) /\ Len(Mapped(F, s)) = Len(s)
  BY <1>1, <1>2
<1>4. \A i \in 1 .. Len(s) : Mapped(F, s)[i] = F[s[i]]
  BY <1>1 DEF Mapped
<1>5. QED
  BY <1>3, <1>4

LEMMA MappedCat ==
  ASSUME NEW A, NEW Q, NEW F, IntoSet(F, A, Q), NEW s \in Seq(A), NEW t \in Seq(A)
  PROVE  Mapped(F, Cat(s, t)) = Cat(Mapped(F, s), Mapped(F, t))
<1> DEFINE u == Cat(s, t)
           ms == Mapped(F, s)
           mt == Mapped(F, t)
           mu == Mapped(F, u)
<1>1. u \in Seq(A) /\ Len(u) = Len(s) + Len(t) /\ Len(s) \in Nat /\ Len(t) \in Nat
  BY CatType, LenProperties
<1>2. /\ ms \in Seq(Q) /\ Len(ms) = Len(s) /\ \A i \in 1 .. Len(s) : ms[i] = F[s[i]]
      /\ mt \in Seq(Q) /\ Len(mt) = Len(t) /\ \A i \in 1 .. Len(t) : mt[i] = F[t[i]]
  <2>1. ms \in Seq(Q) /\ Len(ms) = Len(s) /\ \A i \in 1 .. Len(s) : ms[i] = F[s[i]]
    BY MappedType
  <2>2. mt \in Seq(Q) /\ Len(mt) = Len(t) /\ \A i \in 1 .. Len(t) : mt[i] = F[t[i]]
    BY MappedType
  <2>3. QED
    BY <2>1, <2>2
<1>3. mu \in Seq(Q) /\ Len(mu) = Len(u) /\ \A i \in 1 .. Len(u) : mu[i] = F[u[i]]
  <2> HIDE DEF u
  <2>1. QED
    BY <1>1, MappedType
<1>4. \A i \in 1 .. Len(s) + Len(t) : u[i] = IF i <= Len(s) THEN s[i] ELSE t[i - Len(s)]
  BY CatValue
<1> HIDE DEF u, ms, mt, mu
<1>5. Cat(ms, mt) \in Seq(Q) /\ Len(Cat(ms, mt)) = Len(ms) + Len(mt)
  BY <1>2, CatType
<1>6. \A i \in 1 .. Len(ms) + Len(mt) :
        Cat(ms, mt)[i] = IF i <= Len(ms) THEN ms[i] ELSE mt[i - Len(ms)]
  BY <1>2, CatValue
<1>7. ASSUME NEW i \in 1 .. Len(u) PROVE mu[i] = Cat(ms, mt)[i]
  <2>1. i <= Len(s) => i \in 1 .. Len(s)
    BY <1>1
  <2>2. ~(i <= Len(s)) => i - Len(s) \in 1 .. Len(t)
    BY <1>1
  <2>3. mu[i] = F[u[i]] /\ i \in 1 .. Len(s) + Len(t)
    BY <1>1, <1>3
  <2>4. Cat(ms, mt)[i] = IF i <= Len(s) THEN ms[i] ELSE mt[i - Len(s)]
    BY <1>2, <1>6, <2>3
  <2>5. CASE i <= Len(s)
    BY <1>2, <1>4, <2>1, <2>3, <2>4, <2>5
  <2>6. CASE ~(i <= Len(s))
    BY <1>2, <1>4, <2>2, <2>3, <2>4, <2>6
  <2>7. QED
    BY <2>5, <2>6
<1>8. Len(mu) = Len(Cat(ms, mt))
  BY <1>1, <1>2, <1>3, <1>5
<1>9. mu = Cat(ms, mt)
  BY <1>3, <1>5, <1>7, <1>8, SeqEqual
<1>10. QED
  BY <1>9 DEF u, ms, mt, mu

LEMMA JoinMapType ==
  ASSUME NEW A, NEW S, NEW Q, NEW F, Maps(F, A, Q, S), NEW s \in Seq(A)
  PROVE  JoinMap(F, s) \in Seq(S)
<1>1. IntoSet(F, A, Q)
  BY DEF Maps, IntoSet
<1>2. Mapped(F, s) \in Seq(Q)
  BY <1>1, MappedType
<1>3. FlattenSeq(Mapped(F, s)) \in Seq(S)
  BY <1>2, FlattenType DEF Maps
<1>4. QED
  BY <1>3 DEF JoinMap

LEMMA JoinMapCat ==
  ASSUME NEW A, NEW S, NEW Q, NEW F, Maps(F, A, Q, S),
         NEW s \in Seq(A), NEW t \in Seq(A)
  PROVE  JoinMap(F, Cat(s, t)) = Cat(JoinMap(F, s), JoinMap(F, t))
<1>1. IntoSet(F, A, Q)
  BY DEF Maps, IntoSet
<1>2. Mapped(F, s) \in Seq(Q) /\ Mapped(F, t) \in Seq(Q)
  BY <1>1, MappedType
<1>3. FlattenSeq(Cat(Mapped(F, s), Mapped(F, t)))
        = Cat(FlattenSeq(Mapped(F, s)), FlattenSeq(Mapped(F, t)))
  BY <1>2, FlattenCat DEF Maps
<1>4. Mapped(F, Cat(s, t)) = Cat(Mapped(F, s), Mapped(F, t))
  BY <1>1, MappedCat
<1>5. QED
  BY <1>3, <1>4 DEF JoinMap

LEMMA JoinMapEmpty ==
  ASSUME NEW F
  PROVE  JoinMap(F, << >>) = << >>
<1>1. Mapped(F, << >>) = << >>
  BY DEF Mapped
<1>2. QED
  BY <1>1, FlattenEmpty DEF JoinMap

LEMMA JoinMapOne ==
  ASSUME NEW A, NEW S, NEW Q, NEW F, Maps(F, A, Q, S), NEW x \in A
  PROVE  JoinMap(F, <<x>>) = F[x]
<1>1. Mapped(F, <<x>>) = <<F[x]>>
  BY DEF Mapped
<1>2. << >> \o F[x] = F[x]
  <2>1. F[x] \in Seq(S)
    BY DEF Maps
  <2>2. QED
    BY <2>1, ConcatEmptySeq
<1>3. QED
  BY <1>1, <1>2, FlattenOne DEF JoinMap

LEMMA JoinMapAppend ==
  ASSUME NEW A, NEW S, NEW Q, NEW F, Maps(F, A, Q, S), NEW s \in Seq(A), NEW x \in A
  PROVE  JoinMap(F, Append(s, x)) = Cat(JoinMap(F, s), F[x])
<1> DEFINE one == <<x>>
<1>1. one \in Seq(A) /\ Append(s, x) = Cat(s, one) /\ JoinMap(F, one) = F[x]
  BY CatOne, JoinMapOne
<1> HIDE DEF one
<1>2. JoinMap(F, Cat(s, one)) = Cat(JoinMap(F, s), JoinMap(F, one))
  BY <1>1, JoinMapCat
<1>3. QED
  BY <1>1, <1>2

LEMMA JoinMapHead ==
  ASSUME NEW A, NEW S, NEW Q, NEW F, Maps(F, A, Q, S), NEW s \in Seq(A), s # << >>
  PROVE  JoinMap(F, s) = Cat(F[Head(s)], JoinMap(F, Tail(s)))
<1> DEFINE one == <<Head(s)>>
           others == Tail(s)
<1>1. Head(s) \in A /\ others \in Seq(A) /\ one \in Seq(A)
  BY HeadCatTail
<1>2. s = Cat(one, others)
  BY HeadCatTail
<1>3. JoinMap(F, one) = F[Head(s)]
  BY <1>1, JoinMapOne
<1> HIDE DEF one, others
<1>4. JoinMap(F, Cat(one, others)) = Cat(JoinMap(F, one), JoinMap(F, others))
  BY <1>1, JoinMapCat
<1>5. QED
  BY <1>2, <1>3, <1>4 DEF others

-----------------------------------------------------------------------------
(* The recursive function in the definition of SumFunction.                   *)

Pick(s) == CHOOSE x \in s : TRUE

\* what the sum h over a set s is, by the sum over s without one of its members
SumStep(h, g, s) == IF s = {} THEN 0 ELSE g[Pick(s)] + h[s \ {Pick(s)}]
Sums(h, g) == h = [s \in SUBSET DOMAIN g |-> SumStep(h, g, s)]

LEMMA SumIsLast == ASSUME NEW g PROVE SumFunction(g) = (CHOOSE h : Sums(h, g))[DOMAIN g]
  BY DEF SumFunction, SumFunctionOnSet, FoldFunctionOnSet, MapThenFoldSet, Sums, SumStep, Pick

LEMMA PickRemoved ==
  ASSUME NEW D, IsFiniteSet(D), NEW s \in SUBSET D, s # {}
  PROVE  /\ Pick(s) \in s /\ s \ {Pick(s)} \in SUBSET D
         /\ Cardinality(s) \in Nat /\ Cardinality(s \ {Pick(s)}) \in Nat
         /\ Cardinality(s \ {Pick(s)}) = Cardinality(s) - 1
<1>1. Pick(s) \in s
  BY DEF Pick
<1>2. IsFiniteSet(s) /\ Cardinality(s) \in Nat
  BY FS_Subset, FS_CardinalityType
<1>3. Cardinality(s \ {Pick(s)}) = Cardinality(s) - 1 /\ IsFiniteSet(s \ {Pick(s)})
  BY <1>1, <1>2, FS_RemoveElement
<1>4. QED
  BY <1>1, <1>2, <1>3, FS_CardinalityType

\* h is right on the sets of at most n members
SumsUpTo(h, g, n) == \A s \in SUBSET DOMAIN g : Cardinality(s) <= n => h[s] = SumStep(h, g, s)

LEMMA SumsExist ==
  ASSUME NEW D, IsFiniteSet(D), NEW g \in [D -> Nat] PROVE \E h : Sums(h, g)
<1> DEFINE T == {n \in Nat : \E h : DOMAIN h = SUBSET D /\ h = [s \in SUBSET D |-> h[s]]
                                    /\ SumsUpTo(h, g, n)}
<1>1. \A s \in SUBSET D : IsFiniteSet(s) /\ Cardinality(s) \in Nat
  BY FS_Subset, FS_CardinalityType
<1>2. 0 \in T
  <2> DEFINE h == [s \in SUBSET D |-> 0]
  <2>1. \A s \in SUBSET D : Cardinality(s) <= 0 => s = {}
    BY <1>1, FS_EmptySet
  <2>2. SumsUpTo(h, g, 0)
    BY <2>1 DEF SumsUpTo, SumStep
  <2>3. QED
    BY <2>2
<1>3. ASSUME NEW n \in T PROVE n + 1 \in T
  <2>1. PICK h : DOMAIN h = SUBSET D /\ SumsUpTo(h, g, n)
    OBVIOUS
  <2> DEFINE k == [s \in SUBSET D |-> IF Cardinality(s) <= n THEN h[s] ELSE SumStep(h, g, s)]
  <2>2. \A s \in SUBSET D : k[s] = SumStep(h, g, s)
    BY <2>1 DEF SumsUpTo
  <2>3. \A s \in SUBSET D : Cardinality(s) <= n => k[s] = h[s]
    OBVIOUS
  <2> HIDE DEF k
  <2>4. ASSUME NEW s \in SUBSET D, Cardinality(s) <= n + 1 PROVE k[s] = SumStep(k, g, s)
    <3>1. CASE s = {}
      BY <2>2, <3>1 DEF SumStep
    <3>2. CASE s # {}
      <4>1. s \ {Pick(s)} \in SUBSET D /\ Cardinality(s \ {Pick(s)}) <= n
        BY <2>4, <3>2, PickRemoved
      <4>2. k[s \ {Pick(s)}] = h[s \ {Pick(s)}]
        BY <2>3, <4>1
      <4>3. k[s] = SumStep(h, g, s)
        BY <2>2
      <4>4. QED
        BY <4>2, <4>3 DEF SumStep
    <3>3. QED
      BY <3>1, <3>2
  <2>5. SumsUpTo(k, g, n + 1)
    BY <2>4 DEF SumsUpTo
  <2>6. DOMAIN k = SUBSET D /\ k = [s \in SUBSET D |-> k[s]]
    BY DEF k
  <2>7. QED
    BY <2>5, <2>6
<1>4. Cardinality(D) \in T
  <2>1. T \in SUBSET Nat
    OBVIOUS
  <2> HIDE DEF T
  <2>2. \A n \in Nat : n \in T
    BY <1>2, <1>3, <2>1, SetInduction
  <2>3. QED
    BY <1>1, <2>2
<1>5. PICK h : /\ DOMAIN h = SUBSET D /\ h = [s \in SUBSET D |-> h[s]]
               /\ SumsUpTo(h, g, Cardinality(D))
  BY <1>4
<1>6. \A s \in SUBSET D : Cardinality(s) <= Cardinality(D)
  BY FS_Subset
<1>7. \A s \in SUBSET D : h[s] = SumStep(h, g, s)
  BY <1>5, <1>6 DEF SumsUpTo
<1>8. Sums(h, g)
  BY <1>5, <1>7 DEF Sums
<1>9. QED
  BY <1>8

\* No number of a finite family is above their sum.
LEMMA SumAbove ==
  ASSUME NEW D, IsFiniteSet(D), NEW g \in [D -> Nat]
  PROVE  SumFunction(g) \in Nat /\ \A x \in D : g[x] <= SumFunction(g)
<1> DEFINE h == CHOOSE f : Sums(f, g)
           Above(s) == h[s] \in Nat /\ \A x \in s : g[x] <= h[s]
           T == {n \in Nat : \A s \in SUBSET D : Cardinality(s) = n => Above(s)}
<1>1. Sums(h, g)
  BY SumsExist
<1> HIDE DEF h
<1>2. \A s \in SUBSET D : h[s] = SumStep(h, g, s)
  BY <1>1 DEF Sums
<1>3. \A s \in SUBSET D : IsFiniteSet(s) /\ Cardinality(s) \in Nat
  BY FS_Subset, FS_CardinalityType
<1>4. 0 \in T
  <2>1. \A s \in SUBSET D : Cardinality(s) = 0 => s = {}
    BY <1>3, FS_EmptySet
  <2>2. QED
    BY <1>2, <2>1 DEF SumStep
<1>5. ASSUME NEW n \in T PROVE n + 1 \in T
  <2> SUFFICES ASSUME NEW s \in SUBSET D, Cardinality(s) = n + 1 PROVE Above(s)
    OBVIOUS
  <2>1. s # {}
    <3>1. Cardinality({}) = 0 /\ n \in Nat
      BY FS_EmptySet
    <3>2. QED
      BY <3>1
  <2> DEFINE r == s \ {Pick(s)}
  <2>2. Pick(s) \in s /\ r \in SUBSET D /\ Cardinality(r) = n
    BY <2>1, PickRemoved
  <2>3. Above(r)
    BY <2>2
  <2>4. h[s] = g[Pick(s)] + h[r] /\ g[Pick(s)] \in Nat
    BY <1>2, <2>1, <2>2 DEF SumStep
  <2>5. ASSUME NEW x \in s PROVE g[x] <= h[s]
    <3>1. CASE x = Pick(s)
      BY <2>3, <2>4, <3>1
    <3>2. CASE x # Pick(s)
      <4>1. x \in r /\ g[x] \in Nat /\ g[x] <= h[r]
        BY <2>3, <3>2
      <4>2. QED
        BY <2>3, <2>4, <4>1
    <3>3. QED
      BY <3>1, <3>2
  <2>6. h[s] \in Nat
    BY <2>3, <2>4
  <2>7. QED
    BY <2>5, <2>6
<1>6. \A n \in Nat : n \in T
  <2>1. T \in SUBSET Nat
    OBVIOUS
  <2> HIDE DEF T
  <2>2. QED
    BY <1>4, <1>5, <2>1, SetInduction
<1>7. Above(D)
  BY <1>3, <1>6
<1>8. QED
  BY <1>7, SumIsLast DEF h
=============================================================================
