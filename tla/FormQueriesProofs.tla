---------------------------- MODULE FormQueriesProofs ----------------------------
(***************************************************************************)
(* Proofs about FormQueries, for any number of calls, targets, forms and   *)
(* fields, any qualification, any lifetimes and any size of the caches:    *)
(* answers keep to the policy and to their age, and loads are shared.      *)
(*                                                                         *)
(* The first part compares the two readings of a qualification, by         *)
(* induction over its positions.  It ends in ConsultedIsReferenced: what   *)
(* AR System consults the gateway has checked.  The second part is the     *)
(* inductive invariant of the calls, the queues of the locks and the       *)
(* caches, and one lemma for each action.                                  *)
(***************************************************************************)
EXTENDS FormQueries, SequenceTheorems, FiniteSetTheorems, WellFoundedInduction,
        TLAPS

(***************************************************************************)
(* How a recursive function is unfolded                                    *)
(***************************************************************************)

\* A set of natural numbers has a least element: < is well-founded.
LEMMA NatMin ==
  ASSUME NEW T \in SUBSET Nat, T # {}
  PROVE  \E m \in T : \A n \in T : m <= n
<1> DEFINE R == OpToRel(<, Nat)
<1>1. IsWellFoundedOn(R, Nat)
  BY NatLessThanWellFounded
<1>2. R = {ss \in Nat \X Nat : ss[1] < ss[2]}
  BY DEF OpToRel
<1> HIDE DEF R
<1>3. PICK x \in T : \A y \in T : ~(<<y, x>> \in R)
  BY <1>1, WFMin
<1>4. ASSUME NEW n \in T PROVE x <= n
  <2>1. <<n, x>> \notin R /\ n \in Nat /\ x \in Nat
    BY <1>3
  <2>2. ~(n < x)
    BY <2>1, <1>2
  <2>3. QED
    BY <2>1, <2>2
<1>5. QED
  BY <1>4

\* What holds at n + 1, and at k if at k + 1, holds at 1.
LEMMA Downward ==
  ASSUME NEW n \in Nat, NEW G \in SUBSET Int,
         n + 1 \in G, \A k \in 1..n : k + 1 \in G => k \in G
  PROVE  1 \in G
<1> SUFFICES ASSUME 1 \notin G PROVE FALSE
  OBVIOUS
<1> DEFINE T == {m \in 0..n : n + 1 - m \notin G}
<1>1. n \in T /\ T \in SUBSET Nat
  OBVIOUS
<1>2. PICK m \in T : \A x \in T : m <= x
  BY <1>1, NatMin
<1>3. m # 0 /\ m - 1 \notin T
  BY <1>2
<1>4. n + 1 - (m - 1) \in G
  BY <1>2, <1>3
<1>5. n + 1 - m \in 1..n /\ (n + 1 - m) + 1 \in G
  BY <1>2, <1>3, <1>4
<1>6. QED
  BY <1>2, <1>5

(***************************************************************************)
(* The two readings of a text                                              *)
(***************************************************************************)

\* Tokens satisfies its recursive equation: such a function exists.
LEMMA TokensRecursion ==
  ASSUME NEW text \in Seq(STRING), NEW d
  PROVE  \A i \in 1..Len(text) + 1 :
    Tokens(text, d)[i] =
        IF i > Len(text) THEN Unterminated
        ELSE IF text[i] # d THEN Prepend(text[i], Tokens(text, d)[i + 1])
        ELSE IF i < Len(text) /\ text[i + 1] = d THEN Prepend(d, Tokens(text, d)[i + 2])
        ELSE <<<<>>, i + 1>>
<1> DEFINE S == 1..Len(text) + 1
           Body(g, i) ==
        IF i > Len(text) THEN Unterminated
        ELSE IF text[i] # d THEN Prepend(text[i], g[i + 1])
        ELSE IF i < Len(text) /\ text[i + 1] = d THEN Prepend(d, g[i + 2])
        ELSE <<<<>>, i + 1>>
           Good(k) == \E g : g = [i \in S |-> g[i]] /\ \A i \in S : i >= k => g[i] = Body(g, i)
<1>0. Len(text) \in Nat
  OBVIOUS
<1>1. Good(Len(text) + 2)
  <2>1. \A i \in S : ~ (i >= Len(text) + 2)
    BY <1>0
  <2> DEFINE g == [i \in S |-> 0]
  <2>2. g = [i \in S |-> g[i]]
    OBVIOUS
  <2> HIDE DEF g, Body
  <2>3. QED
    BY <2>1, <2>2
<1>2. ASSUME NEW k \in S, Good(k + 1) PROVE Good(k)
  <2>1. PICK g : g = [i \in S |-> g[i]] /\ \A i \in S : i >= k + 1 => g[i] = Body(g, i)
    BY <1>2
  <2> DEFINE b == Body(g, k)
             h == [i \in S |-> IF i = k THEN b ELSE g[i]]
  <2>2. ASSUME NEW i \in S, i >= k PROVE Body(h, i) = Body(g, i)
    <3> HIDE DEF b
    <3>1. i <= Len(text) => h[i + 1] = g[i + 1]
      BY <1>0, <2>2
    <3>2. i < Len(text) => h[i + 2] = g[i + 2]
      BY <1>0, <2>2
    <3> HIDE DEF h
    <3>3. QED
      BY <1>0, <3>1, <3>2
  <2>3. ASSUME NEW i \in S, i >= k PROVE h[i] = Body(g, i)
    <3> HIDE DEF Body
    <3>1. CASE i = k
      BY <3>1
    <3>2. CASE i # k
      BY <3>2, <2>1, <2>3, <1>0
    <3>3. QED
      BY <3>1, <3>2
  <2>4. h = [i \in S |-> h[i]]
    <3> HIDE DEF b
    <3> QED OBVIOUS
  <2> HIDE DEF h, b, Body
  <2>5. QED
    BY <2>2, <2>3, <2>4
<1> DEFINE G == {k \in Int : Good(k)}
<1>3. Good(1)
  <2> HIDE DEF Good
  <2>1. G \in SUBSET Int /\ Len(text) + 2 \in G
    BY <1>0, <1>1
  <2>2. \A k \in 1..Len(text) + 1 : k + 1 \in G => k \in G
    BY <1>0, <1>2
  <2> HIDE DEF G
  <2>3. 1 \in G
    BY <1>0, <2>1, <2>2, Downward
  <2>4. QED
    BY <2>3 DEF G
<1>4. \E g : g = [i \in S |-> Body(g, i)]
  <2> HIDE DEF Body
  <2>1. PICK g : g = [i \in S |-> g[i]] /\ \A i \in S : i >= 1 => g[i] = Body(g, i)
    BY <1>3
  <2>2. g = [i \in S |-> Body(g, i)]
    BY <2>1
  <2> QED BY <2>2
<1>5. Tokens(text, d) = [i \in S |-> Body(Tokens(text, d), i)]
  <2>1. Tokens(text, d) = CHOOSE g : g = [i \in S |-> Body(g, i)]
    BY DEF Tokens
  <2> HIDE DEF Body
  <2>2. QED
    BY <1>4, <2>1
<1>6. \A i \in S : Tokens(text, d)[i] = Body(Tokens(text, d), i)
  <2> HIDE DEF Body
  <2> QED BY <1>5
<1> QED
  BY <1>6

\* So does Open.
LEMMA OpenRecursion ==
  ASSUME NEW text \in Seq(STRING)
  PROVE  /\ Open(text)[0] = Outside
         /\ \A i \in 1..Len(text) :
              Open(text)[i] =
                IF text[i] \notin Delimiters THEN Open(text)[i - 1]
                ELSE IF Open(text)[i - 1] = Outside THEN text[i]
                ELSE IF Open(text)[i - 1] = text[i] THEN Outside
                ELSE Open(text)[i - 1]
<1> DEFINE S == 0..Len(text)
           Body(g, i) ==
        IF i = 0 THEN Outside
        ELSE IF text[i] \notin Delimiters THEN g[i - 1]
        ELSE IF g[i - 1] = Outside THEN text[i]
        ELSE IF g[i - 1] = text[i] THEN Outside
        ELSE g[i - 1]
           Good(k) == \E g : g = [i \in S |-> g[i]]
                             /\ \A i \in S : i <= Len(text) + 1 - k => g[i] = Body(g, i)
<1>0. Len(text) \in Nat
  OBVIOUS
<1>1. Good(Len(text) + 2)
  <2>1. \A i \in S : ~ (i <= Len(text) + 1 - (Len(text) + 2))
    BY <1>0
  <2> DEFINE g == [i \in S |-> 0]
  <2>2. g = [i \in S |-> g[i]]
    OBVIOUS
  <2> HIDE DEF g, Body
  <2>3. QED
    BY <2>1, <2>2
<1>2. ASSUME NEW k \in 1..Len(text) + 1, Good(k + 1) PROVE Good(k)
  <2>1. PICK g : g = [i \in S |-> g[i]]
                    /\ \A i \in S : i <= Len(text) + 1 - (k + 1) => g[i] = Body(g, i)
    BY <1>2
  <2> DEFINE m == Len(text) + 1 - k
             b == Body(g, m)
             h == [i \in S |-> IF i = m THEN b ELSE g[i]]
  <2>2. ASSUME NEW i \in S, i <= m PROVE Body(h, i) = Body(g, i)
    <3> HIDE DEF b
    <3>1. i > 0 => h[i - 1] = g[i - 1]
      BY <1>0, <2>2
    <3>2. i = 0 \/ i > 0
      BY <1>0
    <3> HIDE DEF h
    <3>3. QED
      BY <3>1, <3>2, Zenon
  <2>3. ASSUME NEW i \in S, i <= m PROVE h[i] = Body(g, i)
    <3> HIDE DEF Body
    <3>1. CASE i = m
      BY <3>1
    <3>2. CASE i # m
      <4>1. i <= Len(text) + 1 - (k + 1)
        BY <1>0, <2>3, <3>2
      <4> HIDE DEF m
      <4>2. QED
        BY <2>1, <3>2, <4>1
    <3>3. QED
      BY <3>1, <3>2
  <2>4. h = [i \in S |-> h[i]]
    <3> HIDE DEF b
    <3> QED OBVIOUS
  <2> HIDE DEF h, b, Body
  <2>5. QED
    BY <2>2, <2>3, <2>4
<1> DEFINE G == {k \in Int : Good(k)}
<1>3. Good(1)
  <2> HIDE DEF Good
  <2>1. G \in SUBSET Int /\ Len(text) + 2 \in G
    BY <1>0, <1>1
  <2>2. \A k \in 1..Len(text) + 1 : k + 1 \in G => k \in G
    BY <1>0, <1>2
  <2> HIDE DEF G
  <2>3. 1 \in G
    BY <1>0, <2>1, <2>2, Downward
  <2>4. QED
    BY <2>3 DEF G
<1>4. \E g : g = [i \in S |-> Body(g, i)]
  <2> HIDE DEF Body
  <2>1. PICK g : g = [i \in S |-> g[i]] /\ \A i \in S : i <= Len(text) + 1 - 1 => g[i] = Body(g, i)
    BY <1>3
  <2>2. g = [i \in S |-> Body(g, i)]
    BY <1>0, <2>1
  <2> QED BY <2>2
<1>5. Open(text) = [i \in S |-> Body(Open(text), i)]
  <2>1. Open(text) = CHOOSE g : g = [i \in S |-> Body(g, i)]
    BY DEF Open
  <2> HIDE DEF Body
  <2>2. QED
    BY <1>4, <2>1
<1>6. \A i \in S : Open(text)[i] = Body(Open(text), i)
  <2> HIDE DEF Body
  <2> QED BY <1>5
<1>7. 0 \in S /\ \A i \in 1..Len(text) : i \in S /\ i # 0
  BY <1>0
<1> QED
  BY <1>6, <1>7

\* The equation of Tokens, one implication for each case.
LEMMA TokenCases ==
  ASSUME NEW text \in Seq(STRING), NEW d
  PROVE  \A k \in 1..Len(text) + 1 :
    /\ k > Len(text) => Tokens(text, d)[k] = Unterminated
    /\ k <= Len(text) /\ text[k] # d =>
         Tokens(text, d)[k] = Prepend(text[k], Tokens(text, d)[k + 1])
    /\ k < Len(text) /\ text[k] = d /\ text[k + 1] = d =>
         Tokens(text, d)[k] = Prepend(d, Tokens(text, d)[k + 2])
    /\ k <= Len(text) /\ text[k] = d /\ ~ (k < Len(text) /\ text[k + 1] = d) =>
         Tokens(text, d)[k] = <<<<>>, k + 1>>
<1> SUFFICES ASSUME NEW k \in 1..Len(text) + 1
             PROVE  /\ k > Len(text) => Tokens(text, d)[k] = Unterminated
                    /\ k <= Len(text) /\ text[k] # d =>
                         Tokens(text, d)[k] = Prepend(text[k], Tokens(text, d)[k + 1])
                    /\ k < Len(text) /\ text[k] = d /\ text[k + 1] = d =>
                         Tokens(text, d)[k] = Prepend(d, Tokens(text, d)[k + 2])
                    /\ k <= Len(text) /\ text[k] = d /\ ~ (k < Len(text) /\ text[k + 1] = d) =>
                         Tokens(text, d)[k] = <<<<>>, k + 1>>
  OBVIOUS
<1>1. Tokens(text, d)[k] =
        IF k > Len(text) THEN Unterminated
        ELSE IF text[k] # d THEN Prepend(text[k], Tokens(text, d)[k + 1])
        ELSE IF k < Len(text) /\ text[k + 1] = d THEN Prepend(d, Tokens(text, d)[k + 2])
        ELSE <<<<>>, k + 1>>
  BY TokensRecursion, ZenonT(60)
<1>2. ~ (k > Len(text) /\ k <= Len(text)) /\ ~ (k > Len(text) /\ k < Len(text))
  OBVIOUS
<1>3. k < Len(text) => k <= Len(text)
  OBVIOUS
<1>4. QED
  BY <1>1, <1>2, <1>3, Zenon

\* The text goes on after a token behind the position it was read from.
LEMMA TokenShape ==
  ASSUME NEW text \in Seq(STRING), NEW d
  PROVE  \A m \in 1..Len(text) + 1 :
    Tokens(text, d)[m] # Unterminated =>
      Tokens(text, d)[m][2] \in m + 1..Len(text) + 1
<1> DEFINE L == Len(text)
           Tok == Tokens(text, d)
           Shape(m) == Tok[m] # Unterminated => Tok[m][2] \in m + 1..L + 1
           G == {k \in Int : \A m \in 1..L + 1 : m >= k => Shape(m)}
<1>0. L \in Nat
  OBVIOUS
<1>r. \A k \in 1..L + 1 :
    /\ k > L => Tok[k] = Unterminated
    /\ k <= L /\ text[k] # d => Tok[k] = Prepend(text[k], Tok[k + 1])
    /\ k < L /\ text[k] = d /\ text[k + 1] = d => Tok[k] = Prepend(d, Tok[k + 2])
    /\ k <= L /\ text[k] = d /\ ~ (k < L /\ text[k + 1] = d) => Tok[k] = <<<<>>, k + 1>>
  BY TokenCases
<1> HIDE DEF L, Tok
<1>1. L + 2 \in G
  BY <1>0
<1>2. ASSUME NEW k \in 1..L + 1, k + 1 \in G PROVE k \in G
  <2>1. ASSUME NEW m \in 1..L + 1, m >= k + 1 PROVE Shape(m)
    BY <1>2, <2>1
  <2>2. Shape(k)
    <3>1. \A m \in k + 1..L + 1 : Shape(m)
      BY <1>0, <2>1
    <3>2. ASSUME NEW x, NEW m \in k + 1..L + 1, Tok[k] = Prepend(x, Tok[m])
          PROVE  Shape(k)
      <4>1. Shape(m)
        BY <1>0, <3>1
      <4>2. Tok[k] # Unterminated => Tok[m] # Unterminated /\ Tok[k][2] = Tok[m][2]
        BY <3>2 DEF Prepend
      <4>3. QED
        BY <1>0, <4>1, <4>2
    <3>3. CASE k > L
      BY <1>r, <3>3
    <3>4. CASE k <= L /\ text[k] # d
      <4>1. k + 1 \in k + 1..L + 1
        BY <1>0, <3>4
      <4>2. Tok[k] = Prepend(text[k], Tok[k + 1])
        BY <1>0, <1>r, <3>4
      <4> HIDE DEF Shape
      <4>3. QED
        BY <3>2, <4>1, <4>2
    <3>5. CASE k < L /\ text[k] = d /\ text[k + 1] = d
      <4>1. k + 2 \in k + 1..L + 1
        BY <1>0, <3>5
      <4>2. Tok[k] = Prepend(d, Tok[k + 2])
        BY <1>0, <1>r, <3>5
      <4> HIDE DEF Shape
      <4>3. QED
        BY <3>2, <4>1, <4>2
    <3>6. CASE k <= L /\ text[k] = d /\ ~ (k < L /\ text[k + 1] = d)
      <4>1. Tok[k] = <<<<>>, k + 1>>
        BY <1>0, <1>r, <3>6
      <4>2. QED
        BY <1>0, <3>6, <4>1
    <3>7. QED
      <4> HIDE DEF Shape
      <4> QED
        BY <1>0, <3>3, <3>4, <3>5, <3>6
  <2> HIDE DEF Shape
  <2>3. QED
    BY <1>0, <2>1, <2>2
<1>3. G \in SUBSET Int /\ \A k \in 1..L + 1 : k + 1 \in G => k \in G
  <2> HIDE DEF Shape
  <2>1. G \in SUBSET Int
    OBVIOUS
  <2> HIDE DEF G
  <2>2. QED
    BY <1>2, <2>1
<1>4. 1 \in G
  <2> HIDE DEF G
  <2> QED
    BY <1>0, <1>1, <1>3, Downward
<1>5. \A m \in 1..L + 1 : Shape(m)
  <2> HIDE DEF Shape
  <2> QED
    BY <1>0, <1>4
<1> QED
  BY <1>5 DEF L, Tok

\* Where the gateway takes a token to end, AR System takes the delimiter to be
\* closed, and nothing inside the token looks like a field to it.
LEMMA TokenScan ==
  ASSUME NEW text \in Seq(STRING), NEW d \in Delimiters
  PROVE  \A m \in 1..Len(text) + 1 :
    LET token == Tokens(text, d)[m] IN
    Open(text)[m - 1] = d /\ token # Unterminated =>
      /\ Open(text)[token[2] - 1] = Outside
      /\ \A x \in m..token[2] - 2 :
           Open(text)[x] = Outside => text[x] = d /\ text[x + 1] = d
<1> DEFINE L == Len(text)
           Tok == Tokens(text, d)
           open == Open(text)
           Inside(x) == open[x] = Outside => text[x] = d /\ text[x + 1] = d
           Scan(m) == open[m - 1] = d /\ Tok[m] # Unterminated =>
                        /\ open[Tok[m][2] - 1] = Outside
                        /\ \A x \in m..Tok[m][2] - 2 : Inside(x)
           G == {k \in Int : \A m \in 1..L + 1 : m >= k => Scan(m)}
<1>0. L \in Nat
  OBVIOUS
<1>d. d # Outside
  BY Zenon DEF Delimiters, FieldQuote, ValueQuote, Outside
<1>s. \A m \in 1..L + 1 : Tok[m] # Unterminated => Tok[m][2] \in m + 1..L + 1
  BY TokenShape
<1>r. \A k \in 1..L + 1 :
    /\ k > L => Tok[k] = Unterminated
    /\ k <= L /\ text[k] # d => Tok[k] = Prepend(text[k], Tok[k + 1])
    /\ k < L /\ text[k] = d /\ text[k + 1] = d => Tok[k] = Prepend(d, Tok[k + 2])
    /\ k <= L /\ text[k] = d /\ ~ (k < L /\ text[k + 1] = d) => Tok[k] = <<<<>>, k + 1>>
  BY TokenCases
<1>o. \A k \in 1..L :
             /\ open[k - 1] = d => open[k] = IF text[k] = d THEN Outside ELSE d
             /\ open[k - 1] = Outside /\ text[k] = d => open[k] = d
  BY <1>0, <1>d, OpenRecursion
<1> HIDE DEF L, Tok, open
<1>1. L + 2 \in G
  BY <1>0
<1>2. ASSUME NEW k \in 1..L + 1, k + 1 \in G PROVE k \in G
  <2>1. ASSUME NEW m \in 1..L + 1, m >= k + 1 PROVE Scan(m)
    BY <1>2, <2>1
  <2>2. ASSUME open[k - 1] = d, Tok[k] # Unterminated
        PROVE  /\ open[Tok[k][2] - 1] = Outside
               /\ \A x \in k..Tok[k][2] - 2 : Inside(x)
    <3>1. k <= L
      BY <1>0, <1>r, <2>2
    <3>2. ASSUME NEW x, NEW m \in k + 1..L + 1, Tok[k] = Prepend(x, Tok[m]),
                 open[m - 1] = d, \A y \in k..m - 1 : Inside(y)
          PROVE  /\ open[Tok[k][2] - 1] = Outside
                 /\ \A y \in k..Tok[k][2] - 2 : Inside(y)
      <4>1. Tok[m] # Unterminated /\ Tok[k][2] = Tok[m][2]
        BY <2>2, <3>2 DEF Prepend
      <4>2. Scan(m) /\ Tok[m][2] \in Int
        BY <1>0, <1>s, <2>1, <4>1
      <4>3. open[Tok[k][2] - 1] = Outside /\ \A y \in m..Tok[k][2] - 2 : Inside(y)
        BY <3>2, <4>1, <4>2
      <4> HIDE DEF Inside
      <4>4. QED
        BY <3>2, <4>1, <4>2, <4>3
    <3>3. CASE text[k] # d
      <4>1. Tok[k] = Prepend(text[k], Tok[k + 1])
        BY <1>0, <1>r, <3>1, <3>3
      <4>2. open[k] = d
        BY <1>0, <1>o, <2>2, <3>1, <3>3
      <4>3. \A y \in k..k : Inside(y)
        BY <1>0, <1>d, <4>2
      <4> HIDE DEF Inside
      <4>4. k + 1 \in k + 1..L + 1 /\ open[(k + 1) - 1] = d
            /\ \A y \in k..(k + 1) - 1 : Inside(y)
        BY <1>0, <3>1, <4>2, <4>3
      <4>5. QED
        BY <3>2, <4>1, <4>4
    <3>4. CASE k < L /\ text[k] = d /\ text[k + 1] = d
      <4>1. Tok[k] = Prepend(d, Tok[k + 2])
        BY <1>0, <1>r, <3>1, <3>4
      <4>2. open[k] = Outside
        BY <1>0, <1>o, <2>2, <3>4
      <4>3. open[k + 1] = d
        <5>1. k + 1 \in 1..L /\ (k + 1) - 1 = k
          BY <1>0, <3>4
        <5> QED
          BY <1>o, <3>4, <4>2, <5>1
      <4>4. \A y \in k..k + 1 : Inside(y)
        <5>1. \A y \in k..k + 1 : y = k \/ y = k + 1
          OBVIOUS
        <5> QED
          BY <1>0, <1>d, <3>4, <4>3, <5>1
      <4> HIDE DEF Inside
      <4>5. k + 2 \in k + 1..L + 1 /\ open[(k + 2) - 1] = d
            /\ \A y \in k..(k + 2) - 1 : Inside(y)
        BY <1>0, <3>4, <4>3, <4>4
      <4>6. QED
        BY <3>2, <4>1, <4>5
    <3>5. CASE text[k] = d /\ ~ (k < L /\ text[k + 1] = d)
      <4>1. Tok[k] = <<<<>>, k + 1>>
        BY <1>0, <1>r, <3>1, <3>5
      <4>2. open[k] = Outside
        BY <1>0, <1>o, <2>2, <3>1, <3>5
      <4> QED
        BY <4>1, <4>2
    <3> HIDE DEF Inside
    <3>6. QED
      BY <1>0, <3>1, <3>3, <3>4, <3>5
  <2>3. Scan(k)
    BY <2>2
  <2> HIDE DEF Scan
  <2>4. QED
    BY <1>0, <2>1, <2>3
<1>3. G \in SUBSET Int /\ \A k \in 1..L + 1 : k + 1 \in G => k \in G
  <2> HIDE DEF Scan
  <2>1. G \in SUBSET Int
    OBVIOUS
  <2> HIDE DEF G
  <2>2. QED
    BY <1>2, <2>1
<1>4. 1 \in G
  <2> HIDE DEF G
  <2> QED
    BY <1>0, <1>1, <1>3, Downward
<1>5. \A m \in 1..L + 1 : Scan(m)
  <2> HIDE DEF Scan
  <2> QED
    BY <1>0, <1>4
<1> QED
  BY <1>5 DEF L, Tok, open

\* References satisfies its recursive equation.
LEMMA ReferencesRecursion ==
  ASSUME NEW text \in Seq(STRING)
  PROVE  \A i \in 1..Len(text) + 1 :
    References(text)[i] =
        IF i > Len(text) THEN {}
        ELSE IF text[i] \notin Delimiters THEN References(text)[i + 1]
        ELSE LET token == ReadQuotedToken(text, i) IN
             IF \/ token = Unterminated
                \/ text[i] = FieldQuote /\ token[1] = <<>>
                \/ References(text)[token[2]] = SyntaxError
             THEN SyntaxError
             ELSE References(text)[token[2]]
                    \cup (IF text[i] = FieldQuote THEN {token[1]} ELSE {})
<1> DEFINE S == 1..Len(text) + 1
           Tok(i) == Tokens(text, text[i])[i + 1]
           Body(g, i) ==
        IF i > Len(text) THEN {}
        ELSE IF text[i] \notin Delimiters THEN g[i + 1]
        ELSE IF \/ Tok(i) = Unterminated
                \/ text[i] = FieldQuote /\ Tok(i)[1] = <<>>
                \/ g[Tok(i)[2]] = SyntaxError
             THEN SyntaxError
             ELSE g[Tok(i)[2]]
                    \cup (IF text[i] = FieldQuote THEN {Tok(i)[1]} ELSE {})
           Good(k) == \E g : g = [i \in S |-> g[i]] /\ \A i \in S : i >= k => g[i] = Body(g, i)
<1>0. Len(text) \in Nat
  OBVIOUS
<1>1. Good(Len(text) + 2)
  <2>1. \A i \in S : ~ (i >= Len(text) + 2)
    BY <1>0
  <2> DEFINE g == [i \in S |-> 0]
  <2>2. g = [i \in S |-> g[i]]
    OBVIOUS
  <2> HIDE DEF g, Body
  <2>3. QED
    BY <2>1, <2>2
<1>2. ASSUME NEW k \in S, Good(k + 1) PROVE Good(k)
  <2>1. PICK g : g = [i \in S |-> g[i]] /\ \A i \in S : i >= k + 1 => g[i] = Body(g, i)
    BY <1>2
  <2> DEFINE b == Body(g, k)
             h == [i \in S |-> IF i = k THEN b ELSE g[i]]
  <2>2. ASSUME NEW i \in S, i >= k PROVE Body(h, i) = Body(g, i)
    <3> HIDE DEF b
    <3>1. i <= Len(text) => h[i + 1] = g[i + 1]
      BY <1>0, <2>2
    <3>2. i <= Len(text) /\ text[i] \in Delimiters /\ Tok(i) # Unterminated
            => Tok(i)[2] \in i + 1..Len(text) + 1
      <4>1. i <= Len(text) => i + 1 \in 1..Len(text) + 1
        BY <1>0, <2>2
      <4>2. i <= Len(text) /\ Tok(i) # Unterminated => Tok(i)[2] \in (i + 1) + 1..Len(text) + 1
        BY <4>1, TokenShape
      <4> HIDE DEF h, Tok
      <4> QED BY <1>0, <2>2, <4>2
    <3>3. i <= Len(text) /\ text[i] \in Delimiters /\ Tok(i) # Unterminated
            => h[Tok(i)[2]] = g[Tok(i)[2]]
      <4> HIDE DEF Tok
      <4> QED BY <1>0, <2>2, <3>2
    <3>4. i > Len(text) \/ i <= Len(text)
      BY <1>0
    <3> HIDE DEF h, Tok
    <3>5. CASE i > Len(text)
      BY <3>5
    <3>6. CASE i <= Len(text)
      BY <3>1, <3>3, <3>6, Zenon
    <3>7. QED
      BY <3>4, <3>5, <3>6
  <2>3. ASSUME NEW i \in S, i >= k PROVE h[i] = Body(g, i)
    <3> HIDE DEF Body
    <3>1. CASE i = k
      BY <3>1
    <3>2. CASE i # k
      BY <3>2, <2>1, <2>3, <1>0
    <3>3. QED
      BY <3>1, <3>2
  <2>4. h = [i \in S |-> h[i]]
    <3> HIDE DEF b
    <3> QED OBVIOUS
  <2> HIDE DEF h, b, Body
  <2>5. QED
    BY <2>2, <2>3, <2>4
<1> DEFINE G == {k \in Int : Good(k)}
<1>3. Good(1)
  <2> HIDE DEF Good
  <2>1. G \in SUBSET Int /\ Len(text) + 2 \in G
    BY <1>0, <1>1
  <2>2. \A k \in 1..Len(text) + 1 : k + 1 \in G => k \in G
    BY <1>0, <1>2
  <2> HIDE DEF G
  <2>3. 1 \in G
    BY <1>0, <2>1, <2>2, Downward
  <2>4. QED
    BY <2>3 DEF G
<1>4. \E g : g = [i \in S |-> Body(g, i)]
  <2> HIDE DEF Body
  <2>1. PICK g : g = [i \in S |-> g[i]] /\ \A i \in S : i >= 1 => g[i] = Body(g, i)
    BY <1>3
  <2>2. g = [i \in S |-> Body(g, i)]
    BY <2>1
  <2> QED BY <2>2
<1>5. References(text) = [i \in S |-> Body(References(text), i)]
  <2>1. References(text) = CHOOSE g : g = [i \in S |-> Body(g, i)]
    BY DEF References, ReadQuotedToken
  <2> HIDE DEF Body
  <2>2. QED
    BY <1>4, <2>1
<1>6. \A i \in S : References(text)[i] = Body(References(text), i)
  <2> HIDE DEF Body
  <2> QED BY <1>5
<1> QED
  BY <1>6 DEF ReadQuotedToken

\* The gateway's reading from a position on is that of the rest of the text, with
\* the token that starts there.
LEMMA ReferencesCases ==
  ASSUME NEW text \in Seq(STRING)
  PROVE  \A i \in 1..Len(text) :
    LET token == Tokens(text, text[i])[i + 1] IN
    /\ text[i] \notin Delimiters => References(text)[i] = References(text)[i + 1]
    /\ text[i] \in Delimiters /\ References(text)[i] # SyntaxError =>
         /\ token # Unterminated
         /\ References(text)[token[2]] # SyntaxError
         /\ References(text)[token[2]] \subseteq References(text)[i]
         /\ text[i] = FieldQuote => token[1] \in References(text)[i]
<1> SUFFICES ASSUME NEW i \in 1..Len(text)
             PROVE
    LET token == Tokens(text, text[i])[i + 1] IN
    /\ text[i] \notin Delimiters => References(text)[i] = References(text)[i + 1]
    /\ text[i] \in Delimiters /\ References(text)[i] # SyntaxError =>
         /\ token # Unterminated
         /\ References(text)[token[2]] # SyntaxError
         /\ References(text)[token[2]] \subseteq References(text)[i]
         /\ text[i] = FieldQuote => token[1] \in References(text)[i]
  OBVIOUS
<1> DEFINE token == Tokens(text, text[i])[i + 1]
           refs == References(text)
<1>1. i \in 1..Len(text) + 1 /\ ~ (i > Len(text))
  OBVIOUS
<1>2. refs[i] =
        IF i > Len(text) THEN {}
        ELSE IF text[i] \notin Delimiters THEN refs[i + 1]
        ELSE IF \/ token = Unterminated
                \/ text[i] = FieldQuote /\ token[1] = <<>>
                \/ refs[token[2]] = SyntaxError
             THEN SyntaxError
             ELSE refs[token[2]]
                    \cup (IF text[i] = FieldQuote THEN {token[1]} ELSE {})
  BY <1>1, ReferencesRecursion, Zenon DEF ReadQuotedToken
<1> HIDE DEF token, refs
<1>3. text[i] \notin Delimiters => refs[i] = refs[i + 1]
  BY <1>1, <1>2, Zenon
<1>4. text[i] \in Delimiters /\ refs[i] # SyntaxError =>
         /\ token # Unterminated
         /\ refs[token[2]] # SyntaxError
         /\ refs[i] = refs[token[2]]
                    \cup (IF text[i] = FieldQuote THEN {token[1]} ELSE {})
  BY <1>1, <1>2, Zenon
<1>5. text[i] \in Delimiters /\ refs[i] # SyntaxError =>
         /\ refs[token[2]] \subseteq refs[i]
         /\ text[i] = FieldQuote => token[1] \in refs[i]
  BY <1>4, Zenon
<1> QED
  BY <1>3, <1>4, <1>5, Zenon DEF token, refs

\* What AR System will consult, the gateway has found: a field named between
\* single quotes is among the references, however the values and the fields
\* around it are quoted, in every text without a backslash.
THEOREM ConsultedIsReferenced ==
  ASSUME NEW text \in Seq(STRING), ~ Escaped(text),
         ReferencedFields(text) # SyntaxError, NEW n \in Consulted(text)
  PROVE  <<n>> \in ReferencedFields(text)
<1> DEFINE L == Len(text)
           Tok == [i \in 1..L |-> Tokens(text, text[i])[i + 1]]
           open == Open(text)
           refs == References(text)
           Named(k) == /\ open[k - 1] = Outside
                       /\ text[k] = FieldQuote /\ text[k + 1] = n /\ text[k + 2] = FieldQuote
                       /\ k > 1 => text[k - 1] # FieldQuote
                       /\ k + 3 <= L => text[k + 3] # FieldQuote
           Covered(i) == open[i - 1] = Outside /\ refs[i] # SyntaxError =>
                           \A k \in i..L - 2 : Named(k) => <<n>> \in refs[i]
           G == {k \in Int : \A i \in 1..L + 1 : i >= k => Covered(i)}
<1>0. L \in Nat
  OBVIOUS
<1>n. n \notin Delimiters /\ FieldQuote \in Delimiters
  BY QualificationAssumption DEF Consulted, Quoted, Delimiters
<1>t. \A i \in 1..L : Tok[i] # Unterminated => Tok[i][2] \in i + 2..L + 1
  <2> SUFFICES ASSUME NEW i \in 1..L PROVE Tok[i] # Unterminated => Tok[i][2] \in i + 2..L + 1
    OBVIOUS
  <2>1. i + 1 \in 1..L + 1 /\ (i + 1) + 1 = i + 2
    BY <1>0
  <2>2. QED
    BY <2>1, TokenShape
<1>r. \A i \in 1..L :
        /\ text[i] \notin Delimiters => refs[i] = refs[i + 1]
        /\ text[i] \in Delimiters /\ refs[i] # SyntaxError =>
             /\ Tok[i] # Unterminated
             /\ refs[Tok[i][2]] # SyntaxError
             /\ refs[Tok[i][2]] \subseteq refs[i]
             /\ text[i] = FieldQuote => Tok[i][1] \in refs[i]
  BY ReferencesCases
<1>o. \A i \in 1..L : open[i - 1] = Outside =>
        open[i] = IF text[i] \in Delimiters THEN text[i] ELSE Outside
  BY OpenRecursion
<1>s. \A i \in 1..L : open[i - 1] = Outside /\ text[i] \in Delimiters /\ Tok[i] # Unterminated =>
        /\ open[Tok[i][2] - 1] = Outside
        /\ \A x \in i + 1..Tok[i][2] - 2 :
             open[x] = Outside => text[x] = text[i] /\ text[x + 1] = text[i]
  <2> SUFFICES ASSUME NEW i \in 1..L, open[i - 1] = Outside, text[i] \in Delimiters,
                      Tok[i] # Unterminated
               PROVE  /\ open[Tok[i][2] - 1] = Outside
                      /\ \A x \in i + 1..Tok[i][2] - 2 :
                           open[x] = Outside => text[x] = text[i] /\ text[x + 1] = text[i]
    OBVIOUS
  <2>1. i + 1 \in 1..L + 1 /\ (i + 1) - 1 = i
    BY <1>0
  <2>2. open[i] = text[i]
    BY <1>o
  <2>3. Tok[i] = Tokens(text, text[i])[i + 1]
    OBVIOUS
  <2> HIDE DEF Tok, L, open
  <2>4. QED
    BY <2>1, <2>2, <2>3, TokenScan DEF L, open
<1>e. \A k \in 1..L - 2 : Named(k) => Tok[k][1] = <<n>>
  <2> SUFFICES ASSUME NEW k \in 1..L - 2, Named(k) PROVE Tok[k][1] = <<n>>
    OBVIOUS
  <2> DEFINE T == Tokens(text, FieldQuote)
  <2>1. Tok[k] = T[k + 1]
    BY <1>0
  <2>2. k + 1 \in 1..L + 1 /\ k + 1 <= L /\ k + 2 \in 1..L + 1 /\ k + 2 <= L
        /\ (k + 1) + 1 = k + 2 /\ (k + 2) + 1 = k + 3
    BY <1>0
  <2>3. text[k + 1] # FieldQuote
    BY <1>n
  <2>4. text[k + 2] = FieldQuote /\ ~ (k + 2 < L /\ text[k + 3] = FieldQuote)
    BY <1>0
  <2>5. T[k + 1] = Prepend(n, T[k + 2])
    BY <2>2, <2>3, TokenCases
  <2>6. T[k + 2] = <<<<>>, k + 3>>
    BY <2>2, <2>4, TokenCases
  <2> HIDE DEF T, Tok
  <2>7. T[k + 2] # Unterminated
    BY <2>6 DEF Unterminated
  <2>8. T[k + 1] = <<<<n>> \o <<>>, k + 3>>
    BY <2>5, <2>6, <2>7 DEF Prepend
  <2>9. n \in STRING
    BY <2>2
  <2>10. <<n>> \o <<>> = <<n>>
    BY <2>9
  <2>11. QED
    BY <2>1, <2>8, <2>10
<1> HIDE DEF L, Tok, open, refs
<1>1. L + 2 \in G
  BY <1>0
<1>2. ASSUME NEW i \in 1..L + 1, i + 1 \in G PROVE i \in G
  <2>1. ASSUME NEW m \in 1..L + 1, m >= i + 1 PROVE Covered(m)
    BY <1>2, <2>1
  <2>2. ASSUME open[i - 1] = Outside, refs[i] # SyntaxError,
               NEW k \in i..L - 2, Named(k)
        PROVE  <<n>> \in refs[i]
    <3>1. i \in 1..L /\ k \in 1..L - 2 /\ text[k] = FieldQuote
      BY <1>0, <2>2
    <3>2. ASSUME NEW m \in i + 1..k, open[m - 1] = Outside,
                 refs[m] # SyntaxError, refs[m] \subseteq refs[i]
          PROVE  <<n>> \in refs[i]
      <4>1. m \in 1..L + 1 /\ m >= i + 1 /\ k \in m..L - 2
        BY <1>0, <2>2, <3>1, <3>2
      <4> HIDE DEF Named
      <4>2. QED
        BY <2>1, <2>2, <3>2, <4>1
    <3>3. CASE text[i] \notin Delimiters
      <4>1. refs[i] = refs[i + 1] /\ open[i] = Outside
        BY <1>o, <1>r, <2>2, <3>1, <3>3
      <4>2. k # i
        BY <1>n, <3>1, <3>3
      <4>3. i + 1 \in i + 1..k /\ (i + 1) - 1 = i
        BY <1>0, <3>1, <4>2
      <4>4. QED
        BY <2>2, <3>2, <4>1, <4>3
    <3>4. CASE text[i] \in Delimiters
      <4> DEFINE j == Tok[i][2]
      <4>1. /\ Tok[i] # Unterminated
            /\ refs[j] # SyntaxError /\ refs[j] \subseteq refs[i]
            /\ text[i] = FieldQuote => Tok[i][1] \in refs[i]
        BY <1>r, <2>2, <3>1, <3>4
      <4>2. /\ open[j - 1] = Outside
            /\ \A x \in i + 1..j - 2 :
                 open[x] = Outside => text[x] = text[i] /\ text[x + 1] = text[i]
        BY <1>s, <2>2, <3>1, <3>4, <4>1
      <4>3. j \in i + 2..L + 1
        BY <1>t, <3>1, <4>1
      <4>4. open[i] # Outside
        <5>1. open[i] = text[i]
          BY <1>o, <2>2, <3>1, <3>4
        <5> QED
          BY <3>4, <5>1, Zenon DEF Delimiters, FieldQuote, ValueQuote, Outside
      <4> HIDE DEF j
      <4>5. CASE k = i
        BY <1>e, <2>2, <3>1, <4>1, <4>5
      <4>6. CASE k \in i + 1..j - 1
        <5>1. k - 1 # i /\ k > 1
          BY <2>2, <3>1, <4>4, <4>6
        <5>2. k - 1 \in i + 1..j - 2 /\ (k - 1) + 1 = k
          BY <3>1, <4>3, <4>6, <5>1
        <5>3. text[k - 1] = text[i] /\ text[k] = text[i]
          BY <2>2, <4>2, <5>2
        <5>4. QED
          BY <2>2, <3>1, <5>1, <5>3
      <4>7. CASE k >= j
        <5>1. j \in i + 1..k
          BY <3>1, <4>3, <4>7
        <5>2. QED
          BY <3>2, <4>1, <4>2, <5>1
      <4>8. QED
        BY <3>1, <4>3, <4>5, <4>6, <4>7
    <3>5. QED
      BY <3>3, <3>4
  <2>3. Covered(i)
    <3> HIDE DEF Named
    <3> QED
      BY <2>2
  <2> HIDE DEF Covered
  <2>4. QED
    BY <1>0, <2>1, <2>3
<1>3. G \in SUBSET Int /\ \A k \in 1..L + 1 : k + 1 \in G => k \in G
  <2> HIDE DEF Covered
  <2>1. G \in SUBSET Int
    OBVIOUS
  <2> HIDE DEF G
  <2>2. QED
    BY <1>2, <2>1
<1>4. 1 \in G
  <2> HIDE DEF G
  <2> QED
    BY <1>0, <1>1, <1>3, Downward
<1>5. Covered(1)
  <2> HIDE DEF Covered
  <2> QED
    BY <1>0, <1>4
<1>6. open[1 - 1] = Outside /\ refs[1] # SyntaxError
  BY OpenRecursion DEF open, refs, ReferencedFields
<1>7. PICK k \in 1..L - 2 : Named(k)
  <2>1. PICK k \in 1..Len(text) - 2 :
     /\ Open(text)[k - 1] = Outside
     /\ SubSeq(text, k, k + 2) = <<FieldQuote, n, FieldQuote>>
     /\ k > 1 => text[k - 1] # FieldQuote
     /\ k + 3 <= Len(text) => text[k + 3] # FieldQuote
    BY DEF Consulted, Quoted
  <2>2. /\ SubSeq(text, k, k + 2)[1] = text[k]
        /\ SubSeq(text, k, k + 2)[2] = text[k + 1]
        /\ SubSeq(text, k, k + 2)[3] = text[k + 2]
    <3>1. k \in Int /\ k + 2 \in Int /\ \A i \in k..k + 2 : text[i] \in STRING
      BY <2>1
    <3>2. \A i \in 1..(k + 2) - k + 1 : SubSeq(text, k, k + 2)[i] = text[k + i - 1]
      BY <3>1, SubSeqProperties
    <3>3. QED
      BY <3>1, <3>2
  <2>3. text[k] = FieldQuote /\ text[k + 1] = n /\ text[k + 2] = FieldQuote
    <3> DEFINE sub == SubSeq(text, k, k + 2)
    <3>1. sub = <<FieldQuote, n, FieldQuote>>
      BY <2>1
    <3>2. sub[1] = text[k] /\ sub[2] = text[k + 1] /\ sub[3] = text[k + 2]
      BY <2>2
    <3> HIDE DEF sub
    <3>3. QED
      BY <3>1, <3>2
  <2>4. QED
    BY <2>1, <2>3 DEF L, open
<1>8. <<n>> \in refs[1]
  <2> HIDE DEF Named
  <2> QED
    BY <1>5, <1>6, <1>7
<1> QED
  BY <1>8 DEF refs, ReferencedFields

(***************************************************************************)
(* The inductive invariant                                                 *)
(***************************************************************************)

Working(c) == c.phase \notin {"idle", "done"}

\* What a call may ask AR for, by its tool.
Suits(asking, tool) ==
  \/ asking = "fields" /\ tool \in Metadata
  \/ asking \in {"labels", "menu"} /\ tool = "inspect_field"
  \/ asking = "hint" /\ tool \in Metadata \cup {"query_form", "get_entry"}
  \/ asking \in {"entries", "rows"} /\ tool \in {"query_form", "get_entry"}
  \/ asking = "where" /\ tool = "query_form"
  \/ asking = "forms" /\ tool = "list_forms"
  \/ asking = "probe" /\ tool = "health_check"
  \/ asking = "objects" /\ tool = "list_objects"
  \/ asking \in {"object", "columns"} /\ tool \in {"list_columns", "describe_object"}

\* A field of a form that may be shown.
Visible(t, f, n) ==
  /\ ~ IsSensitive(Policy[t], n)
  /\ \/ Policy[t].allow_all_fields
     \/ Fold[n] \in Folded(AllowedFields(Policy[t], f))

MayTell(q, x) ==
  LET p == Policy[q.target] IN
  \/ x[1] = "field" /\ FieldAccess(p, q.form, {x[2]})
  \/ x[1] = "consulted" /\ (Plain(q.where) => FieldAccess(p, q.form, {x[2]}))
  \/ x[1] = "form" /\ p.allow_form_reads /\ x[2] \in VisibleForms(p, {x[2]})
  \/ x[1] = "object" /\ p.allow_sql /\ Permitted(p, x[2])

\* The fields the bridge has found by their names and has told nobody yet, and
\* the field that was found visible.
Carries(c) ==
  /\ c.asking \in {"where", "rows"} =>
       /\ c.phase = "asked" => c.content.data # Gone
       /\ c.content.data # Gone => \A x \in c.content.data : MayTell(c.query, x)
  /\ c.asking \in {"labels", "menu"} =>
       Visible(c.query.target, c.query.form, c.seen[2])

\* What an answer of AR that has not been used yet is known to be.
Holds(c) ==
  c.asking \in {"objects", "columns"} =>
    \A o \in c.content.data : Permitted(Policy[c.query.target], o)

IsCall(c) ==
  /\ DOMAIN c = {"phase", "query", "asking", "content", "seen", "outcome", "told"}
  /\ DOMAIN c.content = {"data", "lag", "for"}

Granted(q) == q.tool = "health_check" \/ Acceptable(q)

CallOK(r, c) ==
  /\ IsCall(c)
  /\ c.phase \in {"idle", "counting", "waiting", "asked", "answered", "done"}
  /\ c.phase # "idle" => c.query \in Queries[r]
  /\ Working(c) => Granted(c.query)
  /\ c.phase = "counting" => c.query.tool \in FormTool \cup SqlTool
  /\ c.phase = "waiting" => c.query.tool \in Cached
  /\ c.phase \in {"asked", "answered"} =>
       Suits(c.asking, c.query.tool) /\ Carries(c)
  /\ c.phase = "answered" =>
       /\ c.content.lag \in 0..Timeout
       /\ c.query.force => r \in c.content.for
       /\ Holds(c)
  /\ c.phase = "done" => \A x \in c.told : MayTell(c.query, x)
  /\ c.phase = "done" /\ c.outcome = "success" =>
       /\ c.content.lag <= Timeout + Allowance(c.query)
       /\ c.query.force => r \in c.content.for

CacheOK ==
  \A k \in DOMAIN cache :
    /\ k \in Keys
    /\ DOMAIN cache[k] = {"data", "lag", "for", "age"}
    /\ cache[k].lag \in 0..Timeout
    /\ cache[k].age \in 0..Lifetime(k)
    /\ k[1] = "fields" => \A i \in DOMAIN cache[k].data :
                            Visible(k[2], k[3], cache[k].data[i])

Loads(c) ==
  /\ c.phase \in {"asked", "answered"}
  /\ \/ c.asking \in {"fields", "forms", "probe"}
     \/ c.asking = "hint" /\ c.query.tool \in Metadata

Wants(c, l) ==
  /\ c.phase = "waiting" \/ Loads(c)
  /\ ~ Unlocked(Key(c.query))
  /\ l = LockOf(Key(c.query))

QueueOK ==
  /\ queue \in [Locks -> Seq(Calls)]
  /\ \A l \in Locks : \A i, j \in 1..Len(queue[l]) :
       queue[l][i] = queue[l][j] => i = j
  /\ \A l \in Locks : \A i \in 1..Len(queue[l]) : \A r \in Calls :
       queue[l][i] = r => Wants(call[r], l)
  /\ \A r \in Calls : \A l \in Locks : Wants(call[r], l) =>
       \E i \in 1..Len(queue[l]) : queue[l][i] = r
  /\ \A r \in Calls : \A l \in Locks : Loads(call[r]) /\ Wants(call[r], l) =>
       Len(queue[l]) > 0 /\ queue[l][1] = r

NoUselessLoad ==
  \A r \in Calls :
    Loads(call[r]) /\ Lifetime(Key(call[r].query)) > 0 /\ Valid(Key(call[r].query))
      => call[r].query.force

CachesBounded ==
  /\ IsFiniteSet(DOMAIN cache)
  /\ \A kind \in {"fields", "forms"} :
       Cardinality({k \in DOMAIN cache : k[1] = kind}) <= MaxEntries

IInv ==
  /\ ttl \in Settings
  /\ DOMAIN call = Calls
  /\ \A r \in Calls : CallOK(r, call[r])
  /\ CacheOK
  /\ QueueOK
  /\ NoUselessLoad
  /\ CachesBounded

(***************************************************************************)
(* What Acceptable has established, and how a call changes                 *)
(***************************************************************************)

\* Lifetimes are numbers of ticks.
LEMMA LifetimeType ==
  ASSUME ttl \in Settings
  PROVE  \A k : Lifetime(k) \in Nat
BY FormQueriesAssumption DEF Lifetime

\* So is what a cached answer may have aged.
LEMMA AllowanceType ==
  ASSUME ttl \in Settings
  PROVE  \A q : Allowance(q) \in Nat
BY LifetimeType DEF Allowance

\* What a tool has checked of the policy before its call is counted.
LEMMA Scope ==
  ASSUME NEW q, Acceptable(q)
  PROVE  LET p == Policy[q.target] IN
         /\ q.tool \in Metadata => FormAccess(p, q.form)
         /\ q.tool = "query_form" => QueryPolicy(p, q)
         /\ q.tool = "get_entry" => FieldAccess(p, q.form, Elements(q.fields))
         /\ q.tool = "list_forms" => p.allow_form_reads
         /\ q.tool = "list_objects" => p.allow_sql
         /\ q.tool \in {"list_columns", "describe_object"} =>
              p.allow_sql /\ Permitted(p, q.object)
<1> HIDE DEF FormAccess, QueryPolicy, FieldAccess, Permitted
<1> QED
  BY DEF Acceptable, Metadata

\* A field that is shown is one the policy grants, if the form is.
LEMMA VisibleIsPermitted ==
  ASSUME NEW t, NEW f, NEW n, Visible(t, f, n), FormAccess(Policy[t], f)
  PROVE  FieldAccess(Policy[t], f, {n})
BY DEF Visible, FieldAccess, Folded

\* Each of several fields that are granted is granted.
LEMMA PartIsPermitted ==
  ASSUME NEW p, NEW f, NEW names, FieldAccess(p, f, names), NEW n \in names
  PROVE  FieldAccess(p, f, {n})
BY DEF FieldAccess, Folded

\* AR and the policy compare names alike: one is granted as the other is.
LEMMA SameName ==
  ASSUME NEW p, NEW f, NEW n, FieldAccess(p, f, {n}), NEW m, Fold[m] = Fold[n]
  PROVE  FieldAccess(p, f, {m})
<1>1. ~ IsSensitive(p, m)
  BY DEF FieldAccess, IsSensitive
<1>2. Folded({m}) = Folded({n})
  BY DEF Folded
<1>3. QED
  BY <1>1, <1>2 DEF FieldAccess

\* Forms that pass the filter may be named to those who may read forms.
LEMMA ShownForms ==
  ASSUME NEW q, Policy[q.target].allow_form_reads, NEW names,
         NEW x \in Told("form", VisibleForms(Policy[q.target], names))
  PROVE  MayTell(q, x)
<1>1. PICK f \in VisibleForms(Policy[q.target], names) : x = <<"form", f>>
  BY DEF Told
<1>2. f \in VisibleForms(Policy[q.target], {f})
  BY <1>1 DEF VisibleForms
<1>3. x[1] = "form" /\ x[2] = f
  BY <1>1
<1> HIDE DEF VisibleForms
<1>4. QED
  BY <1>2, <1>3 DEF MayTell

\* A call that ends keeps its query, and its content if it succeeds.
LEMMA FinishedCall ==
  ASSUME NEW c, IsCall(c), NEW outcome, NEW told
  PROVE  LET f == Finished(c, outcome, told) IN
         /\ IsCall(f)
         /\ f.phase = "done" /\ f.query = c.query /\ f.outcome = outcome /\ f.told = told
         /\ outcome = "success" => f.content = c.content
BY DEF IsCall, Finished, Nothing

\* A call that asks keeps its query and what it has seen.
LEMMA AskingCall ==
  ASSUME NEW c, IsCall(c), NEW what
  PROVE  LET a == Asking(c, what) IN
         /\ IsCall(a)
         /\ a.phase = "asked" /\ a.query = c.query /\ a.asking = what /\ a.seen = c.seen
         /\ a.content.data = Gone
BY DEF IsCall, Asking, Nothing

\* A new call has the fields of a call.
LEMMA IdleCall ==
  /\ IsCall(Idle) /\ Idle.phase = "idle"
  /\ \A q : LET c == [Idle EXCEPT !.query = q] IN
       IsCall(c) /\ c.query = q /\ c.phase = "idle"
BY DEF IsCall, Idle, Nothing

\* A call may end with what it may tell, as recent as it is allowed to be.
LEMMA FinishedOK ==
  ASSUME NEW r \in Calls, NEW c, IsCall(c), c.query \in Queries[r],
         NEW outcome, NEW told, \A x \in told : MayTell(c.query, x),
         outcome = "success" =>
           /\ c.content.lag <= Timeout + Allowance(c.query)
           /\ c.query.force => r \in c.content.for
  PROVE  /\ CallOK(r, Finished(c, outcome, told))
         /\ \A l : ~ Wants(Finished(c, outcome, told), l)
         /\ ~ Loads(Finished(c, outcome, told))
<1> DEFINE f == Finished(c, outcome, told)
<1>1. /\ IsCall(f)
      /\ f.phase = "done" /\ f.query = c.query /\ f.outcome = outcome /\ f.told = told
      /\ outcome = "success" => f.content = c.content
  BY FinishedCall
<1> HIDE DEF f
<1>2. CallOK(r, f)
  BY <1>1 DEF CallOK, Working
<1>3. ~ Loads(f) /\ \A l : ~ Wants(f, l)
  BY <1>1 DEF Loads, Wants
<1> QED
  BY <1>2, <1>3 DEF f

\* A call may ask for what suits its tool.
LEMMA AskingOK ==
  ASSUME NEW r \in Calls, NEW c, IsCall(c), c.query \in Queries[r],
         Granted(c.query), NEW what, Suits(what, c.query.tool),
         what \notin {"menu", "where", "rows"},
         what = "labels" => Visible(c.query.target, c.query.form, c.seen[2])
  PROVE  CallOK(r, Asking(c, what))
<1> DEFINE a == Asking(c, what)
<1>1. /\ IsCall(a)
      /\ a.phase = "asked" /\ a.query = c.query /\ a.asking = what /\ a.seen = c.seen
      /\ a.content.data = Gone
  BY AskingCall
<1> HIDE DEF a
<1>c. Carries(a)
  BY <1>1 DEF Carries
<1>2. CallOK(r, a)
  BY <1>1, <1>c DEF CallOK, Working
<1> QED
  BY <1>2 DEF a

\* Whatever the cache or AR had, a call that uses it keeps to the policy.
LEMMA UsingOK ==
  ASSUME ttl \in Settings,
         NEW r \in Calls, NEW c, IsCall(c), c.query \in Queries[r],
         Granted(c.query), c.query.tool \in Cached,
         c.query.tool \in Metadata => \A i \in DOMAIN c.content.data :
           Visible(c.query.target, c.query.form, c.content.data[i]),
         c.query.tool # "inspect_field" =>
           c.content.lag <= Timeout + Allowance(c.query),
         c.query.force => r \in c.content.for
  PROVE  /\ CallOK(r, Using(c))
         /\ \A l : ~ Wants(Using(c), l)
         /\ ~ Loads(Using(c))
<1> DEFINE q == c.query
           p == Policy[q.target]
<1> HIDE DEF q, p
<1>0. q.tool # "health_check" => Acceptable(q)
  BY DEF Granted, q
<1>1. CASE q.tool = "inspect_field"
  <2>1. Using(c) = Inspect(c)
    BY <1>1 DEF Using, q
  <2>2. CASE q.id \notin DOMAIN c.content.data
    <3>1. Using(c) = Finished(c, "error", {})
      BY <2>1, <2>2 DEF Inspect, q
    <3>2. QED
      BY <3>1, FinishedOK
  <2>3. CASE q.id \in DOMAIN c.content.data
    <3> DEFINE s == [c EXCEPT !.seen = <<q.id, c.content.data[q.id]>>]
    <3>1. Using(c) = Asking(s, "labels")
      BY <2>1, <2>3 DEF Inspect, q
    <3>2. IsCall(s) /\ s.query = q /\ s.seen = <<q.id, c.content.data[q.id]>>
      BY DEF IsCall, q
    <3> HIDE DEF s
    <3>3. Visible(s.query.target, s.query.form, s.seen[2])
      BY <1>1, <2>3, <3>2 DEF q, Metadata
    <3>4. Suits("labels", s.query.tool)
      BY <1>1, <3>2 DEF Suits
    <3>5. CallOK(r, Asking(s, "labels"))
      BY <3>2, <3>3, <3>4, AskingOK DEF q
    <3>6. Asking(s, "labels").phase = "asked" /\ Asking(s, "labels").asking = "labels"
      BY <3>2, AskingCall
    <3>7. QED
      BY <3>1, <3>5, <3>6 DEF Loads, Wants
  <2>4. QED
    BY <2>2, <2>3
<1>2. CASE q.tool = "list_form_fields"
  <2> DEFINE told == Told("field", Elements(c.content.data))
  <2>1. Using(c) = Finished(c, "success", told)
    BY <1>2 DEF Using, q
  <2>2. FormAccess(p, q.form)
    BY <1>0, <1>2, Scope DEF Metadata, p
  <2>3. ASSUME NEW x \in told PROVE MayTell(q, x)
    <3>1. PICK i \in DOMAIN c.content.data : x = <<"field", c.content.data[i]>>
      BY DEF Told, Elements
    <3>2. Visible(q.target, q.form, c.content.data[i])
      BY <1>2 DEF Metadata, q
    <3>3. FieldAccess(p, q.form, {c.content.data[i]})
      BY <2>2, <3>2, VisibleIsPermitted DEF p
    <3>4. x[1] = "field" /\ x[2] = c.content.data[i]
      BY <3>1
    <3>5. QED
      BY <3>3, <3>4 DEF MayTell, p
  <2> HIDE DEF told
  <2>4. QED
    BY <1>2, <2>1, <2>3, FinishedOK DEF q
<1>3. CASE q.tool = "list_forms"
  <2> DEFINE told == Told("form", VisibleForms(p, c.content.data))
  <2>1. Using(c) = Finished(c, "success", told)
    BY <1>3 DEF Using, q, p
  <2>2. p.allow_form_reads
    BY <1>0, <1>3, Scope DEF p
  <2>3. ASSUME NEW x \in told PROVE MayTell(q, x)
    BY <2>2, <2>3, ShownForms DEF p
  <2> HIDE DEF told
  <2>4. QED
    BY <1>3, <2>1, <2>3, FinishedOK DEF q
<1>4. CASE q.tool = "health_check"
  <2>1. Using(c) = Finished(c, "success", {})
    BY <1>4 DEF Using, q
  <2>2. QED
    BY <1>4, <2>1, FinishedOK DEF q
<1>5. QED
  BY <1>1, <1>2, <1>3, <1>4 DEF Cached, Metadata, q

(***************************************************************************)
(* Keys, locks and queues                                                  *)
(***************************************************************************)

\* Every query has a key in the caches, and every key a lock.
LEMMA KeyType ==
  ASSUME NEW r \in Calls, NEW q \in Queries[r]
  PROVE  /\ Key(q) \in Keys
         /\ LockOf(Key(q)) \in Locks
         /\ q.tool \in Metadata => Key(q) = <<"fields", q.target, q.form>>
         /\ q.tool = "list_forms" => Key(q) = <<"forms", q.target>>
         /\ q.tool \notin Metadata \cup {"list_forms"} => Key(q) = <<"health", q.target>>
<1>1. q.target \in Targets /\ q.form \in Forms
  BY FormQueriesAssumption
<1>2. "list_forms" \notin Metadata
  BY DEF Metadata
<1>3. /\ q.tool \in Metadata => Key(q) = <<"fields", q.target, q.form>>
      /\ q.tool = "list_forms" => Key(q) = <<"forms", q.target>>
      /\ q.tool \notin Metadata \cup {"list_forms"} => Key(q) = <<"health", q.target>>
  BY <1>2 DEF Key
<1>4. Key(q) \in Keys
  BY <1>1, <1>3 DEF Keys
<1> HIDE DEF Key
<1>5. QED
  BY <1>3, <1>4 DEF Locks

\* Keys behind one lock are of one kind, and one key if of health.
LEMMA SameLock ==
  ASSUME NEW k \in Keys, NEW m \in Keys, LockOf(k) = LockOf(m)
  PROVE  k[1] = m[1] /\ (k[1] = "health" => k = m)
<1>1. k[1] \in {"fields", "forms", "health"} /\ m[1] \in {"fields", "forms", "health"}
  BY DEF Keys
<1>2. CASE k[1] = "health" /\ m[1] = "health"
  BY <1>2 DEF LockOf
<1>3. CASE k[1] = "health" /\ m[1] # "health"
  <2>1. \E t \in Targets : k = <<"health", t>>
    BY <1>3 DEF Keys
  <2>2. LockOf(k) = k /\ LockOf(m) = <<m[1]>>
    BY <1>3 DEF LockOf
  <2>3. QED
    BY <2>1, <2>2
<1>4. CASE k[1] # "health" /\ m[1] = "health"
  <2>1. \E t \in Targets : m = <<"health", t>>
    BY <1>4 DEF Keys
  <2>2. LockOf(m) = m /\ LockOf(k) = <<k[1]>>
    BY <1>4 DEF LockOf
  <2>3. QED
    BY <2>1, <2>2
<1>5. CASE k[1] # "health" /\ m[1] # "health"
  <2>1. LockOf(m) = <<m[1]>> /\ LockOf(k) = <<k[1]>>
    BY <1>5 DEF LockOf
  <2>2. QED
    BY <1>5, <2>1
<1>6. QED
  BY <1>2, <1>3, <1>4, <1>5

\* Somebody leaves a queue: the others keep their order.
LEMMA LeavingQueue ==
  ASSUME queue \in [Locks -> Seq(Calls)], NEW r \in Calls, NEW l \in Locks,
         \A i, j \in 1..Len(queue[l]) : queue[l][i] = queue[l][j] => i = j
  PROVE  LET new == Leaving(r, l) IN
         /\ new \in [Locks -> Seq(Calls)]
         /\ \A m \in Locks \ {l} : new[m] = queue[m]
         /\ \A i \in 1..Len(new[l]) :
              \E j \in 1..Len(queue[l]) : new[l][i] = queue[l][j] /\ queue[l][j] # r
         /\ \A i, j \in 1..Len(new[l]) : new[l][i] = new[l][j] => i = j
         /\ Len(queue[l]) > 0 /\ queue[l][1] # r =>
              Len(new[l]) > 0 /\ new[l][1] = queue[l][1]
         /\ \A j \in 1..Len(queue[l]) : queue[l][j] # r =>
              \E i \in 1..Len(new[l]) : new[l][i] = queue[l][j]
<1> DEFINE s == queue[l]
           places == {i \in DOMAIN s : s[i] = r}
           place == CHOOSE i \in places : TRUE
           t == IF places = {} THEN s
                ELSE SubSeq(s, 1, place - 1) \o SubSeq(s, place + 1, Len(s))
<1>1. s \in Seq(Calls) /\ Len(s) \in Nat /\ DOMAIN s = 1..Len(s)
  OBVIOUS
<1>2. Leaving(r, l) = [queue EXCEPT ![l] = t]
  BY DEF Leaving
<1>3. places # {} => place \in 1..Len(s) /\ s[place] = r
  BY <1>1
<1>4. CASE places = {}
  <2>1. t = s /\ \A i \in 1..Len(s) : s[i] # r
    BY <1>1, <1>4
  <2> HIDE DEF t
  <2>2. QED
    BY <1>1, <1>2, <2>1
<1>5. CASE places # {}
  <2> HIDE DEF places, place
  <2> DEFINE a == SubSeq(s, 1, place - 1)
             b == SubSeq(s, place + 1, Len(s))
  <2>1. /\ a \in Seq(Calls) /\ Len(a) = place - 1
        /\ \A i \in 1..place - 1 : a[i] = s[i]
    <3>1. 1 \in Int /\ place - 1 \in Int /\ \A i \in 1..place - 1 : s[i] \in Calls
      BY <1>1, <1>3, <1>5
    <3>2. /\ a \in Seq(Calls) /\ Len(a) = IF 1 <= place - 1 THEN place - 1 - 1 + 1 ELSE 0
          /\ \A i \in 1..place - 1 - 1 + 1 : a[i] = s[1 + i - 1]
      BY <3>1, SubSeqProperties
    <3> HIDE DEF a, s
    <3>3. QED
      BY <1>3, <1>5, <3>2
  <2>2. /\ b \in Seq(Calls) /\ Len(b) = Len(s) - place
        /\ \A i \in 1..Len(s) - place : b[i] = s[place + i]
    <3>1. place + 1 \in Int /\ Len(s) \in Int /\ \A i \in place + 1..Len(s) : s[i] \in Calls
      BY <1>1, <1>3, <1>5
    <3>2. /\ b \in Seq(Calls)
          /\ Len(b) = IF place + 1 <= Len(s) THEN Len(s) - (place + 1) + 1 ELSE 0
          /\ \A i \in 1..Len(s) - (place + 1) + 1 : b[i] = s[place + 1 + i - 1]
      BY <3>1, SubSeqProperties
    <3> HIDE DEF b, s
    <3>3. QED
      BY <1>1, <1>3, <1>5, <3>2
  <2> HIDE DEF a, b
  <2>3. t = a \o b
    BY <1>5 DEF a, b
  <2> HIDE DEF t, s
  <2>4. /\ t \in Seq(Calls) /\ Len(t) = Len(s) - 1
        /\ \A i \in 1..Len(t) : t[i] = IF i < place THEN s[i] ELSE s[i + 1]
    <3>0. a \in Seq(Calls) /\ b \in Seq(Calls)
      BY <2>1, <2>2
    <3>1. a \o b \in Seq(Calls) /\ Len(a \o b) = Len(a) + Len(b)
          /\ \A i \in 1..Len(a) + Len(b) :
               (a \o b)[i] = IF i <= Len(a) THEN a[i] ELSE b[i - Len(a)]
      BY ONLY <3>0, ConcatProperties
    <3>2. ASSUME NEW i \in 1..Len(s) - 1
          PROVE  t[i] = IF i < place THEN s[i] ELSE s[i + 1]
      <4>1. CASE i < place
        BY <1>1, <1>3, <1>5, <2>1, <2>2, <2>3, <3>1, <4>1
      <4>2. CASE ~ (i < place)
        <5>1. i \in 1..Len(a) + Len(b) /\ ~ (i <= Len(a)) /\ i - Len(a) \in 1..Len(s) - place
              /\ place + (i - Len(a)) = i + 1
          BY <1>1, <1>3, <1>5, <2>1, <2>2, <4>2
        <5>2. t[i] = b[i - Len(a)] /\ b[i - Len(a)] = s[i + 1]
          BY <2>2, <2>3, <3>1, <5>1
        <5>3. QED
          BY <4>2, <5>2
      <4>3. QED
        BY <4>1, <4>2
    <3>3. t \in Seq(Calls) /\ Len(t) = Len(s) - 1
      BY <1>1, <1>3, <1>5, <2>1, <2>2, <2>3, <3>1
    <3>4. QED
      BY <3>2, <3>3
  <2>5. \A i \in 1..Len(t) : \E j \in 1..Len(s) : t[i] = s[j] /\ j # place
                                                 /\ j = IF i < place THEN i ELSE i + 1
    <3> SUFFICES ASSUME NEW i \in 1..Len(t)
                 PROVE  \E j \in 1..Len(s) : t[i] = s[j] /\ j # place
                                            /\ j = IF i < place THEN i ELSE i + 1
      OBVIOUS
    <3>1. CASE i < place
      BY <1>1, <1>3, <1>5, <2>4, <3>1
    <3>2. CASE ~ (i < place)
      <4>1. i + 1 \in 1..Len(s) /\ t[i] = s[i + 1] /\ i + 1 # place
        BY <1>1, <1>3, <1>5, <2>4, <3>2
      <4>2. QED
        BY <3>2, <4>1
    <3>3. QED
      BY <3>1, <3>2
  <2>6. \A i, j \in 1..Len(s) : s[i] = s[j] => i = j
    BY DEF s
  <2>7. \A i \in 1..Len(t) : \E j \in 1..Len(s) : t[i] = s[j] /\ s[j] # r
    BY <1>3, <1>5, <2>5, <2>6
  <2>8. ASSUME NEW i \in 1..Len(t), NEW j \in 1..Len(t), t[i] = t[j] PROVE i = j
    <3>1. PICK x \in 1..Len(s) : t[i] = s[x] /\ x = IF i < place THEN i ELSE i + 1
      BY <2>5
    <3>2. PICK y \in 1..Len(s) : t[j] = s[y] /\ y = IF j < place THEN j ELSE j + 1
      BY <2>5
    <3>3. x = y
      BY <2>6, <2>8, <3>1, <3>2
    <3>4. QED
      BY <1>1, <1>3, <1>5, <2>4, <3>1, <3>2, <3>3
  <2>9. Len(s) > 0 /\ s[1] # r => Len(t) > 0 /\ t[1] = s[1]
    BY <1>1, <1>3, <1>5, <2>4
  <2>10. Leaving(r, l)[l] = t /\ Leaving(r, l) \in [Locks -> Seq(Calls)]
         /\ \A m \in Locks \ {l} : Leaving(r, l)[m] = queue[m]
    BY <1>2, <2>4
  <2>11. ASSUME NEW j \in 1..Len(s), s[j] # r
         PROVE  \E i \in 1..Len(t) : t[i] = s[j]
    <3>1. CASE j < place
      BY <1>1, <1>3, <1>5, <2>4, <3>1
    <3>2. CASE ~ (j < place)
      <4>1. j # place
        BY <1>3, <1>5, <2>11
      <4>2. j - 1 \in 1..Len(t) /\ ~ (j - 1 < place) /\ (j - 1) + 1 = j
        BY <1>1, <1>3, <1>5, <2>4, <3>2, <4>1
      <4>3. t[j - 1] = s[j]
        BY <2>4, <4>2
      <4>4. QED
        BY <4>2, <4>3
    <3>3. QED
      BY <3>1, <3>2
  <2>12. QED
    BY <2>7, <2>8, <2>9, <2>10, <2>11 DEF s
<1>6. QED
  BY <1>4, <1>5

(***************************************************************************)
(* What a step of one call leaves true                                     *)
(***************************************************************************)

\* Calls stay sound when one goes on to a sound state.
LEMMA CallsStep ==
  ASSUME DOMAIN call = Calls, \A x \in Calls : CallOK(x, call[x]),
         NEW r \in Calls, NEW c, CallOK(r, c),
         call' = [call EXCEPT ![r] = c], ttl' = ttl
  PROVE  DOMAIN call' = Calls /\ \A x \in Calls : CallOK(x, call[x])'
<1>1. DOMAIN call' = Calls
  OBVIOUS
<1>2. ASSUME NEW x \in Calls PROVE CallOK(x, call[x])'
  <2>1. CallOK(x, IF x = r THEN c ELSE call[x]) /\ call'[x] = IF x = r THEN c ELSE call[x]
    OBVIOUS
  <2> DEFINE d == IF x = r THEN c ELSE call[x]
  <2> HIDE DEF d
  <2>2. CallOK(x, d) /\ call'[x] = d
    BY <2>1 DEF d
  <2>3. QED
    BY <2>2 DEF CallOK, Allowance, Lifetime
<1>3. QED
  BY <1>1, <1>2

\* Nobody but the call that takes a step changes what it waits for or loads.
LEMMA CallerWants ==
  ASSUME DOMAIN call = Calls, NEW r \in Calls, NEW c,
         call' = [call EXCEPT ![r] = c], ttl' = ttl
  PROVE  /\ \A x \in Calls : Loads(call[x])' <=> Loads(IF x = r THEN c ELSE call[x])
         /\ \A x \in Calls, l \in Locks :
              Wants(call[x], l)' <=> Wants(IF x = r THEN c ELSE call[x], l)
<1> SUFFICES ASSUME NEW x \in Calls, NEW l \in Locks
             PROVE  /\ Loads(call[x])' <=> Loads(IF x = r THEN c ELSE call[x])
                    /\ Wants(call[x], l)' <=> Wants(IF x = r THEN c ELSE call[x], l)
  <2>1. (\A x \in Calls : Loads(call[x])' <=> Loads(IF x = r THEN c ELSE call[x]))
    BY DEF Loads
  <2>2. QED
    BY <2>1
<1> DEFINE d == IF x = r THEN c ELSE call[x]
<1>1. call'[x] = d
  OBVIOUS
<1> HIDE DEF d
<1>2. (Loads(call[x])' <=> Loads(d)) /\ (Wants(call[x], l)' <=> Wants(d, l))
  BY <1>1 DEF Loads, Wants, Unlocked, Lifetime
<1> QED
  BY <1>2 DEF d

\* A call that wants what it wanted keeps its place.
LEMMA QueueKept ==
  ASSUME QueueOK, DOMAIN call = Calls, NEW r \in Calls, NEW c,
         call' = [call EXCEPT ![r] = c], ttl' = ttl, queue' = queue,
         \A l \in Locks : Wants(call[r], l) <=> Wants(c, l),
         \A l \in Locks : Loads(c) /\ Wants(c, l) => Len(queue[l]) > 0 /\ queue[l][1] = r
  PROVE  QueueOK'
<1>1. \A x \in Calls : Loads(call[x])' <=> Loads(IF x = r THEN c ELSE call[x])
  BY CallerWants
<1>2. \A x \in Calls, l \in Locks :
        Wants(call[x], l)' <=> Wants(IF x = r THEN c ELSE call[x], l)
  BY CallerWants
<1>3. \A l \in Locks : \A i \in 1..Len(queue[l]) : \A x \in Calls :
        queue[l][i] = x => Wants(call[x], l)'
  BY <1>2 DEF QueueOK
<1>4. \A x \in Calls : \A l \in Locks : Loads(call[x])' /\ Wants(call[x], l)' =>
        Len(queue[l]) > 0 /\ queue[l][1] = x
  BY <1>1, <1>2 DEF QueueOK
<1>5. \A x \in Calls : \A l \in Locks : Wants(call[x], l)' =>
        \E i \in 1..Len(queue[l]) : queue[l][i] = x
  BY <1>2 DEF QueueOK
<1>6. QED
  BY <1>3, <1>4, <1>5 DEF QueueOK

\* A call that wants nothing more leaves its queue.
LEMMA QueueLeft ==
  ASSUME QueueOK, DOMAIN call = Calls, NEW r \in Calls, NEW c, NEW m \in Locks,
         call' = [call EXCEPT ![r] = c], ttl' = ttl, queue' = Leaving(r, m),
         \A l \in Locks : Wants(call[r], l) => l = m,
         \A l \in Locks : ~ Wants(c, l)
  PROVE  QueueOK'
<1>1. \A x \in Calls : Loads(call[x])' <=> Loads(IF x = r THEN c ELSE call[x])
  BY CallerWants
<1>2. \A x \in Calls, l \in Locks :
        Wants(call[x], l)' <=> Wants(IF x = r THEN c ELSE call[x], l)
  BY CallerWants
<1>3. /\ queue' \in [Locks -> Seq(Calls)]
      /\ \A l \in Locks \ {m} : queue'[l] = queue[l]
      /\ \A i \in 1..Len(queue'[m]) :
           \E j \in 1..Len(queue[m]) : queue'[m][i] = queue[m][j] /\ queue[m][j] # r
      /\ \A i, j \in 1..Len(queue'[m]) : queue'[m][i] = queue'[m][j] => i = j
      /\ Len(queue[m]) > 0 /\ queue[m][1] # r =>
           Len(queue'[m]) > 0 /\ queue'[m][1] = queue[m][1]
      /\ \A j \in 1..Len(queue[m]) : queue[m][j] # r =>
           \E i \in 1..Len(queue'[m]) : queue'[m][i] = queue[m][j]
  <2> DEFINE new == Leaving(r, m)
  <2>1. queue \in [Locks -> Seq(Calls)]
        /\ \A i, j \in 1..Len(queue[m]) : queue[m][i] = queue[m][j] => i = j
    BY DEF QueueOK
  <2>2. /\ new \in [Locks -> Seq(Calls)]
        /\ \A l \in Locks \ {m} : new[l] = queue[l]
        /\ \A i \in 1..Len(new[m]) :
             \E j \in 1..Len(queue[m]) : new[m][i] = queue[m][j] /\ queue[m][j] # r
        /\ \A i, j \in 1..Len(new[m]) : new[m][i] = new[m][j] => i = j
        /\ Len(queue[m]) > 0 /\ queue[m][1] # r =>
             Len(new[m]) > 0 /\ new[m][1] = queue[m][1]
        /\ \A j \in 1..Len(queue[m]) : queue[m][j] # r =>
             \E i \in 1..Len(new[m]) : new[m][i] = queue[m][j]
    BY <2>1, LeavingQueue
  <2>3. queue' = new
    OBVIOUS
  <2> HIDE DEF new
  <2>4. QED
    BY <2>2, <2>3
<1>4. \A l \in Locks : \A i \in 1..Len(queue'[l]) : \A x \in Calls :
        queue'[l][i] = x => Wants(call[x], l)'
  <2> SUFFICES ASSUME NEW l \in Locks, NEW i \in 1..Len(queue'[l]), NEW x \in Calls,
                      queue'[l][i] = x
               PROVE  Wants(call[x], l)'
    OBVIOUS
  <2>1. PICK j \in 1..Len(queue[l]) : x = queue[l][j] /\ x # r
    <3>1. CASE l = m
      BY <1>3, <3>1
    <3>2. CASE l # m
      <4>1. queue'[l] = queue[l]
        BY <1>3, <3>2
      <4>2. Wants(call[x], l)
        BY <4>1 DEF QueueOK
      <4>3. x # r
        BY <3>2, <4>2
      <4>4. QED
        BY <4>1, <4>3
    <3>3. QED
      BY <3>1, <3>2
  <2>2. Wants(call[x], l)
    BY <2>1 DEF QueueOK
  <2>3. QED
    BY <1>2, <2>1, <2>2
<1>5. \A x \in Calls : \A l \in Locks : Loads(call[x])' /\ Wants(call[x], l)' =>
        Len(queue'[l]) > 0 /\ queue'[l][1] = x
  <2> SUFFICES ASSUME NEW x \in Calls, NEW l \in Locks, Loads(call[x])', Wants(call[x], l)'
               PROVE  Len(queue'[l]) > 0 /\ queue'[l][1] = x
    OBVIOUS
  <2>1. x # r /\ Loads(call[x]) /\ Wants(call[x], l)
    BY <1>1, <1>2
  <2>2. Len(queue[l]) > 0 /\ queue[l][1] = x
    BY <2>1 DEF QueueOK
  <2>3. QED
    BY <1>3, <2>1, <2>2
<1>6. \A l \in Locks : \A i, j \in 1..Len(queue'[l]) : queue'[l][i] = queue'[l][j] => i = j
  <2>1. \A l \in Locks : \A i, j \in 1..Len(queue[l]) : queue[l][i] = queue[l][j] => i = j
    BY DEF QueueOK
  <2>2. ASSUME NEW l \in Locks
        PROVE  \A i, j \in 1..Len(queue'[l]) : queue'[l][i] = queue'[l][j] => i = j
    <3>1. CASE l = m
      BY <1>3, <3>1
    <3>2. CASE l # m
      <4>1. queue'[l] = queue[l]
        BY <1>3, <3>2
      <4>2. QED
        BY <2>1, <4>1
    <3>3. QED
      BY <3>1, <3>2
  <2>3. QED
    BY <2>2
<1>7. \A x \in Calls : \A l \in Locks : Wants(call[x], l)' =>
        \E i \in 1..Len(queue'[l]) : queue'[l][i] = x
  <2> SUFFICES ASSUME NEW x \in Calls, NEW l \in Locks, Wants(call[x], l)'
               PROVE  \E i \in 1..Len(queue'[l]) : queue'[l][i] = x
    OBVIOUS
  <2>1. x # r /\ Wants(call[x], l)
    BY <1>2
  <2>2. \E i \in 1..Len(queue[l]) : queue[l][i] = x
    BY <2>1 DEF QueueOK
  <2>3. QED
    BY <1>3, <2>1, <2>2
<1>8. QED
  BY <1>3, <1>4, <1>5, <1>6, <1>7 DEF QueueOK

\* A call that wants a lock takes the last place.
LEMMA QueueJoined ==
  ASSUME QueueOK, DOMAIN call = Calls, NEW r \in Calls, NEW c, NEW m \in Locks,
         call' = [call EXCEPT ![r] = c], ttl' = ttl,
         queue' = [queue EXCEPT ![m] = Append(@, r)],
         \A l \in Locks : ~ Wants(call[r], l),
         \A l \in Locks : Wants(c, l) <=> l = m,
         Loads(c) => queue[m] = <<>>
  PROVE  QueueOK'
<1>1. \A x \in Calls : Loads(call[x])' <=> Loads(IF x = r THEN c ELSE call[x])
  BY CallerWants
<1>2. \A x \in Calls, l \in Locks :
        Wants(call[x], l)' <=> Wants(IF x = r THEN c ELSE call[x], l)
  BY CallerWants
<1>3. /\ queue' \in [Locks -> Seq(Calls)]
      /\ \A l \in Locks \ {m} : queue'[l] = queue[l]
      /\ queue[m] \in Seq(Calls) /\ Len(queue[m]) \in Nat
      /\ Len(queue'[m]) = Len(queue[m]) + 1
      /\ queue'[m][Len(queue[m]) + 1] = r
      /\ \A i \in 1..Len(queue[m]) : queue'[m][i] = queue[m][i]
  BY DEF QueueOK
<1>4. \A l \in Locks : \A i \in 1..Len(queue[l]) : queue[l][i] # r
  BY DEF QueueOK
<1>5. \A l \in Locks : \A i \in 1..Len(queue'[l]) : \A x \in Calls :
        queue'[l][i] = x => Wants(call[x], l)'
  <2> SUFFICES ASSUME NEW l \in Locks, NEW i \in 1..Len(queue'[l]), NEW x \in Calls,
                      queue'[l][i] = x
               PROVE  Wants(call[x], l)'
    OBVIOUS
  <2>1. CASE l = m /\ i = Len(queue[m]) + 1
    BY <1>2, <1>3, <2>1
  <2>2. CASE ~ (l = m /\ i = Len(queue[m]) + 1)
    <3>1. i \in 1..Len(queue[l]) /\ queue[l][i] = x
      BY <1>3, <2>2
    <3>2. x # r /\ Wants(call[x], l)
      BY <1>4, <3>1 DEF QueueOK
    <3>3. QED
      BY <1>2, <3>2
  <2>3. QED
    BY <2>1, <2>2
<1>6. \A x \in Calls : \A l \in Locks : Loads(call[x])' /\ Wants(call[x], l)' =>
        Len(queue'[l]) > 0 /\ queue'[l][1] = x
  <2> SUFFICES ASSUME NEW x \in Calls, NEW l \in Locks, Loads(call[x])', Wants(call[x], l)'
               PROVE  Len(queue'[l]) > 0 /\ queue'[l][1] = x
    OBVIOUS
  <2>1. CASE x = r
    <3>1. l = m /\ queue[m] = <<>>
      BY <1>1, <1>2, <2>1
    <3>2. Len(queue[m]) = 0
      BY <3>1
    <3>3. QED
      BY <1>3, <2>1, <3>1, <3>2
  <2>2. CASE x # r
    <3>1. Len(queue[l]) > 0 /\ queue[l][1] = x
      BY <1>1, <1>2, <2>2 DEF QueueOK
    <3>2. QED
      BY <1>3, <3>1
  <2>3. QED
    BY <2>1, <2>2
<1>7. \A l \in Locks : \A i, j \in 1..Len(queue'[l]) : queue'[l][i] = queue'[l][j] => i = j
  <2> SUFFICES ASSUME NEW l \in Locks, NEW i \in 1..Len(queue'[l]), NEW j \in 1..Len(queue'[l]),
                      queue'[l][i] = queue'[l][j]
               PROVE  i = j
    OBVIOUS
  <2>0. \A x, y \in 1..Len(queue[l]) : queue[l][x] = queue[l][y] => x = y
    BY DEF QueueOK
  <2>1. CASE l # m
    BY <1>3, <2>0, <2>1
  <2>2. CASE l = m
    BY <1>3, <1>4, <2>0, <2>2
  <2>3. QED
    BY <2>1, <2>2
<1>8. \A x \in Calls : \A l \in Locks : Wants(call[x], l)' =>
        \E i \in 1..Len(queue'[l]) : queue'[l][i] = x
  <2> SUFFICES ASSUME NEW x \in Calls, NEW l \in Locks, Wants(call[x], l)'
               PROVE  \E i \in 1..Len(queue'[l]) : queue'[l][i] = x
    OBVIOUS
  <2>1. CASE x = r
    <3>1. l = m /\ Len(queue[m]) + 1 \in 1..Len(queue'[m])
      BY <1>2, <1>3, <2>1
    <3>2. QED
      BY <1>3, <2>1, <3>1
  <2>2. CASE x # r
    <3>1. PICK i \in 1..Len(queue[l]) : queue[l][i] = x
      BY <1>2, <2>2 DEF QueueOK
    <3>2. i \in 1..Len(queue'[l]) /\ queue'[l][i] = x
      BY <1>3, <3>1
    <3>3. QED
      BY <3>2
  <2>3. QED
    BY <2>1, <2>2
<1>9. QED
  BY <1>3, <1>5, <1>6, <1>7, <1>8 DEF QueueOK

(***************************************************************************)
(* The caches                                                              *)
(***************************************************************************)

\* Entries only go: what is left is as it was.
CacheShrinks ==
  /\ DOMAIN cache' \subseteq DOMAIN cache
  /\ \A k \in DOMAIN cache' : cache'[k] = cache[k]

\* Looking drops an expired entry and nothing else.
LEMMA LookedShrinks ==
  ASSUME NEW k, NEW q, cache' = Looked(k, q)
  PROVE  CacheShrinks
BY DEF Looked, Without, CacheShrinks

\* A smaller cache is as sound, and no entry becomes valid.
LEMMA ShrunkCache ==
  ASSUME CacheShrinks, CacheOK, CachesBounded, ttl' = ttl
  PROVE  /\ CacheOK' /\ CachesBounded'
         /\ \A k : Valid(k)' => Valid(k)
<1>1. CacheOK'
  BY DEF CacheShrinks, CacheOK, Lifetime
<1>2. \A k : Valid(k)' => Valid(k)
  BY DEF CacheShrinks, Valid, Lifetime
<1>3. IsFiniteSet(DOMAIN cache) /\ IsFiniteSet(DOMAIN cache')
  BY FS_Subset DEF CacheShrinks, CachesBounded
<1>4. ASSUME NEW kind \in {"fields", "forms"}
      PROVE  Cardinality({k \in DOMAIN cache' : k[1] = kind}) <= MaxEntries
  <2> DEFINE old == {k \in DOMAIN cache : k[1] = kind}
             new == {k \in DOMAIN cache' : k[1] = kind}
  <2>1. new \subseteq old /\ old \subseteq DOMAIN cache
    BY DEF CacheShrinks
  <2>2. Cardinality(old) <= MaxEntries
    BY DEF CachesBounded
  <2> HIDE DEF old, new
  <2>3. IsFiniteSet(old)
    BY <1>3, <2>1, FS_Subset
  <2>4. Cardinality(new) <= Cardinality(old) /\ Cardinality(new) \in Nat
        /\ Cardinality(old) \in Nat
    BY <2>1, <2>3, FS_Subset, FS_CardinalityType
  <2>5. Cardinality(new) <= MaxEntries
    BY <2>2, <2>4, FormQueriesAssumption
  <2>6. QED
    BY <2>5 DEF new
<1>5. CachesBounded'
  BY <1>3, <1>4 DEF CachesBounded
<1>6. QED
  BY <1>1, <1>2, <1>5

\* What is found in a cache is as recent as its lifetime promises, and fields
\* are only those that may be shown.
LEMMA FoundEntry ==
  ASSUME CacheOK, ttl \in Settings, NEW k, Valid(k)
  PROVE  /\ DOMAIN Found(k) = {"data", "lag", "for"}
         /\ Found(k).lag \in Nat /\ Lifetime(k) > 0
         /\ Found(k).lag <= Timeout + (Lifetime(k) - 1)
         /\ k[1] = "fields" => \A i \in DOMAIN Found(k).data :
                                 Visible(k[2], k[3], Found(k).data[i])
<1>1. /\ k \in DOMAIN cache /\ cache[k].lag \in 0..Timeout
      /\ cache[k].age \in 0..Lifetime(k) /\ cache[k].age < Lifetime(k)
      /\ k[1] = "fields" => \A i \in DOMAIN cache[k].data :
                              Visible(k[2], k[3], cache[k].data[i])
  BY DEF Valid, CacheOK
<1>2. Lifetime(k) \in Nat /\ Timeout \in Nat
  BY LifetimeType, FormQueriesAssumption
<1>3. Found(k).lag = cache[k].lag + cache[k].age /\ Found(k).data = cache[k].data
      /\ DOMAIN Found(k) = {"data", "lag", "for"}
  BY DEF Found
<1> HIDE DEF Found, Visible, Lifetime
<1>4. QED
  BY <1>1, <1>2, <1>3

\* A loaded answer is stored: the cache may lose the entries that make room.
LEMMA StoredEntry ==
  ASSUME CacheOK, CachesBounded, ttl \in Settings, ttl' = ttl,
         NEW k \in Keys, NEW content, DOMAIN content = {"data", "lag", "for"},
         content.lag \in 0..Timeout,
         k[1] = "fields" => \A i \in DOMAIN content.data :
                              Visible(k[2], k[3], content.data[i]),
         Store(k, content)
  PROVE  /\ CacheOK' /\ CachesBounded'
         /\ \A x : x # k /\ Valid(x)' => Valid(x)
         /\ Lifetime(k) = 0 => UNCHANGED cache
<1>0. Lifetime(k) \in Nat
  BY LifetimeType
<1>1. CASE Lifetime(k) = 0
  <2>1. UNCHANGED cache
    BY <1>1 DEF Store
  <2>2. CacheShrinks
    BY <2>1 DEF CacheShrinks
  <2>3. QED
    BY <2>1, <2>2, ShrunkCache
<1>2. CASE Lifetime(k) # 0
  <2> DEFINE entry == [data |-> content.data, lag |-> content.lag,
                       for |-> content.for, age |-> 0]
  <2>1. PICK room \in Room(k) :
          cache' = [x \in DOMAIN room \cup {k} |-> IF x = k THEN entry ELSE room[x]]
    BY <1>2 DEF Store
  <2>e. /\ DOMAIN entry = {"data", "lag", "for", "age"} /\ entry.data = content.data
        /\ entry.lag = content.lag /\ entry.age = 0
    OBVIOUS
  <2> HIDE DEF entry
  <2>2. /\ DOMAIN room \subseteq DOMAIN cache
        /\ \A x \in DOMAIN room : room[x] = cache[x]
    BY DEF Room, Without
  <2>3. DOMAIN cache' = DOMAIN room \cup {k} /\ cache'[k] = entry
        /\ \A x \in DOMAIN room \ {k} : cache'[x] = cache[x]
    BY <2>1, <2>2
  <2>4. CacheOK'
    <3> SUFFICES ASSUME NEW x \in DOMAIN cache'
                 PROVE  /\ x \in Keys
                        /\ DOMAIN cache'[x] = {"data", "lag", "for", "age"}
                        /\ cache'[x].lag \in 0..Timeout
                        /\ cache'[x].age \in 0..Lifetime(x)
                        /\ x[1] = "fields" => \A i \in DOMAIN cache'[x].data :
                                                Visible(x[2], x[3], cache'[x].data[i])
      BY DEF CacheOK, Lifetime
    <3> HIDE DEF Visible
    <3>1. CASE x = k
      BY <1>0, <2>e, <2>3, <3>1
    <3>2. CASE x # k
      BY <2>2, <2>3, <3>2 DEF CacheOK
    <3>3. QED
      BY <3>1, <3>2
  <2>5. \A x : x # k /\ Valid(x)' => Valid(x)
    BY <2>2, <2>3 DEF Valid, Lifetime
  <2>6. IsFiniteSet(DOMAIN cache) /\ IsFiniteSet(DOMAIN cache')
    BY <2>2, <2>3, FS_Subset, FS_AddElement DEF CachesBounded
  <2>7. ASSUME NEW kind \in {"fields", "forms"}
        PROVE  Cardinality({x \in DOMAIN cache' : x[1] = kind}) <= MaxEntries
    <3> DEFINE old == {x \in DOMAIN cache : x[1] = kind}
               left == {x \in DOMAIN room : x[1] = kind}
               new == {x \in DOMAIN cache' : x[1] = kind}
    <3>1. /\ old \subseteq DOMAIN cache /\ left \subseteq old
          /\ new \subseteq left \cup {k}
      BY <2>2, <2>3
    <3>2. Cardinality(old) <= MaxEntries
      BY DEF CachesBounded
    <3>3. k[1] # kind => new \subseteq old
      BY <2>2, <2>3
    <3>4. k[1] = kind =>
            \/ Cardinality(old) < MaxEntries
            \/ \E x \in old : left \subseteq old \ {x}
      <4> SUFFICES ASSUME k[1] = kind, ~ (Cardinality(old) < MaxEntries)
                   PROVE  \E x \in old : left \subseteq old \ {x}
        OBVIOUS
      <4> DEFINE first == {x \in old : \A y \in old : cache[y].age <= cache[x].age}
      <4>1. k[1] # "health"
        OBVIOUS
      <4>2. Room(k) = {Without(x) : x \in first}
        BY <4>1 DEF Room
      <4>3. PICK x \in first : room = Without(x)
        BY <4>2
      <4>4. x \in old /\ DOMAIN room = DOMAIN cache \ {x}
        BY <4>3 DEF Without
      <4>5. left \subseteq old \ {x}
        BY <4>4
      <4>6. QED
        BY <4>4, <4>5
    <3> HIDE DEF old, left, new
    <3>5. IsFiniteSet(old) /\ IsFiniteSet(left) /\ Cardinality(old) \in Nat
      BY <2>6, <3>1, FS_Subset, FS_CardinalityType
    <3>6. Cardinality(left \cup {k}) <= Cardinality(left) + 1 /\ IsFiniteSet(left \cup {k})
          /\ Cardinality(left) \in Nat /\ Cardinality(left \cup {k}) \in Nat
      <4>1. /\ IsFiniteSet(left \cup {k})
            /\ Cardinality(left \cup {k}) =
                 IF k \in left THEN Cardinality(left) ELSE Cardinality(left) + 1
        BY <3>5, FS_AddElement
      <4>2. Cardinality(left) \in Nat
        BY <3>5, FS_CardinalityType
      <4>3. QED
        BY <4>1, <4>2
    <3>7. Cardinality(new) <= Cardinality(left) + 1 /\ Cardinality(new) \in Nat
      BY <3>1, <3>6, FS_Subset, FS_CardinalityType
    <3>8. MaxEntries \in Nat
      BY FormQueriesAssumption
    <3>9. CASE k[1] # kind
      <4>1. Cardinality(new) <= Cardinality(old)
        BY <3>3, <3>5, <3>9, FS_Subset
      <4>2. Cardinality(new) <= MaxEntries
        BY <3>2, <3>5, <3>7, <3>8, <4>1
      <4>3. QED
        BY <4>2 DEF new
    <3>10. CASE k[1] = kind /\ Cardinality(old) < MaxEntries
      <4>1. Cardinality(left) <= Cardinality(old)
        BY <3>1, <3>5, FS_Subset
      <4>2. Cardinality(new) <= MaxEntries
        BY <3>5, <3>6, <3>7, <3>8, <3>10, <4>1
      <4>3. QED
        BY <4>2 DEF new
    <3>11. ASSUME NEW x \in old, left \subseteq old \ {x}
           PROVE  Cardinality({y \in DOMAIN cache' : y[1] = kind}) <= MaxEntries
      <4>1. IsFiniteSet(old \ {x}) /\ Cardinality(old \ {x}) = Cardinality(old) - 1
        BY <3>5, FS_RemoveElement
      <4>2. Cardinality(left) <= Cardinality(old) - 1
        BY <3>11, <4>1, FS_Subset
      <4>3. Cardinality(new) <= MaxEntries
        BY <3>2, <3>5, <3>6, <3>7, <3>8, <4>2
      <4>4. QED
        BY <4>3 DEF new
    <3>12. QED
      BY <3>4, <3>9, <3>10, <3>11
  <2>8. CachesBounded'
    BY <2>6, <2>7 DEF CachesBounded
  <2>9. QED
    BY <1>2, <2>4, <2>5, <2>8
<1>3. QED
  BY <1>1, <1>2

(***************************************************************************)
(* The steps                                                               *)
(***************************************************************************)

\* No load becomes useless when no entry becomes valid.
LEMMA UselessStep ==
  ASSUME NoUselessLoad, DOMAIN call = Calls, NEW r \in Calls, NEW c,
         call' = [call EXCEPT ![r] = c], ttl' = ttl,
         \A k : Valid(k)' => Valid(k),
         Loads(c) /\ Lifetime(Key(c.query)) > 0 /\ Valid(Key(c.query)) => c.query.force
  PROVE  NoUselessLoad'
<1> SUFFICES ASSUME NEW x \in Calls, Loads(call[x])', (Lifetime(Key(call[x].query)) > 0)',
                    Valid(Key(call[x].query))'
             PROVE  call'[x].query.force
  BY DEF NoUselessLoad
<1> DEFINE d == IF x = r THEN c ELSE call[x]
<1>1. call'[x] = d /\ (Loads(d) /\ Lifetime(Key(d.query)) > 0 /\ Valid(Key(d.query)) => d.query.force)
  BY DEF NoUselessLoad
<1> HIDE DEF d
<1>2. Loads(d)
  BY <1>1 DEF Loads
<1>3. Lifetime(Key(d.query)) > 0
  BY <1>1 DEF Lifetime
<1>4. Valid(Key(d.query))
  <2>1. \A k : (k \in DOMAIN cache' /\ cache'[k].age < Lifetime(k)) => Valid(k)
    BY DEF Valid, Lifetime
  <2>2. Key(d.query) \in DOMAIN cache' /\ cache'[Key(d.query)].age < Lifetime(Key(d.query))
    BY <1>1 DEF Valid, Lifetime
  <2>3. QED
    BY <2>1, <2>2
<1>5. QED
  BY <1>1, <1>2, <1>3, <1>4

\* A step of a call that neither touches the caches nor its place in a queue.
LEMMA LocalStep ==
  ASSUME IInv, NEW r \in Calls, NEW c, CallOK(r, c), call' = [call EXCEPT ![r] = c],
         UNCHANGED <<ttl, queue, cache>>,
         \A l \in Locks : Wants(call[r], l) <=> Wants(c, l),
         Loads(c) => Loads(call[r]) /\ c.query = call[r].query
  PROVE  IInv'
<1>1. DOMAIN call' = Calls /\ \A x \in Calls : CallOK(x, call[x])'
  BY CallsStep DEF IInv
<1>2. CacheShrinks
  BY DEF CacheShrinks
<1>3. CacheOK' /\ CachesBounded' /\ \A k : Valid(k)' => Valid(k)
  BY <1>2, ShrunkCache DEF IInv
<1>4. \A l \in Locks : Loads(c) /\ Wants(c, l) => Len(queue[l]) > 0 /\ queue[l][1] = r
  BY DEF IInv, QueueOK
<1>5. QueueOK'
  BY <1>4, QueueKept DEF IInv
<1>6. Loads(c) /\ Lifetime(Key(c.query)) > 0 /\ Valid(Key(c.query)) => c.query.force
  BY DEF IInv, NoUselessLoad
<1>7. NoUselessLoad'
  BY <1>3, <1>6, UselessStep DEF IInv
<1>8. QED
  BY <1>1, <1>3, <1>5, <1>7 DEF IInv

\* A call that is over gives up its lock or its place in a queue.
LEMMA LeavingStep ==
  ASSUME IInv, NEW r \in Calls, NEW c, CallOK(r, c), call' = [call EXCEPT ![r] = c],
         call[r].phase # "idle",
         queue' = Leaving(r, LockOf(Key(call[r].query))),
         ttl' = ttl, cache' = cache,
         \A l : ~ Wants(c, l), ~ Loads(c)
  PROVE  IInv'
<1>1. DOMAIN call' = Calls /\ \A x \in Calls : CallOK(x, call[x])'
  BY CallsStep DEF IInv
<1>2. CacheShrinks
  BY DEF CacheShrinks
<1>3. CacheOK' /\ CachesBounded' /\ \A k : Valid(k)' => Valid(k)
  BY <1>2, ShrunkCache DEF IInv
<1>4. call[r].query \in Queries[r]
  BY DEF IInv, CallOK
<1>5. LockOf(Key(call[r].query)) \in Locks
  BY <1>4, KeyType
<1>6. \A l \in Locks : Wants(call[r], l) => l = LockOf(Key(call[r].query))
  BY DEF Wants
<1>7. QueueOK'
  BY <1>5, <1>6, QueueLeft DEF IInv
<1>8. NoUselessLoad'
  BY <1>3, UselessStep DEF IInv
<1>9. QED
  BY <1>1, <1>3, <1>7, <1>8 DEF IInv

\* Every call is sound.
LEMMA CallType ==
  ASSUME IInv, NEW r \in Calls
  PROVE  CallOK(r, call[r]) /\ IsCall(call[r])
BY DEF IInv, CallOK

\* What a call loads for the cache suits its tool.
LEMMA LoadSuits ==
  ASSUME NEW q, q.tool \in Cached
  PROVE  Suits(Load(q), q.tool) /\ Load(q) \in {"fields", "forms", "probe"}
<1>1. q.tool \in Metadata \/ q.tool = "list_forms" \/ q.tool = "health_check"
  BY DEF Cached
<1>2. "list_forms" \notin Metadata /\ "health_check" \notin Metadata
  BY DEF Metadata
<1>3. QED
  BY <1>1, <1>2 DEF Load, Suits

\* A hit ends the call, or asks for the labels, within the policy.
LEMMA UseFound ==
  ASSUME IInv, NEW r \in Calls, NEW c, IsCall(c), c.query \in Queries[r],
         Granted(c.query), c.query.tool \in Cached, Hit(Key(c.query), c.query)
  PROVE  LET u == Using([c EXCEPT !.content = Found(Key(c.query))]) IN
         CallOK(r, u) /\ (\A l : ~ Wants(u, l)) /\ ~ Loads(u)
<1> DEFINE k == Key(c.query)
           d == [c EXCEPT !.content = Found(k)]
<1>1. Valid(k) /\ ~ c.query.force
  BY DEF Hit
<1> HIDE DEF k
<1>2. /\ DOMAIN Found(k) = {"data", "lag", "for"}
      /\ Found(k).lag \in Nat /\ Lifetime(k) > 0
      /\ Found(k).lag <= Timeout + (Lifetime(k) - 1)
      /\ k[1] = "fields" => \A i \in DOMAIN Found(k).data :
                              Visible(k[2], k[3], Found(k).data[i])
  BY <1>1, FoundEntry DEF IInv
<1>3. IsCall(d) /\ d.query = c.query /\ d.content = Found(k)
  BY <1>2 DEF IsCall
<1> HIDE DEF d
<1>4. d.query.tool \in Metadata => \A i \in DOMAIN d.content.data :
           Visible(d.query.target, d.query.form, d.content.data[i])
  <2> SUFFICES ASSUME c.query.tool \in Metadata
               PROVE  \A i \in DOMAIN Found(k).data :
                        Visible(c.query.target, c.query.form, Found(k).data[i])
    BY <1>3
  <2>1. k = <<"fields", c.query.target, c.query.form>>
    BY KeyType DEF k
  <2>2. k[1] = "fields" /\ k[2] = c.query.target /\ k[3] = c.query.form
    BY <2>1
  <2>3. QED
    BY <1>2, <2>2
<1>5. d.query.tool # "inspect_field" => d.content.lag <= Timeout + Allowance(d.query)
  <2> SUFFICES ASSUME c.query.tool # "inspect_field"
               PROVE  Found(k).lag <= Timeout + Allowance(c.query)
    BY <1>3
  <2>1. Allowance(c.query) = Lifetime(k) - 1
    BY <1>2 DEF Allowance, k
  <2>2. QED
    BY <1>2, <2>1
<1>6. CallOK(r, Using(d)) /\ (\A l : ~ Wants(Using(d), l)) /\ ~ Loads(Using(d))
  BY <1>1, <1>3, <1>4, <1>5, UsingOK DEF IInv
<1> QED
  BY <1>6 DEF d, k

\* The cache is looked at; then the lock is taken, or waited for.
LEMMA LookUpStep ==
  ASSUME IInv, NEW r \in Calls, NEW c, IsCall(c), c.query \in Queries[r],
         Granted(c.query), c.query.tool \in Cached,
         call[r].phase \in {"idle", "counting"},
         LookUp(r, c), ttl' = ttl
  PROVE  IInv'
<1> DEFINE q == c.query
           k == Key(q)
           l == LockOf(k)
<1>0. k \in Keys /\ l \in Locks
  BY KeyType
<1>1. /\ cache' = Looked(k, q)
      /\ IF Hit(k, q) THEN Goto(r, Using([c EXCEPT !.content = Found(k)]))
         ELSE IF Unlocked(k) \/ queue[l] = <<>> THEN Goto(r, Asking(c, Load(q)))
         ELSE Goto(r, [c EXCEPT !.phase = "waiting"])
      /\ queue' = IF Hit(k, q) \/ Unlocked(k) THEN queue
                  ELSE [queue EXCEPT ![l] = Append(@, r)]
  BY DEF LookUp
<1>2. CacheShrinks
  BY <1>1, LookedShrinks
<1>3. CacheOK' /\ CachesBounded' /\ \A x : Valid(x)' => Valid(x)
  BY <1>2, ShrunkCache DEF IInv
<1>4. ~ Loads(call[r]) /\ \A m : ~ Wants(call[r], m)
  BY DEF Loads, Wants
<1>5. \A d : Goto(r, d) /\ CallOK(r, d) /\ QueueOK'
             /\ (Loads(d) /\ Lifetime(Key(d.query)) > 0 /\ Valid(Key(d.query)) => d.query.force)
             => IInv'
  <2> SUFFICES ASSUME NEW d, call' = [call EXCEPT ![r] = d], CallOK(r, d), QueueOK',
                      Loads(d) /\ Lifetime(Key(d.query)) > 0 /\ Valid(Key(d.query))
                        => d.query.force
               PROVE  IInv'
    BY DEF Goto
  <2>1. DOMAIN call' = Calls /\ \A x \in Calls : CallOK(x, call[x])'
    BY CallsStep DEF IInv
  <2>2. NoUselessLoad'
    BY <1>3, UselessStep DEF IInv
  <2>3. QED
    BY <1>3, <2>1, <2>2 DEF IInv
<1> DEFINE a == Asking(c, Load(q))
<1>6. /\ IsCall(a) /\ a.phase = "asked" /\ a.query = q /\ a.asking = Load(q)
      /\ CallOK(r, a)
  BY AskingCall, AskingOK, LoadSuits
<1>7. Loads(a) /\ \A m : Wants(a, m) <=> ~ Unlocked(k) /\ m = l
  <2> HIDE DEF a
  <2>1. Loads(a)
    BY <1>6, LoadSuits DEF Loads
  <2>2. QED
    BY <1>6, <2>1 DEF Wants
<1> HIDE DEF k, l, q, a
<1>8. CASE Hit(k, q)
  <2> DEFINE u == Using([c EXCEPT !.content = Found(k)])
  <2>1. CallOK(r, u) /\ (\A m : ~ Wants(u, m)) /\ ~ Loads(u)
    BY <1>8, UseFound DEF k, q
  <2> HIDE DEF u
  <2>2. Goto(r, u) /\ queue' = queue
    BY <1>1, <1>8 DEF u
  <2>3. QueueOK'
    BY <1>4, <2>1, <2>2, QueueKept DEF IInv, Goto
  <2>4. QED
    BY <1>5, <2>1, <2>2, <2>3
<1>9. ~ Hit(k, q) /\ Valid(k) => q.force
  BY DEF Hit
<1>10. CASE ~ Hit(k, q) /\ Unlocked(k)
  <2>1. Goto(r, a) /\ queue' = queue
    BY <1>1, <1>10 DEF a
  <2>2. \A m : ~ Wants(a, m)
    BY <1>7, <1>10
  <2>3. QueueOK'
    BY <1>4, <2>1, <2>2, QueueKept DEF IInv, Goto
  <2>4. QED
    BY <1>5, <1>6, <1>9, <1>10, <2>1, <2>3 DEF k
<1>11. CASE ~ Hit(k, q) /\ ~ Unlocked(k) /\ queue[l] = <<>>
  <2>1. Goto(r, a) /\ queue' = [queue EXCEPT ![l] = Append(@, r)]
    BY <1>1, <1>11 DEF a
  <2>2. \A m : Wants(a, m) <=> m = l
    BY <1>7, <1>11
  <2>3. QueueOK'
    BY <1>0, <1>4, <1>11, <2>1, <2>2, QueueJoined DEF IInv, Goto
  <2>4. QED
    BY <1>5, <1>6, <1>9, <1>11, <2>1, <2>3 DEF k
<1>12. CASE ~ Hit(k, q) /\ ~ Unlocked(k) /\ queue[l] # <<>>
  <2> DEFINE w == [c EXCEPT !.phase = "waiting"]
  <2>1. Goto(r, w) /\ queue' = [queue EXCEPT ![l] = Append(@, r)]
    BY <1>1, <1>12
  <2>2. IsCall(w) /\ w.phase = "waiting" /\ w.query = q
    BY DEF IsCall, q
  <2> HIDE DEF w
  <2>3. CallOK(r, w)
    BY <2>2 DEF CallOK, Working, q
  <2>4. ~ Loads(w) /\ \A m : Wants(w, m) <=> m = l
    BY <1>12, <2>2 DEF Loads, Wants, k, l
  <2>5. QueueOK'
    BY <1>0, <1>4, <1>12, <2>1, <2>4, QueueJoined DEF IInv, Goto
  <2>6. QED
    BY <1>5, <2>1, <2>3, <2>4, <2>5
<1>13. QED
  BY <1>8, <1>10, <1>11, <1>12

\* A call is refused, or waits to be counted.
LEMMA BegunStep ==
  ASSUME IInv, NEW r \in Calls, NEW q \in Queries[r], q.tool \in FormTool \cup SqlTool,
         call[r].phase = "idle", Goto(r, Begun(q)), UNCHANGED <<ttl, queue, cache>>
  PROVE  IInv'
<1> DEFINE c == [Idle EXCEPT !.query = q]
           b == [c EXCEPT !.phase = "counting"]
<1>1. IsCall(c) /\ c.query = q
  BY IdleCall
<1>2. ~ Loads(call[r]) /\ \A l : ~ Wants(call[r], l)
  BY DEF Loads, Wants
<1>3. CASE Acceptable(q)
  <2>1. Begun(q) = b
    BY <1>3 DEF Begun
  <2> HIDE DEF c
  <2>2. IsCall(b) /\ b.phase = "counting" /\ b.query = q
    BY <1>1 DEF IsCall
  <2> HIDE DEF b
  <2>3. CallOK(r, b) /\ ~ Loads(b) /\ \A l : ~ Wants(b, l)
    BY <1>3, <2>2 DEF CallOK, Working, Granted, Loads, Wants
  <2>4. QED
    BY <1>2, <2>1, <2>3, LocalStep DEF Goto
<1>4. CASE ~ Acceptable(q)
  <2> DEFINE f == Finished(c, "error", {})
  <2>1. Begun(q) = f
    BY <1>4 DEF Begun
  <2> HIDE DEF c
  <2>2. CallOK(r, f) /\ ~ Loads(f) /\ \A l : ~ Wants(f, l)
    BY <1>1, FinishedOK
  <2> HIDE DEF f
  <2>3. QED
    BY <1>2, <2>1, <2>2, LocalStep DEF Goto
<1>5. QED
  BY <1>3, <1>4

\* The call is over, outside of any queue.
LEMMA FinishStep ==
  ASSUME IInv, NEW r \in Calls, call[r].phase # "idle",
         ~ Loads(call[r]), call[r].phase # "waiting",
         NEW outcome, NEW told, \A x \in told : MayTell(call[r].query, x),
         outcome = "success" =>
           /\ call[r].content.lag <= Timeout + Allowance(call[r].query)
           /\ call[r].query.force => r \in call[r].content.for,
         Goto(r, Finished(call[r], outcome, told)), UNCHANGED <<ttl, queue, cache>>
  PROVE  IInv'
<1> DEFINE f == Finished(call[r], outcome, told)
<1>1. IsCall(call[r]) /\ call[r].query \in Queries[r]
  BY CallType DEF CallOK
<1>2. CallOK(r, f) /\ ~ Loads(f) /\ \A l : ~ Wants(f, l)
  BY <1>1, FinishedOK
<1>3. \A l : ~ Wants(call[r], l)
  BY DEF Wants
<1> HIDE DEF f
<1>4. Goto(r, f)
  BY DEF f
<1>5. QED
  BY <1>2, <1>3, <1>4, LocalStep DEF Goto

\* A call at work asks for something else, without having a load in flight.
LEMMA AskStep ==
  ASSUME IInv, NEW r \in Calls, Working(call[r]),
         NEW what, Suits(what, call[r].query.tool), what \notin {"labels", "menu", "where", "rows"},
         Loads(Asking(call[r], what)) <=> Loads(call[r]), call[r].phase # "waiting",
         Goto(r, Asking(call[r], what)), UNCHANGED <<ttl, queue, cache>>
  PROVE  IInv'
<1> DEFINE a == Asking(call[r], what)
<1>1. IsCall(call[r]) /\ call[r].query \in Queries[r] /\ Granted(call[r].query)
  BY CallType DEF CallOK, Working
<1>2. CallOK(r, a) /\ a.query = call[r].query /\ a.phase = "asked"
  BY <1>1, AskingOK, AskingCall
<1>3. Loads(a) <=> Loads(call[r])
  OBVIOUS
<1> HIDE DEF a
<1>4. \A l \in Locks : Wants(call[r], l) <=> Wants(a, l)
  BY <1>2, <1>3 DEF Wants
<1>5. Goto(r, a)
  BY DEF a
<1>6. QED
  BY <1>2, <1>3, <1>4, <1>5, LocalStep DEF Goto

\* A health check starts without being counted.
LEMMA CallHealthStep ==
  ASSUME IInv, NEW r \in Calls, NEW q \in Queries[r], CallHealth(r, q)
  PROVE  IInv'
<1> DEFINE c == [Idle EXCEPT !.query = q]
<1>1. IsCall(c) /\ c.query = q
  BY IdleCall
<1>2. call[r].phase = "idle" /\ q.tool = "health_check" /\ ttl' = ttl
  BY DEF CallHealth
<1>3. CASE Resolved(Policy[q.target])
  <2>1. LookUp(r, c)
    BY <1>3 DEF CallHealth
  <2> HIDE DEF c
  <2>2. Granted(c.query) /\ c.query.tool \in Cached /\ c.query \in Queries[r]
    BY <1>1, <1>2 DEF Granted, Cached
  <2>3. QED
    BY <1>1, <1>2, <2>1, <2>2, LookUpStep
<1>4. CASE ~ Resolved(Policy[q.target])
  <2> DEFINE f == Finished(c, "error", {})
  <2>1. Goto(r, f) /\ UNCHANGED <<ttl, queue, cache>>
    BY <1>4 DEF CallHealth
  <2> HIDE DEF c
  <2>2. CallOK(r, f) /\ ~ Loads(f) /\ \A l : ~ Wants(f, l)
    BY <1>1, FinishedOK
  <2>3. ~ Loads(call[r]) /\ \A l : ~ Wants(call[r], l)
    BY <1>2 DEF Loads, Wants
  <2> HIDE DEF f
  <2>4. QED
    BY <2>1, <2>2, <2>3, LocalStep DEF Goto
<1>5. QED
  BY <1>3, <1>4

\* The rate limit refuses.
LEMMA LimitedStep ==
  ASSUME IInv, NEW r \in Calls, Limited(r)
  PROVE  IInv'
<1>1. call[r].phase = "counting" /\ Goto(r, Finished(call[r], "error", {}))
      /\ UNCHANGED <<ttl, queue, cache>>
  BY DEF Limited
<1>2. ~ Loads(call[r])
  BY <1>1 DEF Loads
<1>3. QED
  BY <1>1, <1>2, FinishStep

\* A counted call asks, or looks its answer up.
LEMMA AdmittedStep ==
  ASSUME IInv, NEW r \in Calls, Admitted(r)
  PROVE  IInv'
<1> DEFINE c == call[r]
<1>1. c.phase = "counting" /\ ttl' = ttl /\ Working(c) /\ ~ Loads(c)
  BY DEF Admitted, Working, Loads
<1>2. IsCall(c) /\ c.query \in Queries[r] /\ Granted(c.query)
      /\ c.query.tool \in FormTool \cup SqlTool
  BY <1>1, CallType DEF CallOK
<1>3. CASE c.query.tool \in Cached
  <2>1. LookUp(r, c)
    BY <1>3 DEF Admitted
  <2>2. QED
    BY <1>1, <1>2, <1>3, <2>1, LookUpStep
<1>4. CASE c.query.tool \notin Cached
  <2> DEFINE what == CASE c.query.tool \in FormTool -> "entries"
                       [] c.query.tool = "list_objects" -> "objects"
                       [] OTHER -> "object"
  <2>1. Goto(r, Asking(c, what)) /\ UNCHANGED <<ttl, queue, cache>>
    BY <1>4 DEF Admitted
  <2>2. Suits(what, c.query.tool) /\ what \in {"entries", "objects", "object"}
    BY <1>2, <1>4 DEF Suits, FormTool, SqlTool, Cached, Metadata
  <2> HIDE DEF what
  <2>3. ~ Loads(Asking(c, what))
    <3>1. Asking(c, what).asking = what
      BY <1>2, AskingCall
    <3>2. QED
      BY <2>2, <3>1 DEF Loads
  <2>4. QED
    BY <1>1, <2>1, <2>2, <2>3, AskStep
<1>5. QED
  BY <1>3, <1>4

\* The head of a queue looks again, and loads if it still has to.
LEMMA WakeStep ==
  ASSUME IInv, NEW r \in Calls, Wake(r)
  PROVE  IInv'
<1> DEFINE c == call[r]
           q == c.query
           k == Key(q)
           l == LockOf(k)
<1>1. /\ c.phase = "waiting" /\ Head(queue[l]) = r /\ cache' = Looked(k, q) /\ ttl' = ttl
      /\ IF Hit(k, q)
         THEN /\ Goto(r, Using([c EXCEPT !.content = Found(k)]))
              /\ queue' = Leaving(r, l)
         ELSE Goto(r, Asking(c, Load(q))) /\ queue' = queue
  BY DEF Wake
<1>2. IsCall(c) /\ q \in Queries[r] /\ Granted(q) /\ q.tool \in Cached
  BY <1>1, CallType DEF CallOK, Working
<1>3. k \in Keys /\ l \in Locks
  BY <1>2, KeyType
<1>4. CacheShrinks
  BY <1>1, LookedShrinks
<1>5. CacheOK' /\ CachesBounded' /\ \A x : Valid(x)' => Valid(x)
  BY <1>1, <1>4, ShrunkCache DEF IInv
<1>6. \A m \in Locks : Wants(c, m) => m = l
  BY DEF Wants
<1>7. CASE Hit(k, q)
  <2> DEFINE u == Using([c EXCEPT !.content = Found(k)])
  <2>1. CallOK(r, u) /\ (\A m : ~ Wants(u, m)) /\ ~ Loads(u)
    BY <1>2, <1>7, UseFound
  <2> HIDE DEF u
  <2>2. call' = [call EXCEPT ![r] = u] /\ queue' = Leaving(r, l)
    BY <1>1, <1>7 DEF Goto, u
  <2>3. DOMAIN call' = Calls /\ \A x \in Calls : CallOK(x, call[x])'
    BY <1>1, <2>1, <2>2, CallsStep DEF IInv
  <2> HIDE DEF k, l, c, q
  <2>4. QueueOK'
    BY <1>1, <1>3, <1>6, <2>1, <2>2, QueueLeft DEF IInv, c
  <2>5. NoUselessLoad'
    BY <1>1, <1>5, <2>1, <2>2, UselessStep DEF IInv
  <2>6. QED
    BY <1>1, <1>5, <2>3, <2>4, <2>5 DEF IInv
<1>8. CASE ~ Hit(k, q)
  <2> DEFINE a == Asking(c, Load(q))
  <2>1. /\ IsCall(a) /\ a.phase = "asked" /\ a.query = q /\ a.asking = Load(q)
        /\ CallOK(r, a)
    BY <1>2, AskingCall, AskingOK, LoadSuits
  <2> HIDE DEF a
  <2>2. Loads(a)
    BY <1>2, <2>1, LoadSuits DEF Loads
  <2>3. \A m \in Locks : Wants(c, m) <=> Wants(a, m)
    BY <1>1, <2>1, <2>2 DEF Wants
  <2>4. \A m \in Locks : Wants(a, m) => Len(queue[m]) > 0 /\ queue[m][1] = r
    <3> SUFFICES ASSUME NEW m \in Locks, Wants(c, m)
                 PROVE  Len(queue[m]) > 0 /\ queue[m][1] = r
      BY <2>3
    <3>1. m = l /\ queue[m] \in Seq(Calls)
      BY <1>6 DEF IInv, QueueOK
    <3>2. PICK i \in 1..Len(queue[m]) : queue[m][i] = r
      BY DEF IInv, QueueOK
    <3>3. Len(queue[m]) > 0
      BY <3>1, <3>2
    <3>4. queue[m] # <<>> /\ Head(queue[m]) = queue[m][1]
      BY <3>1, <3>3
    <3>5. QED
      BY <1>1, <3>1, <3>3, <3>4
  <2>5. call' = [call EXCEPT ![r] = a] /\ queue' = queue
    BY <1>1, <1>8 DEF Goto, a
  <2>6. DOMAIN call' = Calls /\ \A x \in Calls : CallOK(x, call[x])'
    BY <1>1, <2>1, <2>5, CallsStep DEF IInv
  <2>7. QueueOK'
    BY <1>1, <2>3, <2>4, <2>5, QueueKept DEF IInv
  <2>8. Valid(Key(a.query)) => a.query.force
    BY <1>8, <2>1 DEF Hit
  <2> HIDE DEF k, l, c, q
  <2>9. NoUselessLoad'
    BY <1>1, <1>5, <2>5, <2>8, UselessStep DEF IInv
  <2>10. QED
    BY <1>1, <1>5, <2>6, <2>7, <2>9 DEF IInv
<1>9. QED
  BY <1>7, <1>8

\* The fields the bridge selects and sorts by are called what the request calls
\* them, and those are granted.
LEMMA SelectedPermitted ==
  ASSUME NEW q, Acceptable(q), NEW r \in Calls, q \in Queries[r],
         q.tool \in {"query_form", "get_entry"}, NEW fields,
         NEW s \in Selected(fields, Elements(q.fields) \cup Elements(q.sort)),
         NEW n \in s
  PROVE  FieldAccess(Policy[q.target], q.form, {n})
<1> DEFINE p == Policy[q.target]
           names == Elements(q.fields) \cup Elements(q.sort)
<1>1. PICK m \in names : Fold[n] = Fold[m]
  BY DEF Selected
<1>2. FieldAccess(p, q.form, {m})
  <2>1. CASE q.tool = "query_form"
    <3>1. FieldAccess(p, q.form, Elements(q.fields)) /\ FieldAccess(p, q.form, Elements(q.sort))
      BY <2>1, Scope DEF QueryPolicy
    <3>2. QED
      BY <3>1, PartIsPermitted
  <2>2. CASE q.tool = "get_entry"
    <3>1. FieldAccess(p, q.form, Elements(q.fields))
      BY <2>2, Scope
    <3>2. q.sort = <<>>
      BY <2>2, FormQueriesAssumption
    <3>3. m \in Elements(q.fields)
      BY <3>2 DEF Elements
    <3>4. QED
      BY <3>1, <3>3, PartIsPermitted
  <2>3. QED
    BY <2>1, <2>2
<1>3. QED
  BY <1>1, <1>2, SameName

\* So are the fields of a plain qualification: the gateway has found each of
\* them in its text.
LEMMA ParsedPermitted ==
  ASSUME NEW q, Acceptable(q), NEW r \in Calls, q \in Queries[r],
         q.tool = "query_form", Plain(q.where), NEW fields,
         NEW n \in Parsed(fields, q.where)
  PROVE  FieldAccess(Policy[q.target], q.form, {n})
<1> DEFINE p == Policy[q.target]
           refs == ReferencedFields(q.where)
           named == {m \in Names : <<m>> \in refs}
<1>1. q.where \in Seq(STRING) /\ ~ Escaped(q.where)
  BY FormQueriesAssumption DEF Plain
<1>2. refs # SyntaxError /\ FieldAccess(p, q.form, named)
  BY Scope DEF QueryPolicy
<1>3. Consulted(q.where) = Quoted(q.where)
  BY <1>1 DEF Consulted
<1>4. Quoted(q.where) \subseteq Elements(q.where)
  <2> SUFFICES ASSUME NEW m \in Quoted(q.where) PROVE m \in Elements(q.where)
    OBVIOUS
  <2>1. PICK i \in 1..Len(q.where) - 2 :
          SubSeq(q.where, i, i + 2) = <<FieldQuote, m, FieldQuote>>
    BY DEF Quoted
  <2> DEFINE part == SubSeq(q.where, i, i + 2)
  <2>2. part[2] = q.where[i + 1] /\ i + 1 \in DOMAIN q.where
    BY <1>1, <2>1
  <2>m. part[2] = m
    <3> DEFINE quoted == <<FieldQuote, m, FieldQuote>>
    <3>1. part = quoted
      BY <2>1
    <3>2. quoted[2] = m
      OBVIOUS
    <3> HIDE DEF part, quoted
    <3>3. QED
      BY <3>1, <3>2
  <2>3. q.where[i + 1] = m
    <3> HIDE DEF part
    <3> QED
      BY <2>2, <2>m
  <2>4. QED
    BY <2>2, <2>3 DEF Elements
<1>5. PICK m \in Quoted(q.where) : Fold[n] = Fold[m]
  <2>1. PICK i \in Ids : /\ n = fields[i]
                         /\ \/ Fold[n] \in Folded(Consulted(q.where))
                            \/ IdName[i] \in Consulted(q.where)
    BY DEF Parsed
  <2>2. IdName[i] \notin Consulted(q.where)
    BY <1>3, <1>4 DEF Plain
  <2>3. QED
    BY <1>3, <2>1, <2>2 DEF Folded
<1>6. m \in named
  <2>1. <<m>> \in refs
    BY <1>1, <1>2, <1>3, ConsultedIsReferenced
  <2>2. m \in Names
    BY DEF Quoted
  <2>3. QED
    BY <2>1, <2>2
<1> HIDE DEF named
<1>7. FieldAccess(p, q.form, {m})
  BY <1>2, <1>6, PartIsPermitted
<1>8. QED
  BY <1>5, <1>7, SameName

\* What is known of a call that AR was asked by.
LEMMA AnsweredCall ==
  ASSUME IInv, NEW r \in Calls, call[r].phase \in {"asked", "answered"}
  PROVE  LET c == call[r] IN
         /\ IsCall(c) /\ c.query \in Queries[r] /\ Granted(c.query)
         /\ Suits(c.asking, c.query.tool)
         /\ Carries(c)
         /\ c.phase = "answered" =>
              /\ c.content.lag \in 0..Timeout
              /\ c.content.lag <= Timeout + Allowance(c.query)
              /\ c.query.force => r \in c.content.for
              /\ Holds(c)
<1>1. CallOK(r, call[r])
  BY CallType
<1>2. Allowance(call[r].query) \in Nat /\ Timeout \in Nat
  BY AllowanceType, FormQueriesAssumption DEF IInv
<1>3. call[r].phase = "answered" => call[r].content.lag <= Timeout + Allowance(call[r].query)
  BY <1>1, <1>2 DEF CallOK
<1>4. QED
  BY <1>1, <1>3 DEF CallOK, Working

\* AR sees what is there: entries with the fields asked for, permitted objects.
LEMMA LookStep ==
  ASSUME IInv, NEW r \in Calls, Look(r)
  PROVE  IInv'
<1> DEFINE c == call[r]
<1>1. PICK d \in Seen(c) :
        /\ c.phase = "asked"
        /\ c.asking \in {"entries", "where"} => d = Gone
        /\ Goto(r, [c EXCEPT !.phase = "answered",
                             !.content = [data |-> d, lag |-> 0, for |-> Newsworthy]])
        /\ UNCHANGED <<ttl, queue, cache>>
  BY DEF Look
<1>2. /\ IsCall(c) /\ c.query \in Queries[r] /\ Granted(c.query)
      /\ Suits(c.asking, c.query.tool)
      /\ Carries(c)
  BY <1>1, AnsweredCall
<1> DEFINE content == [data |-> d, lag |-> 0, for |-> Newsworthy]
           a == [c EXCEPT !.phase = "answered", !.content = content]
<1>3. /\ DOMAIN content = {"data", "lag", "for"}
      /\ content.data = d /\ content.lag = 0 /\ content.for = Newsworthy
  OBVIOUS
<1> HIDE DEF content
<1>4. /\ IsCall(a) /\ a.phase = "answered" /\ a.query = c.query /\ a.asking = c.asking
      /\ a.content = content /\ a.seen = c.seen
  BY <1>2, <1>3 DEF IsCall
<1>5. Goto(r, a)
  BY <1>1 DEF content
<1> HIDE DEF a
<1>6. c.query.force => r \in Newsworthy
  BY <1>1 DEF Newsworthy
<1>7. Holds(a)
  <2>2. c.asking = "objects" => \A o \in d : Permitted(Policy[c.query.target], o)
    <3> SUFFICES ASSUME c.asking = "objects" PROVE \A o \in d : Permitted(Policy[c.query.target], o)
      OBVIOUS
    <3>1. d = {o \in world[c.query.target].tables : Permitted(Policy[c.query.target], o)}
      BY <1>1 DEF Seen
    <3>2. QED
      BY <3>1
  <2>3. c.asking = "columns" => \A o \in d : Permitted(Policy[c.query.target], o)
    <3> SUFFICES ASSUME c.asking = "columns" PROVE \A o \in d : Permitted(Policy[c.query.target], o)
      OBVIOUS
    <3>1. d = world[c.query.target].tables \cap {c.query.object}
      BY <1>1 DEF Seen
    <3>2. c.query.tool \in {"list_columns", "describe_object"} /\ c.query.tool # "health_check"
      BY <1>2 DEF Suits
    <3>3. Permitted(Policy[c.query.target], c.query.object)
      BY <1>2, <3>2, Scope DEF Granted
    <3>4. QED
      BY <3>1, <3>3
  <2>4. QED
    BY <1>3, <1>4, <2>2, <2>3 DEF Holds
<1>c. Carries(a)
  <2>1. c.asking \in {"where", "rows"} /\ d # Gone =>
          \A x \in d : MayTell(c.query, x)
    <3>1. c.asking = "where" => d = Gone
      BY <1>1
    <3>2. c.asking = "rows" /\ d # Gone => d = c.content.data
      BY <1>1 DEF Seen
    <3>3. QED
      BY <1>2, <3>1, <3>2 DEF Carries
  <2>2. a.phase # "asked"
    BY <1>4
  <2>3. QED
    BY <1>2, <1>3, <1>4, <2>1, <2>2 DEF Carries
<1>8. CallOK(r, a)
  <2>1. a.content.lag \in 0..Timeout
    BY <1>3, <1>4, FormQueriesAssumption
  <2>2. QED
    BY <1>2, <1>3, <1>4, <1>6, <1>7, <1>c, <2>1 DEF CallOK
<1>9. (Loads(a) <=> Loads(c)) /\ \A l \in Locks : Wants(c, l) <=> Wants(a, l)
  BY <1>1, <1>4 DEF Loads, Wants
<1>10. QED
  BY <1>1, <1>4, <1>5, <1>8, <1>9, LocalStep DEF Goto

\* The bridge goes on with fields the policy permits, whatever they are called
\* once their rows are read.
LEMMA GoOnStep ==
  ASSUME IInv, NEW r \in Calls, GoOn(r)
  PROVE  IInv'
<1> DEFINE c == call[r]
           q == c.query
<1>1. PICK d \in Seen(c) \ {Gone} :
        /\ c.phase = "asked" /\ Further(c) # "nothing"
        /\ Goto(r, [c EXCEPT !.asking = Further(c), !.content.data = d])
        /\ UNCHANGED <<ttl, queue, cache>>
  BY DEF GoOn
<1>2. /\ IsCall(c) /\ q \in Queries[r] /\ Granted(q)
      /\ Suits(c.asking, q.tool) /\ Carries(c)
  BY <1>1, AnsweredCall
<1> DEFINE a == [c EXCEPT !.asking = Further(c), !.content.data = d]
<1>3. /\ IsCall(a) /\ a.phase = "asked" /\ a.query = q /\ a.asking = Further(c)
      /\ a.content.data = d /\ a.seen = c.seen
  BY <1>1, <1>2 DEF IsCall
<1>4. Goto(r, a)
  BY <1>1
<1> HIDE DEF a
<1>5. c.asking \in {"entries", "where", "labels"} /\ Further(c) \in {"where", "rows", "menu"}
  BY <1>1 DEF Further
<1>6. Suits(a.asking, q.tool)
  BY <1>2, <1>3, <1>5 DEF Suits, Further
<1>7. a.asking \in {"where", "rows"} => \A x \in d : MayTell(q, x)
  <2>1. CASE c.asking = "entries"
    <3>1. PICK s \in Selected(world[q.target].forms[q.form],
                              Elements(q.fields) \cup Elements(q.sort)) :
            d = Told("field", s)
      BY <1>1, <2>1 DEF Seen
    <3>2. q.tool \in {"query_form", "get_entry"} /\ Acceptable(q)
      BY <1>2, <2>1 DEF Suits, Granted
    <3>3. \A n \in s : FieldAccess(Policy[q.target], q.form, {n})
      BY <1>2, <3>2, SelectedPermitted
    <3>4. ASSUME NEW x \in d PROVE MayTell(q, x)
      <4>1. PICK n \in s : x = <<"field", n>>
        BY <3>1 DEF Told
      <4>2. x[1] = "field" /\ x[2] = n
        BY <4>1
      <4>3. QED
        BY <3>3, <4>2 DEF MayTell
    <3>5. QED
      BY <3>4
  <2>2. CASE c.asking = "where"
    <3> DEFINE parsed == Parsed(world[q.target].forms[q.form], q.where)
    <3>1. d = c.content.data \cup Told("consulted", parsed) \/ d = Gone
      BY <1>1, <2>2 DEF Seen
    <3>2. q.tool = "query_form" /\ Acceptable(q)
      BY <1>2, <2>2 DEF Suits, Granted
    <3>3. ASSUME NEW x \in Told("consulted", parsed) PROVE MayTell(q, x)
      <4>1. PICK n \in parsed : x = <<"consulted", n>>
        BY DEF Told
      <4>2. Plain(q.where) => FieldAccess(Policy[q.target], q.form, {n})
        BY <1>2, <3>2, ParsedPermitted
      <4>3. x[1] = "consulted" /\ x[2] = n
        BY <4>1
      <4>4. QED
        BY <4>2, <4>3 DEF MayTell
    <3>4. c.content.data # Gone => \A x \in c.content.data : MayTell(q, x)
      BY <1>2, <2>2 DEF Carries
    <3>5. d # Gone /\ c.content.data # Gone
      BY <1>1, <1>2, <2>2 DEF Carries
    <3>6. QED
      BY <3>1, <3>3, <3>4, <3>5
  <2>3. CASE c.asking = "labels"
    BY <1>3, <2>3 DEF Further
  <2>4. QED
    BY <1>5, <2>1, <2>2, <2>3
<1>8. Carries(a)
  <2>1. a.asking = "menu" => c.asking = "labels"
    BY <1>3, <1>5 DEF Further
  <2>2. a.asking # "labels" /\ d # Gone
    BY <1>1, <1>3, <1>5
  <2>3. QED
    BY <1>2, <1>3, <1>7, <2>1, <2>2 DEF Carries
<1>9. CallOK(r, a)
  BY <1>2, <1>3, <1>6, <1>8 DEF CallOK
<1>10. ~ Loads(a) /\ ~ Loads(c) /\ \A l : ~ Wants(c, l) /\ ~ Wants(a, l)
  BY <1>1, <1>3, <1>5 DEF Loads, Wants
<1>11. QED
  BY <1>1, <1>3, <1>4, <1>9, <1>10, LocalStep DEF Goto

\* What was loaded is filtered, stored and used, and the lock released: whoever
\* else loads what is valid now would have to be at the head of the same queue.
LEMMA LoadedStep ==
  ASSUME IInv, NEW r \in Calls, Loaded(r)
  PROVE  IInv'
<1> DEFINE c == call[r]
           q == c.query
           k == Key(q)
           content == Kept(c)
           kept == [c EXCEPT !.content = content]
<1>1. /\ c.phase = "answered" /\ c.asking \in {"fields", "forms", "probe"}
      /\ Store(k, kept.content) /\ queue' = Leaving(r, LockOf(k))
      /\ call' = [call EXCEPT ![r] = Using(kept)] /\ ttl' = ttl
  BY DEF Loaded, Goto
<1>2. /\ IsCall(c) /\ q \in Queries[r] /\ Granted(q) /\ Suits(c.asking, q.tool)
      /\ c.content.lag \in 0..Timeout /\ c.content.lag <= Timeout + Allowance(q)
      /\ q.force => r \in c.content.for
  BY <1>1, AnsweredCall
<1>3. q.tool \in Cached /\ (q.tool \in Metadata <=> c.asking = "fields")
  <2>1. "list_forms" \notin Metadata /\ "health_check" \notin Metadata
    BY DEF Metadata
  <2>2. QED
    BY <1>1, <1>2, <2>1 DEF Suits, Cached
<1>4. /\ DOMAIN content = {"data", "lag", "for"} /\ content.lag = c.content.lag
      /\ content.for = c.content.for
      /\ c.asking = "fields" => \A i \in DOMAIN content.data :
                                  Visible(q.target, q.form, content.data[i])
  <2>1. CASE c.asking = "fields"
    <3> DEFINE data == VisibleFields(Policy[q.target], q.form, c.content.data)
    <3>1. content = [c.content EXCEPT !.data = data]
      BY <2>1 DEF Kept
    <3>2. \A i \in DOMAIN data : Visible(q.target, q.form, data[i])
      BY DEF VisibleFields, Visible
    <3> HIDE DEF data, content
    <3>3. QED
      BY <1>2, <3>1, <3>2 DEF IsCall
  <2>2. CASE c.asking # "fields"
    BY <1>2, <2>2 DEF Kept, IsCall
  <2>3. QED
    BY <2>1, <2>2
<1> HIDE DEF content
<1>5. IsCall(kept) /\ kept.query = q /\ kept.content = content
  BY <1>2, <1>4 DEF IsCall
<1> HIDE DEF kept
<1> DEFINE u == Using(kept)
<1>6. CallOK(r, u) /\ (\A l : ~ Wants(u, l)) /\ ~ Loads(u)
  BY <1>2, <1>3, <1>4, <1>5, UsingOK DEF IInv
<1>7. k \in Keys /\ LockOf(k) \in Locks
  BY <1>2, KeyType
<1>8. k[1] = "fields" => \A i \in DOMAIN content.data : Visible(k[2], k[3], content.data[i])
  <2>1. CASE q.tool \in Metadata
    <3>1. k = <<"fields", q.target, q.form>>
      BY <1>2, <2>1, KeyType
    <3>2. k[2] = q.target /\ k[3] = q.form
      BY <3>1
    <3>3. QED
      BY <1>3, <1>4, <2>1, <3>2
  <2>2. CASE q.tool \notin Metadata
    <3>1. k = <<"forms", q.target>> \/ k = <<"health", q.target>>
      BY <1>2, <2>2, KeyType
    <3>2. k[1] # "fields"
      BY <3>1
    <3>3. QED
      BY <3>2
  <2>3. QED
    BY <2>1, <2>2
<1> HIDE DEF u, k
<1>9. /\ CacheOK' /\ CachesBounded'
      /\ \A x : x # k /\ Valid(x)' => Valid(x)
      /\ Lifetime(k) = 0 => UNCHANGED cache
  BY <1>1, <1>2, <1>4, <1>5, <1>7, <1>8, StoredEntry DEF IInv
<1>10. call' = [call EXCEPT ![r] = u]
  BY <1>1 DEF u
<1>11. DOMAIN call' = Calls /\ \A x \in Calls : CallOK(x, call[x])'
  BY <1>1, <1>6, <1>10, CallsStep DEF IInv
<1>12. QueueOK'
  <2>1. \A l \in Locks : Wants(c, l) => l = LockOf(k)
    BY DEF Wants, k
  <2>2. QED
    BY <1>1, <1>6, <1>7, <1>10, <2>1, QueueLeft DEF IInv
<1>13. NoUselessLoad'
  <2> SUFFICES ASSUME NEW x \in Calls, Loads(call[x])', (Lifetime(Key(call[x].query)) > 0)',
                      Valid(Key(call[x].query))'
               PROVE  call'[x].query.force
    BY DEF NoUselessLoad
  <2>1. x # r
    BY <1>6, <1>10 DEF Loads, IInv
  <2>2. call'[x] = call[x]
    BY <1>10, <2>1 DEF IInv
  <2> DEFINE m == Key(call[x].query)
  <2>3. Loads(call[x]) /\ Lifetime(m) > 0
    BY <1>1, <2>2 DEF Loads, Lifetime
  <2>4. m # k
    <3> SUFFICES ASSUME m = k PROVE FALSE
      OBVIOUS
    <3>1. ~ Unlocked(k)
      BY <2>3, LifetimeType DEF Unlocked, IInv
    <3>2. Wants(call[x], LockOf(k)) /\ Loads(call[x])
      BY <2>3, <3>1 DEF Wants
    <3>3. Wants(c, LockOf(k)) /\ Loads(c)
      BY <1>1, <3>1 DEF Wants, Loads, k
    <3>4. queue[LockOf(k)][1] = x /\ queue[LockOf(k)][1] = r
      BY <1>7, <3>2, <3>3 DEF IInv, QueueOK
    <3>5. QED
      BY <2>1, <3>4
  <2>5. Valid(m)
    <3>1. Valid(m)'
      BY <2>2 DEF Valid, Lifetime
    <3>2. \A y : y # k /\ y \in DOMAIN cache' /\ cache'[y].age < Lifetime(y) => Valid(y)
      BY <1>1, <1>9 DEF Valid, Lifetime
    <3>3. m \in DOMAIN cache' /\ cache'[m].age < Lifetime(m)
      BY <1>1, <2>2 DEF Valid, Lifetime
    <3>4. QED
      BY <2>4, <3>2, <3>3
  <2>6. call[x].query.force
    BY <2>3, <2>5 DEF IInv, NoUselessLoad
  <2>7. QED
    BY <2>2, <2>6
<1>14. QED
  BY <1>1, <1>9, <1>11, <1>12, <1>13 DEF IInv

\* A form AR does not know: the load goes on, with the lock, to its hint.
LEMMA NotFoundStep ==
  ASSUME IInv, NEW r \in Calls, NotFound(r)
  PROVE  IInv'
<1> DEFINE c == call[r]
<1>1. /\ c.phase = "answered" /\ c.asking \in {"fields", "entries", "where", "rows"}
      /\ Goto(r, Asking(c, "hint")) /\ UNCHANGED <<ttl, queue, cache>>
  BY DEF NotFound
<1>2. IsCall(c) /\ Suits(c.asking, c.query.tool)
  BY <1>1, AnsweredCall
<1>3. c.query.tool \in Metadata <=> c.asking = "fields"
  BY <1>1, <1>2 DEF Suits, Metadata
<1>4. Suits("hint", c.query.tool)
  BY <1>1, <1>2 DEF Suits
<1>5. Asking(c, "hint").phase = "asked" /\ Asking(c, "hint").asking = "hint"
      /\ Asking(c, "hint").query = c.query
  BY <1>2, AskingCall
<1>6. Loads(Asking(c, "hint")) <=> Loads(c)
  BY <1>1, <1>3, <1>5 DEF Loads
<1>7. QED
  BY <1>1, <1>4, <1>6, AskStep DEF Working

\* A form is suggested only to those who may read forms, and only one the
\* policy lets them see.
LEMMA SuggestStep ==
  ASSUME IInv, NEW r \in Calls, Suggest(r)
  PROVE  IInv'
<1> DEFINE c == call[r]
           q == c.query
           told == Told("form", VisibleForms(Policy[q.target], c.content.data))
           f == Finished(c, "error", told)
<1>1. /\ c.phase = "answered" /\ c.asking = "hint"
      /\ call' = [call EXCEPT ![r] = f] /\ queue' = Leaving(r, LockOf(Key(q)))
      /\ ttl' = ttl /\ cache' = cache
  BY DEF Suggest, Goto
<1>2. IsCall(c) /\ q \in Queries[r] /\ Granted(q) /\ Suits(c.asking, q.tool)
  BY <1>1, AnsweredCall
<1>3. Policy[q.target].allow_form_reads
  <2>1. q.tool \in Metadata \cup {"query_form", "get_entry"}
    BY <1>1, <1>2 DEF Suits
  <2>2. Acceptable(q)
    BY <1>2, <2>1 DEF Granted, Metadata
  <2>3. FormAccess(Policy[q.target], q.form)
    BY <2>1, <2>2, Scope DEF QueryPolicy, FieldAccess
  <2>4. QED
    BY <2>3 DEF FormAccess
<1>4. \A x \in told : MayTell(q, x)
  BY <1>3, ShownForms
<1> HIDE DEF told
<1>5. CallOK(r, f) /\ ~ Loads(f) /\ \A l : ~ Wants(f, l)
  BY <1>2, <1>4, FinishedOK
<1> HIDE DEF f
<1>6. QED
  BY <1>1, <1>5, LeavingStep

\* A call outside of any queue ends with an error.
LEMMA ErrorStep ==
  ASSUME IInv, NEW r \in Calls, call[r].phase # "idle", call[r].phase # "waiting",
         ~ Loads(call[r]), Goto(r, Finished(call[r], "error", {})),
         UNCHANGED <<ttl, queue, cache>>
  PROVE  IInv'
<1> DEFINE f == Finished(call[r], "error", {})
<1>1. IsCall(call[r]) /\ call[r].query \in Queries[r]
  BY CallType DEF CallOK
<1>2. CallOK(r, f) /\ ~ Loads(f) /\ \A l : ~ Wants(f, l)
  BY <1>1, FinishedOK
<1>3. \A l : ~ Wants(call[r], l)
  BY DEF Wants
<1> HIDE DEF f
<1>4. Goto(r, f)
  BY DEF f
<1>5. QED
  BY <1>2, <1>3, <1>4, LocalStep DEF Goto

\* The labels are of the very field that was found visible.
LEMMA LabelStep ==
  ASSUME IInv, NEW r \in Calls, Label(r)
  PROVE  IInv'
<1> DEFINE c == call[r]
           q == c.query
<1>1. /\ c.phase = "answered" /\ c.asking \in {"labels", "menu"} /\ ~ Loads(c)
      /\ UNCHANGED <<ttl, queue, cache>>
  BY DEF Label, Loads
<1>2. /\ IsCall(c) /\ Granted(q) /\ Suits(c.asking, q.tool)
      /\ Visible(q.target, q.form, c.seen[2])
      /\ c.content.lag <= Timeout + Allowance(q) /\ (q.force => r \in c.content.for)
  BY <1>1, AnsweredCall DEF Carries
<1>3. CASE c.content.data # Gone /\ SameField(c.content.data, c.seen)
  <2> DEFINE told == Told("field", {c.content.data[2]})
  <2>1. Goto(r, Finished(c, "success", told))
    BY <1>3 DEF Label
  <2>2. q.tool = "inspect_field"
    BY <1>1, <1>2 DEF Suits
  <2>3. FormAccess(Policy[q.target], q.form)
    BY <1>2, <2>2, Scope DEF Granted, Metadata
  <2>4. FieldAccess(Policy[q.target], q.form, {c.content.data[2]})
    BY <1>2, <1>3, <2>3, VisibleIsPermitted DEF SameField
  <2>5. ASSUME NEW x \in told PROVE MayTell(q, x)
    <3>1. x[1] = "field" /\ x[2] = c.content.data[2]
      BY DEF Told
    <3>2. QED
      BY <2>4, <3>1 DEF MayTell
  <2> HIDE DEF told
  <2>6. QED
    BY <1>1, <1>2, <2>1, <2>5, FinishStep
<1>4. CASE ~ (c.content.data # Gone /\ SameField(c.content.data, c.seen))
  <2>1. Goto(r, Finished(c, "error", {}))
    BY <1>4 DEF Label
  <2>2. QED
    BY <1>1, <2>1, ErrorStep
<1>5. QED
  BY <1>3, <1>4

\* Entries tell of the fields the bridge had found when it asked for the rows.
LEMMA EntriesStep ==
  ASSUME IInv, NEW r \in Calls, Entries(r)
  PROVE  IInv'
<1> DEFINE c == call[r]
           q == c.query
<1>1. /\ c.phase = "answered" /\ c.asking = "rows" /\ ~ Loads(c)
      /\ c.content.data # Gone
      /\ Goto(r, Finished(c, "success", c.content.data)) /\ UNCHANGED <<ttl, queue, cache>>
  BY DEF Entries, Loads
<1>2. /\ Carries(c)
      /\ c.content.lag <= Timeout + Allowance(q) /\ (q.force => r \in c.content.for)
  BY <1>1, AnsweredCall
<1>3. \A x \in c.content.data : MayTell(q, x)
  BY <1>1, <1>2 DEF Carries
<1>4. QED
  BY <1>1, <1>2, <1>3, FinishStep

\* Objects are named to those who may use SQL, each of them permitted.
LEMMA ListedStep ==
  ASSUME IInv, NEW r \in Calls, Listed(r)
  PROVE  IInv'
<1> DEFINE c == call[r]
           q == c.query
           told == Told("object", c.content.data)
<1>1. /\ c.phase = "answered" /\ c.asking \in {"objects", "columns"} /\ ~ Loads(c)
      /\ Goto(r, Finished(c, "success", told)) /\ UNCHANGED <<ttl, queue, cache>>
  BY DEF Listed, Loads
<1>2. /\ Granted(q) /\ Suits(c.asking, q.tool) /\ Holds(c)
      /\ c.content.lag <= Timeout + Allowance(q) /\ (q.force => r \in c.content.for)
  BY <1>1, AnsweredCall
<1>3. q.tool \in {"list_objects", "list_columns", "describe_object"} /\ Acceptable(q)
  BY <1>1, <1>2 DEF Suits, Granted
<1>4. Policy[q.target].allow_sql
  BY <1>3, Scope
<1>5. ASSUME NEW x \in told PROVE MayTell(q, x)
  <2>1. PICK o \in c.content.data : x = <<"object", o>>
    BY DEF Told
  <2>2. Permitted(Policy[q.target], o)
    BY <1>1, <1>2 DEF Holds
  <2>3. x[1] = "object" /\ x[2] = o
    BY <2>1
  <2>4. QED
    BY <1>4, <2>2, <2>3 DEF MayTell
<1> HIDE DEF told
<1>6. QED
  BY <1>1, <1>2, <1>5, FinishStep

\* An object that is there is asked for its columns.
LEMMA ResolveStep ==
  ASSUME IInv, NEW r \in Calls, Resolve(r)
  PROVE  IInv'
<1> DEFINE c == call[r]
<1>1. c.phase = "answered" /\ c.asking = "object" /\ ~ Loads(c)
      /\ UNCHANGED <<ttl, queue, cache>>
  BY DEF Resolve, Loads
<1>2. IsCall(c) /\ Suits(c.asking, c.query.tool)
  BY <1>1, AnsweredCall
<1>3. CASE c.content.data = {}
  <2>1. Goto(r, Finished(c, "error", {}))
    BY <1>3 DEF Resolve
  <2>2. QED
    BY <1>1, <2>1, ErrorStep
<1>4. CASE c.content.data # {}
  <2>1. Goto(r, Asking(c, "columns"))
    BY <1>4 DEF Resolve
  <2>2. Suits("columns", c.query.tool)
    BY <1>1, <1>2 DEF Suits
  <2>3. Asking(c, "columns").asking = "columns"
    BY <1>2, AskingCall
  <2>4. ~ Loads(Asking(c, "columns"))
    BY <2>3 DEF Loads
  <2>5. QED
    BY <1>1, <2>1, <2>2, <2>4, AskStep DEF Working
<1>5. QED
  BY <1>3, <1>4

\* A call that fails or is cancelled gives up its place, wherever it is.
LEMMA EndedStep ==
  ASSUME IInv, NEW r \in Calls, call[r].phase # "idle",
         NEW outcome \in {"error", "cancelled"},
         Goto(r, Finished(call[r], outcome, {})),
         queue' = Leaving(r, LockOf(Key(call[r].query))), ttl' = ttl, cache' = cache
  PROVE  IInv'
<1> DEFINE f == Finished(call[r], outcome, {})
<1>1. IsCall(call[r]) /\ call[r].query \in Queries[r]
  BY CallType DEF CallOK
<1>2. CallOK(r, f) /\ ~ Loads(f) /\ \A l : ~ Wants(f, l)
  BY <1>1, FinishedOK
<1>3. call' = [call EXCEPT ![r] = f]
  BY DEF Goto
<1> HIDE DEF f
<1>4. QED
  BY <1>2, <1>3, LeavingStep

\* Nobody's place in a queue and no load depends on a step that only tells the
\* time or forgets a call that is over.
LEMMA QuietStep ==
  ASSUME IInv, UNCHANGED <<ttl, queue>>, DOMAIN call' = Calls,
         \A x \in Calls : CallOK(x, call[x])',
         \A x \in Calls : Loads(call[x])' <=> Loads(call[x]),
         \A x \in Calls : Loads(call[x]) => call'[x].query = call[x].query,
         \A x \in Calls, l \in Locks : Wants(call[x], l)' <=> Wants(call[x], l),
         CacheOK', CachesBounded', \A k : Valid(k)' => Valid(k)
  PROVE  IInv'
<1>1. QueueOK'
  BY DEF IInv, QueueOK
<1>2. NoUselessLoad'
  <2> SUFFICES ASSUME NEW x \in Calls, Loads(call[x])', (Lifetime(Key(call[x].query)) > 0)',
                      Valid(Key(call[x].query))'
               PROVE  call'[x].query.force
    BY DEF NoUselessLoad
  <2> DEFINE k == Key(call[x].query)
  <2>1. Loads(call[x]) /\ call'[x].query = call[x].query
    OBVIOUS
  <2>2. Lifetime(k) > 0
    BY <2>1 DEF Lifetime
  <2>3. Valid(k)
    <3>1. \A m : (m \in DOMAIN cache' /\ cache'[m].age < Lifetime(m)) => Valid(m)
      BY DEF Valid, Lifetime
    <3>2. k \in DOMAIN cache' /\ cache'[k].age < Lifetime(k)
      BY <2>1 DEF Valid, Lifetime
    <3>3. QED
      BY <3>1, <3>2
  <2>4. QED
    BY <2>1, <2>2, <2>3 DEF IInv, NoUselessLoad
<1>3. QED
  BY <1>1, <1>2 DEF IInv

\* A call is still what it was when only the age of its content has changed, or
\* another call has been forgotten.
Alike(c, d) ==
  /\ IsCall(d)
  /\ d.phase = c.phase /\ d.query = c.query /\ d.asking = c.asking /\ d.seen = c.seen
  /\ d.outcome = c.outcome /\ d.told = c.told /\ d.content.data = c.content.data

\* Such a call is as sound, wants what it wanted and loads what it loaded.
LEMMA AlikeOK ==
  ASSUME ttl' = ttl, NEW r \in Calls, NEW c, CallOK(r, c),
         NEW d, d = call'[r], Alike(c, d),
         r \in c.content.for => r \in d.content.for,
         c.phase = "answered" => d.content.lag \in 0..Timeout,
         c.phase = "done" => d.content.lag = c.content.lag
  PROVE  /\ CallOK(r, call[r])'
         /\ Loads(call[r])' <=> Loads(c)
         /\ \A l : Wants(call[r], l)' <=> Wants(c, l)
<1>1. CallOK(r, d)
  BY DEF CallOK, Alike, Working, Holds, Carries
<1>2. CallOK(r, call[r])'
  BY <1>1 DEF CallOK, Allowance, Lifetime
<1>3. (Loads(d) <=> Loads(c)) /\ \A l : Wants(d, l) <=> Wants(c, l)
  BY DEF Loads, Wants, Alike
<1>4. (Loads(call[r])' <=> Loads(d)) /\ \A l : Wants(call[r], l)' <=> Wants(d, l)
  BY DEF Loads, Wants, Unlocked, Lifetime
<1>5. QED
  BY <1>2, <1>3, <1>4

\* A call that is over is forgotten.
LEMMA LeaveStep ==
  ASSUME IInv, NEW r \in Calls, Leave(r)
  PROVE  IInv'
<1>1. /\ call[r].phase = "done" /\ UNCHANGED <<ttl, queue>>
      /\ call' = [x \in Calls |->
           IF x = r THEN Idle ELSE [call[x] EXCEPT !.content.for = @ \ {r}]]
      /\ cache' = [k \in DOMAIN cache |-> [cache[k] EXCEPT !.for = @ \ {r}]]
  BY DEF Leave
<1>2. DOMAIN call' = Calls
  BY <1>1
<1>3. ASSUME NEW x \in Calls
      PROVE  /\ CallOK(x, call[x])'
             /\ Loads(call[x])' <=> Loads(call[x])
             /\ \A l : Wants(call[x], l)' <=> Wants(call[x], l)
             /\ Loads(call[x]) => call'[x].query = call[x].query
  <2>1. CASE x = r
    <3>1. call'[x] = Idle
      BY <1>1, <2>1
    <3>2. IsCall(Idle) /\ Idle.phase = "idle"
      BY IdleCall
    <3>3. ~ Loads(call[x]) /\ \A l : ~ Wants(call[x], l)
      BY <1>1, <2>1 DEF Loads, Wants
    <3>4. CallOK(x, call[x])'
      BY <3>1, <3>2 DEF CallOK, Working
    <3>5. ~ Loads(call[x])' /\ \A l : ~ Wants(call[x], l)'
      BY <3>1, <3>2 DEF Loads, Wants
    <3>6. QED
      BY <3>3, <3>4, <3>5
  <2>2. CASE x # r
    <3> DEFINE c == call[x]
               d == [c EXCEPT !.content.for = @ \ {r}]
    <3>1. call'[x] = d
      BY <1>1, <2>2
    <3>2. CallOK(x, c) /\ IsCall(c)
      BY CallType
    <3>3. Alike(c, d) /\ d.content.lag = c.content.lag /\ d.content.for = c.content.for \ {r}
      BY <3>2 DEF Alike, IsCall
    <3> HIDE DEF d
    <3>4. c.phase = "answered" => d.content.lag \in 0..Timeout
      BY <3>2, <3>3 DEF CallOK
    <3>5. /\ CallOK(x, call[x])'
          /\ Loads(call[x])' <=> Loads(c)
          /\ \A l : Wants(call[x], l)' <=> Wants(c, l)
      BY <1>1, <2>2, <3>1, <3>2, <3>3, <3>4, AlikeOK
    <3>6. call'[x].query = c.query
      BY <3>1, <3>3 DEF Alike
    <3>7. QED
      BY <3>5, <3>6
  <2>3. QED
    BY <2>1, <2>2
<1>4. /\ DOMAIN cache' = DOMAIN cache
      /\ \A k \in DOMAIN cache :
           /\ DOMAIN cache'[k] = DOMAIN cache[k]
           /\ cache'[k].data = cache[k].data
           /\ cache'[k].lag = cache[k].lag /\ cache'[k].age = cache[k].age
  BY <1>1 DEF IInv, CacheOK
<1>5. CacheOK' /\ CachesBounded' /\ \A k : Valid(k)' => Valid(k)
  <2>1. CacheOK'
    BY <1>1, <1>4 DEF IInv, CacheOK, Lifetime
  <2>2. CachesBounded'
    BY <1>4 DEF IInv, CachesBounded
  <2>3. \A k : Valid(k)' => Valid(k)
    BY <1>1, <1>4 DEF Valid, Lifetime
  <2>4. QED
    BY <2>1, <2>2, <2>3
<1>6. QED
  BY <1>1, <1>2, <1>3, <1>5, QuietStep

\* Time passes: entries age up to their lifetime, answers up to the timeout.
LEMMA TickStep ==
  ASSUME IInv, Tick
  PROVE  IInv'
<1>1. /\ UNCHANGED <<ttl, queue>>
      /\ \A x \in Calls : call[x].phase = "answered" => call[x].content.lag < Timeout
      /\ call' = [x \in Calls |-> IF call[x].phase = "answered"
                                  THEN [call[x] EXCEPT !.content.lag = @ + 1]
                                  ELSE call[x]]
      /\ cache' = [k \in DOMAIN cache |->
           IF Valid(k) THEN [cache[k] EXCEPT !.age = @ + 1] ELSE cache[k]]
  BY DEF Tick
<1>2. DOMAIN call' = Calls /\ Timeout \in Nat /\ \A k : Lifetime(k) \in Nat
  BY <1>1, FormQueriesAssumption, LifetimeType DEF IInv
<1>3. ASSUME NEW x \in Calls
      PROVE  /\ CallOK(x, call[x])'
             /\ Loads(call[x])' <=> Loads(call[x])
             /\ \A l : Wants(call[x], l)' <=> Wants(call[x], l)
             /\ Loads(call[x]) => call'[x].query = call[x].query
  <2> DEFINE c == call[x]
             later == [c EXCEPT !.content.lag = @ + 1]
             d == IF c.phase = "answered" THEN later ELSE c
  <2>1. call'[x] = d
    BY <1>1
  <2>2. CallOK(x, c) /\ IsCall(c)
    BY CallType
  <2>3. c.phase = "answered" => c.content.lag \in 0..Timeout /\ c.content.lag < Timeout
    BY <1>1, <2>2 DEF CallOK
  <2>4. Alike(c, later) /\ later.content.lag = c.content.lag + 1
        /\ later.content.for = c.content.for
    BY <2>2 DEF Alike, IsCall
  <2>5. Alike(c, c)
    BY <2>2 DEF Alike
  <2> HIDE DEF later
  <2>6. Alike(c, d) /\ d.content.for = c.content.for
        /\ (c.phase = "answered" => d.content.lag = c.content.lag + 1)
        /\ (c.phase = "done" => d.content.lag = c.content.lag)
    BY <2>4, <2>5
  <2> HIDE DEF d
  <2>7. c.phase = "answered" => d.content.lag \in 0..Timeout
    BY <1>2, <2>3, <2>6
  <2>8. /\ CallOK(x, call[x])'
        /\ Loads(call[x])' <=> Loads(c)
        /\ \A l : Wants(call[x], l)' <=> Wants(c, l)
    BY <1>1, <2>1, <2>2, <2>6, <2>7, AlikeOK
  <2>9. call'[x].query = c.query
    BY <2>1, <2>6 DEF Alike
  <2>10. QED
    BY <2>8, <2>9
<1>4. /\ DOMAIN cache' = DOMAIN cache
      /\ \A k \in DOMAIN cache :
           /\ DOMAIN cache'[k] = DOMAIN cache[k]
           /\ cache'[k].data = cache[k].data /\ cache'[k].lag = cache[k].lag
           /\ Valid(k) => cache'[k].age = cache[k].age + 1
           /\ ~ Valid(k) => cache'[k].age = cache[k].age
  <2>1. \A k \in DOMAIN cache : DOMAIN cache[k] = {"data", "lag", "for", "age"}
    BY DEF IInv, CacheOK
  <2> HIDE DEF Valid
  <2>2. QED
    BY <1>1, <2>1
<1>5. \A k \in DOMAIN cache :
        cache[k].age \in 0..Lifetime(k) /\ (Valid(k) <=> cache[k].age < Lifetime(k))
  BY DEF IInv, CacheOK, Valid
<1>6. \A k \in DOMAIN cache : cache'[k].age \in 0..Lifetime(k) /\ cache'[k].age >= cache[k].age
  BY <1>2, <1>4, <1>5
<1>7. CacheOK' /\ CachesBounded' /\ \A k : Valid(k)' => Valid(k)
  <2>1. CacheOK'
    BY <1>1, <1>4, <1>6 DEF IInv, CacheOK, Lifetime
  <2>2. CachesBounded'
    BY <1>4 DEF IInv, CachesBounded
  <2>3. ASSUME NEW k, Valid(k)' PROVE Valid(k)
    <3>1. k \in DOMAIN cache /\ cache'[k].age < Lifetime(k)
      BY <1>1, <1>4, <2>3 DEF Valid, Lifetime
    <3>2. cache[k].age < Lifetime(k)
      BY <1>2, <1>5, <1>6, <3>1
    <3>3. QED
      BY <3>1, <3>2 DEF Valid
  <2>4. QED
    BY <2>1, <2>2, <2>3
<1>8. QED
  BY <1>1, <1>2, <1>3, <1>7, QuietStep

\* What an administrator changes is not in any call or cache yet.
LEMMA UnchangedStep ==
  ASSUME IInv, UNCHANGED <<ttl, call, queue, cache>>
  PROVE  IInv'
<1>1. UNCHANGED <<ttl, queue>> /\ DOMAIN call' = Calls /\ call' = call /\ cache' = cache
  BY DEF IInv
<1>2. \A x \in Calls : CallOK(x, call[x])'
  BY <1>1 DEF IInv, CallOK, Allowance, Lifetime
<1>3. CacheShrinks
  BY <1>1 DEF CacheShrinks
<1>4. CacheOK' /\ CachesBounded' /\ \A k : Valid(k)' => Valid(k)
  BY <1>1, <1>3, ShrunkCache DEF IInv
<1>5. /\ \A x \in Calls : Loads(call[x])' <=> Loads(call[x])
      /\ \A x \in Calls, l \in Locks : Wants(call[x], l)' <=> Wants(call[x], l)
  BY <1>1 DEF Loads, Wants, Unlocked, Lifetime
<1>6. QED
  BY <1>1, <1>2, <1>4, <1>5, QuietStep

(***************************************************************************)
(* The theorems                                                            *)
(***************************************************************************)

\* Before the first call nobody waits and nothing is cached.
LEMMA Initially ==
  ASSUME Init
  PROVE  IInv
<1>1. /\ ttl \in Settings /\ call = [r \in Calls |-> Idle]
      /\ queue = [l \in Locks |-> <<>>] /\ cache = <<>>
  BY DEF Init
<1>2. IsCall(Idle) /\ Idle.phase = "idle"
  BY IdleCall
<1>3. DOMAIN call = Calls /\ \A r \in Calls : CallOK(r, call[r])
  BY <1>1, <1>2 DEF CallOK, Working
<1>4. \A r \in Calls : ~ Loads(call[r]) /\ \A l : ~ Wants(call[r], l)
  BY <1>1, <1>2 DEF Loads, Wants
<1>5. QueueOK
  BY <1>1, <1>4 DEF QueueOK
<1>6. DOMAIN cache = {}
  BY <1>1
<1>7. CachesBounded
  <2>1. ASSUME NEW kind \in {"fields", "forms"}
        PROVE  Cardinality({k \in DOMAIN cache : k[1] = kind}) <= MaxEntries
    <3>1. {k \in DOMAIN cache : k[1] = kind} = {}
      BY <1>6
    <3>2. Cardinality({k \in DOMAIN cache : k[1] = kind}) = 0
      BY <3>1, FS_EmptySet
    <3>3. QED
      BY <3>2, FormQueriesAssumption
  <2>2. QED
    BY <1>6, <2>1, FS_EmptySet DEF CachesBounded
<1>8. QED
  BY <1>1, <1>3, <1>4, <1>5, <1>6, <1>7 DEF IInv, CacheOK, NoUselessLoad

\* No step of a call, of an administrator or of the clock breaks the invariant.
LEMMA Inductive ==
  ASSUME IInv, [Next]_vars
  PROVE  IInv'
<1>1. ASSUME NEW r \in Calls, NEW q \in Queries[r], CallForms(r, q)
      PROVE  IInv'
  BY <1>1, BegunStep DEF CallForms
<1>2. ASSUME NEW r \in Calls, NEW q \in Queries[r], CallSql(r, q)
      PROVE  IInv'
  BY <1>2, BegunStep DEF CallSql
<1>3. ASSUME NEW r \in Calls, NEW q \in Queries[r], CallHealth(r, q)
      PROVE  IInv'
  BY <1>3, CallHealthStep
<1>4. ASSUME NEW r \in Calls, Step(r)
      PROVE  IInv'
  <2>1. CASE Limited(r)
    BY <2>1, LimitedStep
  <2>2. CASE Admitted(r)
    BY <2>2, AdmittedStep
  <2>3. CASE Wake(r)
    BY <2>3, WakeStep
  <2>4. CASE Look(r)
    BY <2>4, LookStep
  <2>14. CASE GoOn(r)
    BY <2>14, GoOnStep
  <2>5. CASE Loaded(r)
    BY <2>5, LoadedStep
  <2>6. CASE NotFound(r)
    BY <2>6, NotFoundStep
  <2>7. CASE Suggest(r)
    BY <2>7, SuggestStep
  <2>8. CASE Label(r)
    BY <2>8, LabelStep
  <2>9. CASE Entries(r)
    BY <2>9, EntriesStep
  <2>10. CASE Listed(r)
    BY <2>10, ListedStep
  <2>11. CASE Resolve(r)
    BY <2>11, ResolveStep
  <2>12. CASE Fail(r)
    <3>1. /\ call[r].phase # "idle" /\ "error" \in {"error", "cancelled"}
          /\ Goto(r, Finished(call[r], "error", {}))
          /\ queue' = Leaving(r, LockOf(Key(call[r].query)))
          /\ ttl' = ttl /\ cache' = cache
      BY <2>12 DEF Fail
    <3>2. QED
      BY <3>1, EndedStep
  <2>13. QED
    BY <1>4, <2>1, <2>2, <2>3, <2>4, <2>5, <2>6, <2>7, <2>8, <2>9, <2>10,
       <2>11, <2>12, <2>14 DEF Step
<1>5. ASSUME NEW r \in Calls, Cancel(r)
      PROVE  IInv'
  <2>1. /\ call[r].phase # "idle" /\ "cancelled" \in {"error", "cancelled"}
        /\ Goto(r, Finished(call[r], "cancelled", {}))
        /\ queue' = Leaving(r, LockOf(Key(call[r].query)))
        /\ ttl' = ttl /\ cache' = cache
    BY <1>5 DEF Cancel
  <2>2. QED
    BY <2>1, EndedStep
<1>6. ASSUME NEW r \in Calls, Leave(r)
      PROVE  IInv'
  BY <1>6, LeaveStep
<1>7. ASSUME NEW t \in Targets, Administrate(t)
      PROVE  IInv'
  BY <1>7, UnchangedStep DEF Administrate
<1>8. CASE Tick
  BY <1>8, TickStep
<1>9. CASE UNCHANGED vars
  BY <1>9, UnchangedStep DEF vars
<1>10. QED
  BY <1>1, <1>2, <1>3, <1>4, <1>5, <1>6, <1>7, <1>8, <1>9 DEF Next

\* The invariant holds in every state of every behaviour.
THEOREM Invariance == FairSpec => []IInv
<1>1. Init => IInv
  BY Initially
<1>2. IInv /\ [Next]_vars => IInv'
  BY Inductive
<1>3. QED
  BY <1>1, <1>2, PTL DEF FairSpec

\* Whatever is cached, renamed, suggested or hidden in the quoting of a
\* qualification, answers and errors depend on and name only what the policy of
\* the target permits, fields by the names they had when the bridge took those
\* for IDs: for any number of calls, targets, forms and fields, and any
\* qualification a client may send that has no backslash and no field's ID.
THEOREM PolicyKept == FairSpec => []TellsOnlyPermitted
<1>1. IInv => TellsOnlyPermitted
  <2> SUFFICES ASSUME IInv, NEW r \in Calls, call[r].phase = "done",
                      NEW x \in call[r].told
               PROVE  LET q == call[r].query
                          p == Policy[q.target]
                      IN  CASE x[1] = "field" -> FieldAccess(p, q.form, {x[2]})
                            [] x[1] = "consulted" ->
                                 Plain(q.where) => FieldAccess(p, q.form, {x[2]})
                            [] x[1] = "form" ->
                                 p.allow_form_reads /\ x[2] \in VisibleForms(p, {x[2]})
                            [] x[1] = "object" -> p.allow_sql /\ Permitted(p, x[2])
    BY DEF TellsOnlyPermitted
  <2>1. MayTell(call[r].query, x)
    BY DEF IInv, CallOK
  <2> HIDE DEF FieldAccess, VisibleForms, Permitted, Plain
  <2>2. QED
    BY <2>1 DEF MayTell
<1>2. QED
  BY <1>1, Invariance, PTL

\* An answer is never older than the lifetime of its cache allows, and a forced
\* health check answers what was so while it ran, however long either waited.
THEOREM Recency == FairSpec => []AnswerIsRecent
<1>1. IInv => AnswerIsRecent
  BY DEF IInv, CallOK, AnswerIsRecent, Answered
<1>2. QED
  BY <1>1, Invariance, PTL

\* With a lifetime configured nobody loads beside another, or what the cache
\* holds, and the caches stay within their bound.
THEOREM Sharing == FairSpec => []LoadsAreShared
<1>1. ASSUME IInv PROVE LoadsAreShared
  <2>1. \A r \in Calls : Loading(r) <=> Loads(call[r])
    BY DEF Loading, Loads
  <2>2. ASSUME NEW r \in Calls, Loading(r), Lifetime(Key(call[r].query)) > 0
        PROVE  /\ Valid(Key(call[r].query)) => call[r].query.force
               /\ \A other \in Calls \ {r} : Loading(other) =>
                    LockOf(Key(call[other].query)) # LockOf(Key(call[r].query))
    <3> DEFINE k == Key(call[r].query)
    <3>1. Loads(call[r])
      BY <2>1, <2>2
    <3>2. Valid(k) => call[r].query.force
      BY <1>1, <2>2, <3>1 DEF IInv, NoUselessLoad
    <3>3. ASSUME NEW other \in Calls \ {r}, Loading(other),
                 LockOf(Key(call[other].query)) = LockOf(k)
          PROVE  FALSE
      <4> DEFINE m == Key(call[other].query)
      <4>1. Loads(call[other])
        BY <2>1, <3>3
      <4>2. call[r].query \in Queries[r] /\ call[other].query \in Queries[other]
        BY <1>1, <3>1, <4>1 DEF IInv, CallOK, Loads
      <4>3. k \in Keys /\ m \in Keys /\ LockOf(k) \in Locks
        BY <4>2, KeyType
      <4> HIDE DEF k, m
      <4>4. k[1] = m[1] /\ (k[1] = "health" => k = m)
        BY <3>3, <4>3, SameLock DEF m
      <4>5. Lifetime(m) = Lifetime(k)
        BY <4>4 DEF Lifetime
      <4>6. ~ Unlocked(k) /\ ~ Unlocked(m)
        BY <2>2, <4>5 DEF Unlocked, k
      <4>7. Wants(call[r], LockOf(k)) /\ Wants(call[other], LockOf(k))
        BY <3>1, <3>3, <4>1, <4>6 DEF Wants, k, m
      <4>8. queue[LockOf(k)][1] = r /\ queue[LockOf(k)][1] = other
        BY <1>1, <3>1, <4>1, <4>3, <4>7 DEF IInv, QueueOK
      <4>9. QED
        BY <4>8
    <3>4. QED
      BY <3>2, <3>3
  <2>3. \A kind \in {"fields", "forms"} :
          Cardinality({k \in DOMAIN cache : k[1] = kind}) <= MaxEntries
    BY <1>1 DEF IInv, CachesBounded
  <2>4. QED
    BY <2>2, <2>3 DEF LoadsAreShared
<1>2. QED
  BY <1>1, Invariance, PTL
================================================================================
