--------------------------- MODULE RateLimitProofs ---------------------------
(***************************************************************************)
(* Proofs about RateLimit, for any requests, counters, limits and delays.  *)
(***************************************************************************)
EXTENDS RateLimit, FiniteSetTheorems, TLAPS

\* Cardinality is monotone on sets of requests.
LEMMA SmallerSet ==
  ASSUME NEW S, NEW T, S \subseteq T, T \subseteq Request
  PROVE  /\ Cardinality(S) \in Nat
         /\ Cardinality(T) \in Nat
         /\ Cardinality(S) <= Cardinality(T)
<1>1. IsFiniteSet(T)
  BY RateLimitAssumption, FS_Subset
<1>2. QED
  BY <1>1, FS_Subset, FS_CardinalityType

\* One more request adds at most one.
LEMMA OneMore ==
  ASSUME NEW S, NEW T, NEW r, S \subseteq T \cup {r}, T \cup {r} \subseteq Request
  PROVE  Cardinality(S) <= Cardinality(T) + 1
<1>1. IsFiniteSet(T)
  BY RateLimitAssumption, FS_Subset
<1>2. Cardinality(T \cup {r}) <= Cardinality(T) + 1
  <2>1. Cardinality(T) \in Nat
    BY <1>1, FS_CardinalityType
  <2>2. Cardinality(T \cup {r}) = IF r \in T THEN Cardinality(T) ELSE Cardinality(T) + 1
    BY <1>1, FS_AddElement
  <2>3. QED
    BY <2>1, <2>2
<1>3. Cardinality(S) <= Cardinality(T \cup {r})
      /\ Cardinality(S) \in Nat /\ Cardinality(T \cup {r}) \in Nat
  BY SmallerSet
<1>4. Cardinality(T) \in Nat
  BY <1>1, FS_CardinalityType
<1>5. QED
  BY <1>2, <1>3, <1>4

LEMMA LimitIsNatural ==
  ASSUME NEW r \in Request
  PROVE  KeyOf[r] \in Key /\ Limit[KeyOf[r]] \in Nat /\ Limit[KeyOf[r]] > 0
  BY RateLimitAssumption

\* The initial state satisfies the inductive invariant.
LEMMA InitInvariant == Init => IInv
  BY RateLimitAssumption
  DEF Init, IInv, TypeOK, TimesAreRecent, DeletedIsOld, LimitHolds, Pending,
      Decided

\* What a transaction deletes is out of its window, and its time has come.
LEMMA TransactKeepsOld ==
  ASSUME IInv, NEW r \in Request, Transact(r)
  PROVE  TypeOK' /\ TimesAreRecent' /\ DeletedIsOld'
<1> USE RateLimitAssumption
    DEF IInv, TypeOK, TimesAreRecent, DeletedIsOld, Pending, Decided
<1>1. CASE Cardinality(SameKey(r, Kept(r))) >= Limit[KeyOf[r]]
  <2>1. /\ rows' = Kept(r)
        /\ pc' = [pc EXCEPT ![r] = IF @ = "timed" THEN "limited" ELSE "cancelled"]
        /\ UNCHANGED <<recorded, clock, now>>
    BY <1>1 DEF Transact, Decide
  <2>2. QED
    BY <2>1 DEF Transact, Decide, Kept
<1>2. CASE ~ (Cardinality(SameKey(r, Kept(r))) >= Limit[KeyOf[r]])
  <2>1. /\ rows' = Kept(r) \cup {r}
        /\ pc' = [pc EXCEPT ![r] = IF @ = "timed" THEN "allowed" ELSE "cancelled"]
        /\ recorded' = recorded \cup {r}
        /\ UNCHANGED <<clock, now>>
    BY <1>2 DEF Transact, Decide
  <2>2. QED
    BY <2>1 DEF Transact, Decide, Kept
<1>3. QED
  BY <1>1, <1>2

\* A new event fits: whatever counts for a window that it falls in, and was
\* recorded before, is still among the rows that its transaction counted.
LEMMA TransactKeepsLimit ==
  ASSUME IInv, NEW r \in Request, Transact(r)
  PROVE  LimitHolds'
<1> DEFINE Span == Window - MaxDelay
<1> USE RateLimitAssumption DEF IInv, TypeOK
<1>1. CASE Cardinality(SameKey(r, Kept(r))) >= Limit[KeyOf[r]]
  <2>1. UNCHANGED <<recorded, now>>
    BY <1>1 DEF Transact, Decide
  <2>2. QED
    BY <2>1 DEF LimitHolds, Before, SameKey
<1>2. CASE ~ (Cardinality(SameKey(r, Kept(r))) >= Limit[KeyOf[r]])
  <2>1. recorded' = recorded \cup {r} /\ now' = now /\ pc[r] \in Pending
    BY <1>2 DEF Transact, Decide
  <2>2. Cardinality(SameKey(r, Kept(r))) < Limit[KeyOf[r]]
        /\ Cardinality(SameKey(r, Kept(r))) \in Nat
    <3>1. SameKey(r, Kept(r)) \subseteq Request
      BY DEF SameKey, Kept
    <3>2. QED
      BY <1>2, <3>1, SmallerSet, LimitIsNatural
  <2>3. SUFFICES ASSUME NEW w \in recorded'
                 PROVE  Cardinality(Before(w, Span)') <= Limit[KeyOf[w]]
    BY DEF LimitHolds, Before, SameKey
  <2>4. w \in Request
    BY <2>1
  <2>5. CASE r \in Before(w, Span)'
    <3>1. KeyOf[w] = KeyOf[r] /\ now[r] <= now[w]
      BY <2>1, <2>5 DEF Before, SameKey
    <3>2. ASSUME NEW x \in Before(w, Span)', x # r
          PROVE  x \in SameKey(r, Kept(r))
      <4>1. x \in recorded /\ KeyOf[x] = KeyOf[r] /\ now[w] < now[x] + Span
        BY <2>1, <3>1, <3>2 DEF Before, SameKey
      <4>2. now[r] < now[x] + Window - MaxDelay
        BY <3>1, <4>1, <2>4
      <4>3. clock <= now[r] + MaxDelay /\ now[r] \in Nat /\ now[x] \in Nat
            /\ clock \in Nat
        BY <2>1, <4>1 DEF TimesAreRecent
      <4>4. now[x] + Window > clock /\ now[x] + Window > now[r]
        BY <4>2, <4>3
      <4>5. x \in rows
        BY <4>1, <4>3, <4>4 DEF DeletedIsOld
      <4>6. QED
        BY <4>1, <4>4, <4>5 DEF SameKey, Kept
    <3>3. Before(w, Span)' \subseteq SameKey(r, Kept(r)) \cup {r}
      BY <3>2
    <3>4. SameKey(r, Kept(r)) \cup {r} \subseteq Request
      BY DEF SameKey, Kept
    <3>5. Cardinality(Before(w, Span)') <= Cardinality(SameKey(r, Kept(r))) + 1
          /\ Cardinality(Before(w, Span)') \in Nat
      BY <3>3, <3>4, OneMore, SmallerSet
    <3>6. QED
      BY <2>2, <3>1, <3>5, LimitIsNatural
  <2>6. CASE r \notin Before(w, Span)'
    <3>1. w # r
      BY <2>1, <2>6 DEF Before, SameKey
    <3>2. w \in recorded /\ Before(w, Span)' = Before(w, Span)
      BY <2>1, <2>6, <3>1 DEF Before, SameKey
    <3>3. QED
      BY <3>2 DEF LimitHolds
  <2>7. QED
    BY <2>5, <2>6
<1>3. QED
  BY <1>1, <1>2

\* Every step preserves the inductive invariant.
LEMMA StepInvariant == IInv /\ [Next]_vars => IInv'
<1> SUFFICES ASSUME IInv, [Next]_vars PROVE IInv'
  OBVIOUS
<1>1. ASSUME NEW r \in Request, ReadTime(r) PROVE IInv'
  <2>1. TypeOK' /\ TimesAreRecent' /\ DeletedIsOld'
    BY <1>1, RateLimitAssumption
    DEF ReadTime, IInv, TypeOK, TimesAreRecent, DeletedIsOld, Pending, Decided
  <2>2. \A x \in recorded : now'[x] = now[x]
    BY <1>1 DEF ReadTime, IInv, TypeOK, TimesAreRecent
  <2>3. \A w \in recorded :
          Before(w, Window - MaxDelay)' = Before(w, Window - MaxDelay)
    BY <1>1, <2>2 DEF ReadTime, Before, SameKey
  <2>4. LimitHolds'
    BY <1>1, <2>3 DEF ReadTime, IInv, LimitHolds
  <2>5. QED
    BY <2>1, <2>4 DEF IInv
<1>2. ASSUME NEW r \in Request, Transact(r) PROVE IInv'
  BY <1>2, TransactKeepsOld, TransactKeepsLimit DEF IInv
<1>3. ASSUME UNCHANGED <<now, rows, recorded>>, TypeOK', TimesAreRecent',
             clock' >= clock
      PROVE  IInv'
  <2>1. DeletedIsOld'
    BY <1>3, RateLimitAssumption DEF IInv, TypeOK, DeletedIsOld
  <2>2. LimitHolds'
    BY <1>3 DEF IInv, LimitHolds, Before, SameKey
  <2>3. QED
    BY <1>3, <2>1, <2>2 DEF IInv
<1>4. ASSUME NEW r \in Request,
             FailTransaction(r) \/ CancelRequest(r) \/ Lose(r)
      PROVE  IInv'
  <2>1. UNCHANGED <<clock, now, rows, recorded>> /\ TypeOK' /\ TimesAreRecent'
    BY <1>4 DEF FailTransaction, CancelRequest, Lose, IInv, TypeOK,
       TimesAreRecent, Pending, Decided
  <2>2. clock' >= clock
    BY <2>1 DEF IInv, TypeOK
  <2>3. QED
    BY <1>3, <2>1, <2>2
<1>5. CASE Tick
  <2>1. UNCHANGED <<now, rows, recorded>> /\ TypeOK' /\ TimesAreRecent'
        /\ clock' >= clock
    BY <1>5, RateLimitAssumption DEF Tick, IInv, TypeOK, TimesAreRecent
  <2>2. QED
    BY <1>3, <2>1
<1>6. CASE UNCHANGED vars
  BY <1>3, <1>6 DEF vars, IInv, TypeOK, TimesAreRecent
<1>7. QED
  BY <1>1, <1>2, <1>4, <1>5, <1>6 DEF Next

\* The inductive invariant holds throughout every behaviour.
THEOREM RateLimitInvariance == Spec => []IInv
  BY InitInvariant, StepInvariant, PTL DEF Spec

\* Windows shorter than a minute by the longest delay stay within the limit.
THEOREM LimitIsKept == Spec => []LimitHolds
<1>1. IInv => LimitHolds
  BY DEF IInv
<1>2. QED
  BY <1>1, RateLimitInvariance, PTL

\* If no time passes between reading the clock and the transaction, as in the
\* memory of one process, whole minutes stay within the limit.
THEOREM MinuteIsKept ==
  ASSUME MaxDelay = 0
  PROVE  Spec => []MinuteHolds
<1>1. LimitHolds => MinuteHolds
  BY RateLimitAssumption DEF LimitHolds, MinuteHolds
<1>2. QED
  BY <1>1, LimitIsKept, PTL

\* Nobody is turned down while the budget of the window is not used up.
THEOREM RefusalsAreJustified == Spec => RefusedOnlyWhenFull
<1>1. IInv /\ [Next]_vars =>
        \A r \in Request : pc[r] = "timed" /\ pc'[r] = "limited" =>
          Cardinality({x \in SameKey(r, recorded) : now[x] + Window > now[r]})
            >= Limit[KeyOf[r]]
  <2> SUFFICES ASSUME IInv, [Next]_vars, NEW r \in Request,
                      pc[r] = "timed", pc'[r] = "limited"
               PROVE  Cardinality({x \in SameKey(r, recorded) :
                        now[x] + Window > now[r]}) >= Limit[KeyOf[r]]
    OBVIOUS
  <2> DEFINE Full == {x \in SameKey(r, recorded) : now[x] + Window > now[r]}
  <2>1. Transact(r)
    BY DEF IInv, TypeOK, Next, vars, ReadTime, Transact, Decide, FailTransaction,
       CancelRequest, Lose, Tick
  <2>2. Cardinality(SameKey(r, Kept(r))) >= Limit[KeyOf[r]]
    BY <2>1 DEF Transact, Decide, IInv, TypeOK
  <2>3. SameKey(r, Kept(r)) \subseteq Full /\ Full \subseteq Request
    BY DEF IInv, TypeOK, SameKey, Kept
  <2>4. Cardinality(SameKey(r, Kept(r))) <= Cardinality(Full)
        /\ Cardinality(SameKey(r, Kept(r))) \in Nat /\ Cardinality(Full) \in Nat
    BY <2>3, SmallerSet
  <2>5. QED
    BY <2>2, <2>4, LimitIsNatural
<1>2. QED
  BY <1>1, RateLimitInvariance, PTL DEF RefusedOnlyWhenFull, Spec
=============================================================================
