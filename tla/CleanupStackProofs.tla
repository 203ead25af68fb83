------------------------- MODULE CleanupStackProofs -------------------------
(* Proofs about CleanupStack, for every set of goroutines and callbacks.   *)
EXTENDS CleanupStack, TLAPS

\* The type invariant of the stack holds in every reachable state.
THEOREM TypeCorrect == Spec => []TypeOK
<1>1. Init => TypeOK
  BY DEF Init, TypeOK
<1>2. TypeOK /\ [Next]_stackVars => TypeOK'
  <2> SUFFICES ASSUME TypeOK, [Next]_stackVars
               PROVE  TypeOK'
    OBVIOUS
  <2> USE DEF TypeOK
  <2>1. ASSUME NEW g \in Goroutine, NEW c \in Callback, push(g, c)
        PROVE  TypeOK'
    BY <2>1 DEF push
  <2>2. ASSUME NEW g \in Goroutine, unwind(g)
        PROVE  TypeOK'
    BY <2>2 DEF unwind
  <2>3. ASSUME NEW g \in Goroutine, Lock(g)
        PROVE  TypeOK'
    BY <2>3 DEF Lock
  <2>4. ASSUME NEW g \in Goroutine, RunCallback(g)
        PROVE  TypeOK'
    <3>1. i' \in [Goroutine -> Nat]
      BY <2>4 DEF RunCallback
    <3>2. runs' \in [Callback -> Nat]
      <4> DEFINE d == fns[i[g]]
      <4>1. runs' = [runs EXCEPT ![d] = runs[d] + 1]
        BY <2>4 DEF RunCallback
      <4>2. d \in Callback => runs[d] + 1 \in Nat
        OBVIOUS
      <4> HIDE DEF d
      <4>3. QED
        BY <4>1, <4>2
    <3>3. QED
      BY <2>4, <3>1, <3>2 DEF RunCallback
  <2>5. ASSUME NEW g \in Goroutine, Unlock(g)
        PROVE  TypeOK'
    BY <2>5 DEF Unlock
  <2>6. CASE UNCHANGED stackVars
    BY <2>6 DEF stackVars
  <2>7. QED
    BY <2>1, <2>2, <2>3, <2>4, <2>5, <2>6 DEF Next, Step
<1>3. QED
  BY <1>1, <1>2, PTL DEF Spec

-----------------------------------------------------------------------------

\* Appending to a sequence: the facts push needs.
LEMMA AppendFacts ==
  ASSUME NEW S, NEW s \in Seq(S), NEW x \in S
  PROVE  /\ Append(s, x) \in Seq(S)
         /\ Len(Append(s, x)) = Len(s) + 1
         /\ \A k \in 1 .. Len(s) : Append(s, x)[k] = s[k]
         /\ Append(s, x)[Len(s) + 1] = x
OBVIOUS

\* push keeps the stack invariant: the new callback is on top, not run yet.
LEMMA PushKeepsInv ==
  ASSUME StackInv, NEW g \in Goroutine, NEW c \in Callback, push(g, c), TypeOK'
  PROVE  StackInv'
<1> USE DEF StackInv, push
<1>1. /\ fns \in Seq(Callback) /\ order \in Seq(Callback)
      /\ Len(fns) \in Nat /\ Len(order) \in Nat
      /\ Len(fns) <= Len(order)
  BY DEF TypeOK, TailOfOrder
<1>2. /\ Len(fns') = Len(fns) + 1 /\ Len(order') = Len(order) + 1
      /\ \A k \in 1 .. Len(fns) : fns'[k] = fns[k]
      /\ \A k \in 1 .. Len(order) : order'[k] = order[k]
      /\ fns'[Len(fns) + 1] = c /\ order'[Len(order) + 1] = c
  BY <1>1, AppendFacts
<1>3. /\ Base' = Base /\ Base \in Nat
      /\ Left = Len(fns) /\ Left' = Len(fns) + 1
  BY <1>1, <1>2 DEF Base, Left
<1>4. \A k \in 1 .. Len(order) : order[k] # c
  BY <1>1 DEF Registered
<1>5. Holder'
  BY <1>1, <1>2 DEF Holder, TypeOK
<1>6. Distinct'
  BY <1>1, <1>2, <1>4 DEF Distinct
<1>7. TailOfOrder'
  <2>1. ASSUME NEW k \in 1 .. Len(fns')
        PROVE  fns'[k] = order'[Base + k]
    <3>1. CASE k = Len(fns) + 1
      <4>1. Base + k = Len(order) + 1
        BY <1>1, <3>1 DEF Base
      <4>2. QED
        BY <1>2, <3>1, <4>1
    <3>2. CASE k \in 1 .. Len(fns)
      <4>1. Base + k \in 1 .. Len(order)
        BY <1>1, <3>2 DEF Base
      <4>2. fns[k] = order[Base + k]
        BY <3>2 DEF TailOfOrder
      <4>3. QED
        BY <1>2, <3>2, <4>1, <4>2
    <3>3. k \in 1 .. Len(fns) \/ k = Len(fns) + 1
      BY <1>1, <1>2
    <3>4. QED
      BY <3>1, <3>2, <3>3
  <2>2. Len(fns') <= Len(order')
    BY <1>1, <1>2
  <2>3. \A k \in 1 .. Len(fns') : fns'[k] = order'[Base' + k]
    BY <1>3, <2>1
  <2>4. QED
    BY <2>2, <2>3 DEF TailOfOrder
<1>8. RunCounts'
  <2>1. Registered' = Registered \union {c}
    <3>1. /\ DOMAIN order = 1 .. Len(order)
          /\ DOMAIN order' = 1 .. Len(order')
      BY <1>1 DEF TypeOK
    <3>2. DOMAIN order' = (DOMAIN order) \union {Len(order) + 1}
      BY <1>1, <1>2, <3>1
    <3>3. QED
      BY <1>2, <3>1, <3>2 DEF Registered
  <2>2. runs[c] = 0
    BY DEF RunCounts
  <2>3. ASSUME NEW k \in 1 .. Len(order)
        PROVE  IsLeft(k)' <=> IsLeft(k)
    BY <1>1, <1>3 DEF IsLeft, Base
  <2>4. ASSUME NEW k, k = Len(order) + 1
        PROVE  IsLeft(k)'
    BY <1>1, <1>3, <2>4 DEF IsLeft, Base
  <2>5. ASSUME NEW k \in 1 .. Len(order')
        PROVE  runs[order'[k]] = IF IsLeft(k)' THEN 0 ELSE 1
    <3>1. CASE k = Len(order) + 1
      BY <1>2, <2>2, <2>4, <3>1
    <3>2. CASE k \in 1 .. Len(order)
      BY <1>2, <2>3, <3>2 DEF RunCounts
    <3>3. k \in 1 .. Len(order) \/ k = Len(order) + 1
      BY <1>1, <1>2
    <3>4. QED
      BY <3>1, <3>2, <3>3
  <2>6. \A d \in Callback \ Registered' : runs[d] = 0
    BY <2>1 DEF RunCounts
  <2>7. QED
    BY <2>5, <2>6 DEF RunCounts
<1>9. QED
  BY <1>5, <1>6, <1>7, <1>8

\* Lock keeps the stack invariant: every callback of fns is left to run.
LEMMA LockKeepsInv ==
  ASSUME StackInv, NEW g \in Goroutine, Lock(g), TypeOK'
  PROVE  StackInv'
<1> USE DEF StackInv, Lock
<1>1. Len(fns) \in Nat
  BY DEF TypeOK
<1>2. Base' = Base /\ Left' = Left
  BY NoOwnerAssumption DEF Base, Left, TypeOK
<1>3. Holder'
  BY <1>1, NoOwnerAssumption DEF Holder, TypeOK
<1>4. RunCounts'
  BY <1>2 DEF RunCounts, Registered, IsLeft
<1>5. QED
  BY <1>2, <1>3, <1>4 DEF Distinct, TailOfOrder

\* The callback that RunCallback runs is the newest one that is left.
LEMMA NewestLeft ==
  ASSUME StackInv, NEW g \in Goroutine, RunCallback(g)
  PROVE  /\ i[g] \in 1 .. Len(fns) /\ Len(fns) <= Len(order)
         /\ Base \in Nat /\ Left = i[g]
         /\ Base + Left \in 1 .. Len(order)
         /\ fns[i[g]] = order[Base + Left]
<1> USE DEF StackInv
<1>1. /\ Len(fns) \in Nat /\ Len(order) \in Nat
      /\ i[g] \in 1 .. Len(fns) /\ Len(fns) <= Len(order)
  BY DEF TypeOK, TailOfOrder, Holder, RunCallback
<1>2. mu = g /\ mu # NoOwner
  BY NoOwnerAssumption DEF Holder, RunCallback
<1>3. Base \in Nat /\ Left = i[g]
  BY <1>1, <1>2 DEF Base, Left
<1>4. Base + Left \in 1 .. Len(order)
  BY <1>1, <1>3 DEF Base
<1>5. fns[i[g]] = order[Base + i[g]]
  BY <1>1 DEF TailOfOrder
<1>6. QED
  BY <1>1, <1>3, <1>4, <1>5

\* RunCallback keeps the stack invariant: it runs the newest callback that
\* is left, and only that one.
LEMMA RunKeepsInv ==
  ASSUME StackInv, NEW g \in Goroutine, RunCallback(g), TypeOK'
  PROVE  StackInv'
<1>1. /\ i[g] \in 1 .. Len(fns) /\ Len(fns) <= Len(order)
      /\ Base \in Nat /\ Left = i[g]
      /\ Base + Left \in 1 .. Len(order)
      /\ fns[i[g]] = order[Base + Left]
  BY NewestLeft
<1> USE DEF StackInv, RunCallback
<1>2. mu = g /\ mu # NoOwner
  BY NoOwnerAssumption DEF Holder
<1>3. Base' = Base /\ Base \in Nat /\ Left = i[g] /\ Left' = i[g] - 1
  BY <1>1, <1>2 DEF Base, Left, TypeOK
<1>4. Len(fns) \in Nat /\ Len(order) \in Nat /\ DOMAIN order = 1 .. Len(order)
  BY DEF TypeOK
<1>5. \A k \in 1 .. Len(order) : order[k] \in Callback
  BY DEF TypeOK
<1>6. \A c \in Callback :
        runs'[c] = IF c = order[Base + Left] THEN runs[c] + 1 ELSE runs[c]
  BY <1>1, <1>5 DEF TypeOK
<1>7. Holder'
  BY <1>1, <1>2 DEF Holder, TypeOK
<1>8. RunCounts'
  <2>1. ASSUME NEW k \in 1 .. Len(order)
        PROVE  runs'[order[k]] = IF IsLeft(k)' THEN 0 ELSE 1
    <3>1. CASE k = Base + Left
      <4>1. IsLeft(k) /\ ~IsLeft(k)'
        BY <1>1, <1>3, <1>4, <3>1 DEF IsLeft
      <4>2. runs[order[k]] = 0
        BY <4>1 DEF RunCounts
      <4>3. runs'[order[k]] = 1
        BY <1>5, <1>6, <3>1, <4>2
      <4>4. QED
        BY <4>1, <4>3
    <3>2. CASE k # Base + Left
      <4>1. order[k] # order[Base + Left]
        BY <1>1, <3>2 DEF Distinct
      <4>2. runs'[order[k]] = runs[order[k]]
        BY <1>5, <1>6, <4>1
      <4>3. IsLeft(k) <=> IsLeft(k)'
        BY <1>1, <1>3, <1>4, <3>2 DEF IsLeft
      <4>4. QED
        BY <4>2, <4>3 DEF RunCounts
    <3>3. QED
      BY <3>1, <3>2
  <2>2. Registered' = Registered
    BY DEF Registered
  <2>3. order[Base + Left] \in Registered
    BY <1>1, <1>4 DEF Registered
  <2>4. \A c \in Callback \ Registered : runs'[c] = 0
    BY <1>6, <2>3 DEF RunCounts
  <2>5. QED
    BY <2>1, <2>2, <2>4 DEF RunCounts
<1>9. QED
  BY <1>3, <1>7, <1>8 DEF Distinct, TailOfOrder

\* Unlock keeps the stack invariant: the loop is over, so nothing that is
\* dropped from fns is left to run.
LEMMA UnlockKeepsInv ==
  ASSUME StackInv, NEW g \in Goroutine, Unlock(g), TypeOK'
  PROVE  StackInv'
<1> USE DEF StackInv, Unlock
<1>1. Len(order) \in Nat /\ Len(fns) \in Nat /\ Len(fns) <= Len(order)
  BY DEF TypeOK, TailOfOrder
<1>2. mu = g /\ Left = 0
  BY NoOwnerAssumption DEF Holder, Left
<1>3. Len(fns') = 0 /\ Base' = Len(order) /\ Left' = 0
  BY <1>1 DEF Base, Left
<1>4. Holder'
  BY NoOwnerAssumption, <1>2 DEF Holder, TypeOK
<1>5. TailOfOrder'
  BY <1>1, <1>3 DEF TailOfOrder
<1>6. RunCounts'
  <2>1. \A k \in 1 .. Len(order) : ~IsLeft(k) /\ ~IsLeft(k)'
    BY <1>1, <1>2, <1>3 DEF IsLeft, Base
  <2>2. QED
    BY <2>1 DEF RunCounts, Registered
<1>7. QED
  BY <1>4, <1>5, <1>6 DEF Distinct

\* The stack invariant holds in every reachable state.
THEOREM StackInvariant == Spec => []StackInv
<1>1. Init => StackInv
  BY NoOwnerAssumption DEF Init, StackInv, TypeOK, Holder, Distinct,
     TailOfOrder, RunCounts, IsLeft, Registered, Base, Left
<1>2. StackInv /\ TypeOK' /\ [Next]_stackVars => StackInv'
  <2> SUFFICES ASSUME StackInv, TypeOK', [Next]_stackVars
               PROVE  StackInv'
    OBVIOUS
  <2>1. ASSUME NEW g \in Goroutine, unwind(g)
        PROVE  StackInv'
    BY <2>1 DEF unwind, StackInv, TypeOK, Holder, Distinct, TailOfOrder,
       RunCounts, IsLeft, Registered, Base, Left
  <2>2. CASE UNCHANGED stackVars
    BY <2>2 DEF stackVars, StackInv, TypeOK, Holder, Distinct, TailOfOrder,
       RunCounts, IsLeft, Registered, Base, Left
  <2>3. QED
    BY <2>1, <2>2, PushKeepsInv, LockKeepsInv, RunKeepsInv, UnlockKeepsInv
       DEF Next, Step
<1>3. QED
  BY <1>1, <1>2, TypeCorrect, PTL DEF Spec

-----------------------------------------------------------------------------

\* No callback is ever run twice, whatever the goroutines do.
THEOREM RunAtMostOnce == Spec => []AtMostOnce
<1>1. StackInv => AtMostOnce
  <2> SUFFICES ASSUME StackInv, NEW c \in Callback
               PROVE  runs[c] <= 1
    BY DEF AtMostOnce
  <2>1. CASE c \in Registered
    <3>1. PICK k \in DOMAIN order : order[k] = c
      BY <2>1 DEF Registered
    <3>2. k \in 1 .. Len(order)
      BY <3>1 DEF StackInv, TypeOK
    <3>3. runs[c] = 0 \/ runs[c] = 1
      BY <3>1, <3>2 DEF StackInv, RunCounts
    <3>4. QED
      BY <3>3
  <2>2. CASE c \notin Registered
    BY <2>2 DEF StackInv, RunCounts
  <2>3. QED
    BY <2>1, <2>2
<1>2. QED
  BY <1>1, StackInvariant, PTL

\* While the mutex is free, the stack holds exactly the registered
\* callbacks that have not been run.
THEOREM NothingIsForgotten == Spec => []NothingForgotten
<1>1. StackInv => NothingForgotten
  <2> SUFFICES ASSUME StackInv, mu = NoOwner
               PROVE  { fns[k] : k \in DOMAIN fns } = Registered \ Done
    BY DEF NothingForgotten
  <2> USE DEF StackInv
  <2>1. /\ fns \in Seq(Callback) /\ order \in Seq(Callback)
        /\ Len(fns) \in Nat /\ Len(order) \in Nat
        /\ DOMAIN fns = 1 .. Len(fns) /\ DOMAIN order = 1 .. Len(order)
        /\ Len(fns) <= Len(order)
    BY DEF TypeOK, TailOfOrder
  <2>2. Left = Len(fns) /\ Base \in Nat /\ Base + Left = Len(order)
    BY <2>1 DEF Left, Base
  <2>3. \A k \in DOMAIN order : order[k] \notin Done <=> k > Base
    <3> SUFFICES ASSUME NEW k \in 1 .. Len(order)
                 PROVE  order[k] \notin Done <=> k > Base
      BY <2>1
    <3>1. order[k] \in Callback
      BY <2>1
    <3>2. IsLeft(k) <=> k > Base
      BY <2>1, <2>2 DEF IsLeft
    <3>3. runs[order[k]] = IF IsLeft(k) THEN 0 ELSE 1
      BY DEF RunCounts
    <3>4. QED
      BY <3>1, <3>2, <3>3 DEF Done
  <2>4. ASSUME NEW k \in DOMAIN fns
        PROVE  fns[k] \in Registered \ Done
    <3>1. /\ Base + k \in DOMAIN order
          /\ Base + k > Base
      BY <2>1, <2>2, <2>4 DEF Base
    <3>2. fns[k] = order[Base + k]
      BY <2>1, <2>4 DEF TailOfOrder
    <3>3. QED
      BY <2>3, <3>1, <3>2 DEF Registered
  <2>5. ASSUME NEW c \in Registered \ Done
        PROVE  \E k \in DOMAIN fns : fns[k] = c
    <3>1. PICK j \in DOMAIN order : order[j] = c
      BY <2>5 DEF Registered
    <3>2. j > Base
      BY <2>3, <2>5, <3>1
    <3>3. j - Base \in 1 .. Len(fns) /\ Base + (j - Base) = j
      BY <2>1, <2>2, <3>2 DEF Base
    <3>4. fns[j - Base] = order[j]
      BY <3>3 DEF TailOfOrder
    <3>5. QED
      BY <2>1, <3>1, <3>3, <3>4
  <2>6. QED
    BY <2>4, <2>5
<1>2. QED
  BY <1>1, StackInvariant, PTL

\* A callback is run only when every callback registered after it has been.
THEOREM RunInReverseOrder == Spec => ReverseOrder
<1> DEFINE Reverse ==
      \A c \in Done' \ Done : \A d \in Registered : After(d, c) => d \in Done
<1>1. ASSUME StackInv, NEW g \in Goroutine, RunCallback(g)
      PROVE  Reverse
  <2> SUFFICES ASSUME NEW c \in Done', c \notin Done,
                      NEW j \in DOMAIN order, NEW k \in DOMAIN order,
                      j < k, order[j] = c
               PROVE  order[k] \in Done
    BY DEF After
  <2>1. /\ DOMAIN order = 1 .. Len(order) /\ Len(order) \in Nat
        /\ order[k] \in Callback
    BY <1>1 DEF StackInv, TypeOK
  <2>2. /\ Base \in Nat /\ Base + Left \in 1 .. Len(order)
        /\ fns[i[g]] = order[Base + Left]
    BY <1>1, NewestLeft
  <2>3. c = fns[i[g]]
    BY <1>1 DEF Done, RunCallback, StackInv, TypeOK
  <2>4. j = Base + Left
    BY <1>1, <2>1, <2>2, <2>3 DEF StackInv, Distinct
  <2>5. ~IsLeft(k)
    BY <2>1, <2>2, <2>4 DEF IsLeft
  <2>6. runs[order[k]] = 1
    BY <1>1, <2>1, <2>5 DEF StackInv, RunCounts
  <2>7. QED
    BY <2>1, <2>6 DEF Done
<1>2. ASSUME [Next]_stackVars,
             \A g \in Goroutine : ~RunCallback(g)
      PROVE  Reverse
  <2>1. runs' = runs
    BY <1>2 DEF Next, Step, push, unwind, Lock, Unlock, stackVars
  <2>2. QED
    BY <2>1 DEF Done
<1>3. StackInv /\ [Next]_stackVars => [Reverse]_stackVars
  BY <1>1, <1>2
<1>4. QED
  BY <1>3, StackInvariant, PTL DEF Spec, ReverseOrder

=============================================================================
