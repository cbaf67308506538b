--------------------------- MODULE LoopTask_proofs --------------------------
(***************************************************************************)
(* Theorems about the task that runs the sketch and the functions it runs  *)
(* after every loop().  First the queue of scheduled functions, for every  *)
(* limit on its items and every number of calls; then that the task runs   *)
(* the pass of Schedule as Schedule says, which carries those results      *)
(* over, and that a sleeping sketch is woken; then the stack of passes     *)
(* over the recurrent functions, where one pass at most runs and the fence *)
(* tells, which is what makes its pointers safe.                           *)
(***************************************************************************)
EXTENDS LoopTask, SequenceTheorems, TLAPS

-----------------------------------------------------------------------------
(* Chains of items: what appending, removing and pushing does to the set   *)
(* of their items, and that no item occurs twice.                          *)

LEMMA AppendItem ==
    ASSUME NEW S, NEW q \in Seq(S), NEW x \in S
    PROVE  /\ Range(Append(q, x)) = Range(q) \cup {x}
           /\ IsInjective(q) /\ x \notin Range(q) => IsInjective(Append(q, x))
  <1>1. /\ Append(q, x) \in Seq(S) /\ Len(Append(q, x)) = Len(q) + 1 /\ Len(q) \in Nat
        /\ \A k \in 1..Len(q) : Append(q, x)[k] = q[k]
        /\ Append(q, x)[Len(q) + 1] = x
    BY AppendProperties, LenProperties
  <1>2. DOMAIN q = 1..Len(q) /\ DOMAIN Append(q, x) = 1..(Len(q) + 1)
    BY <1>1, LenProperties
  <1>3. Range(Append(q, x)) = Range(q) \cup {x}
    BY <1>1, <1>2 DEF Range
  <1>4. IsInjective(q) /\ x \notin Range(q) => IsInjective(Append(q, x))
    BY <1>1, <1>2 DEF Range, IsInjective
  <1> QED
    BY <1>3, <1>4

LEMMA RemoveItem ==
    ASSUME NEW S, NEW q \in Seq(S), q # <<>>
    PROVE  /\ Range(q) = {Head(q)} \cup Range(Tail(q))
           /\ IsInjective(q) => IsInjective(Tail(q)) /\ Head(q) \notin Range(Tail(q))
  <1>1. /\ Tail(q) \in Seq(S) /\ Len(Tail(q)) = Len(q) - 1 /\ Len(q) \in Nat \ {0}
        /\ \A k \in 1..Len(Tail(q)) : Tail(q)[k] = q[k + 1]
        /\ Head(q) = q[1]
    BY HeadTailProperties, LenProperties, EmptySeq
  <1>2. DOMAIN q = 1..Len(q) /\ DOMAIN Tail(q) = 1..(Len(q) - 1)
    BY <1>1, LenProperties
  <1>3. Range(q) = {Head(q)} \cup Range(Tail(q))
    <2>1. ASSUME NEW k \in 1..Len(q)
          PROVE  q[k] \in {Head(q)} \cup Range(Tail(q))
      <3>1. CASE k = 1
        BY <1>1, <3>1
      <3>2. CASE k # 1
        <4>1. k - 1 \in 1..(Len(q) - 1) /\ (k - 1) + 1 = k
          BY <1>1, <3>2
        <4>2. q[k] = Tail(q)[k - 1]
          BY <1>1, <4>1
        <4> QED
          BY <1>2, <4>1, <4>2 DEF Range
      <3> QED
        BY <3>1, <3>2
    <2>2. Head(q) \in Range(q)
      BY <1>1, <1>2 DEF Range
    <2>3. ASSUME NEW k \in 1..(Len(q) - 1)
          PROVE  Tail(q)[k] \in Range(q)
      <3>1. k + 1 \in 1..Len(q) /\ Tail(q)[k] = q[k + 1]
        BY <1>1
      <3> QED
        BY <1>2, <3>1 DEF Range
    <2> QED
      BY <1>2, <2>1, <2>2, <2>3, Zenon DEF Range
  <1>4. IsInjective(q) => IsInjective(Tail(q)) /\ Head(q) \notin Range(Tail(q))
    BY <1>1, <1>2 DEF Range, IsInjective
  <1> QED
    BY <1>3, <1>4

LEMMA PushItem ==
    ASSUME NEW S, NEW q \in Seq(S), NEW x \in S
    PROVE  /\ <<x>> \o q \in Seq(S) /\ Len(<<x>> \o q) = Len(q) + 1
           /\ Range(<<x>> \o q) = {x} \cup Range(q)
           /\ IsInjective(q) /\ x \notin Range(q) => IsInjective(<<x>> \o q)
  <1>1. /\ <<x>> \o q \in Seq(S) /\ Len(<<x>> \o q) = Len(q) + 1 /\ Len(q) \in Nat
        /\ (<<x>> \o q)[1] = x
        /\ \A k \in 2..(Len(q) + 1) : (<<x>> \o q)[k] = q[k - 1]
    BY ConcatProperties, LenProperties
  <1>2. DOMAIN q = 1..Len(q) /\ DOMAIN (<<x>> \o q) = 1..(Len(q) + 1)
    BY <1>1, LenProperties
  <1>3. Range(<<x>> \o q) = {x} \cup Range(q)
    <2>1. ASSUME NEW k \in 1..(Len(q) + 1)
          PROVE  (<<x>> \o q)[k] \in {x} \cup Range(q)
      <3>1. CASE k = 1
        BY <1>1, <3>1
      <3>2. CASE k # 1
        <4>1. k \in 2..(Len(q) + 1) /\ k - 1 \in 1..Len(q)
          BY <1>1, <3>2
        <4> QED
          BY <1>1, <1>2, <4>1 DEF Range
      <3> QED
        BY <3>1, <3>2
    <2>2. x \in Range(<<x>> \o q)
      BY <1>1, <1>2 DEF Range
    <2>3. ASSUME NEW k \in 1..Len(q)
          PROVE  q[k] \in Range(<<x>> \o q)
      <3>1. k + 1 \in 2..(Len(q) + 1) /\ (k + 1) - 1 = k
        BY <1>1
      <3>2. (<<x>> \o q)[k + 1] = q[k] /\ k + 1 \in 1..(Len(q) + 1)
        BY <1>1, <3>1
      <3> QED
        BY <1>2, <3>2 DEF Range
    <2> QED
      BY <1>2, <2>1, <2>2, <2>3, Zenon DEF Range
  <1>4. IsInjective(q) /\ x \notin Range(q) => IsInjective(<<x>> \o q)
    BY <1>1, <1>2 DEF Range, IsInjective
  <1> QED
    BY <1>1, <1>3, <1>4

\* Appending after the last item of a chain cuts nothing off.
LEMMA LinkAfterLast ==
    ASSUME NEW S, NEW q \in Seq(S), q # <<>>, IsInjective(q), NEW x \in S
    PROVE  LinkAfter(q, q[Len(q)], x) = Append(q, x)
  <1>1. Len(q) \in 1..Len(q) /\ DOMAIN q = 1..Len(q)
    BY LenProperties, EmptySeq
  <1>2. q[Len(q)] \in Range(q)
    BY <1>1 DEF Range
  <1>3. (CHOOSE k \in 1..Len(q) : q[k] = q[Len(q)]) = Len(q)
    BY <1>1 DEF IsInjective
  <1>4. SubSeq(q, 1, Len(q)) = q
    BY SubSeqFull
  <1> QED
    BY <1>2, <1>3, <1>4 DEF LinkAfter

-----------------------------------------------------------------------------
(* Numbers along a chain.                                                  *)

\* The items of q hold the last calls of n, in order.
Numbered(f, q, n) == \A k \in 1..Len(q) : f[q[k]] = (n - Len(q)) + k

\* r is 1, 2, ..., n.
Counted(r, n) == Len(r) = n /\ \A k \in 1..n : r[k] = k

LEMMA NumberedAppend ==
    ASSUME NEW f \in [Items -> Int], NEW q \in Seq(Items), NEW n \in Nat, NEW x \in Items,
           x \notin Range(q), Numbered(f, q, n)
    PROVE  Numbered([f EXCEPT ![x] = n + 1], Append(q, x), n + 1)
  <1>1. /\ Len(Append(q, x)) = Len(q) + 1 /\ Len(q) \in Nat /\ DOMAIN q = 1..Len(q)
        /\ \A k \in 1..Len(q) : Append(q, x)[k] = q[k]
        /\ Append(q, x)[Len(q) + 1] = x
    BY AppendProperties, LenProperties
  <1> DEFINE g == [f EXCEPT ![x] = n + 1]
  <1>2. g[x] = n + 1 /\ \A y \in Items \ {x} : g[y] = f[y]
    OBVIOUS
  <1>3. ASSUME NEW k \in 1..(Len(q) + 1)
        PROVE  g[Append(q, x)[k]] = ((n + 1) - (Len(q) + 1)) + k
    <2>1. CASE k = Len(q) + 1
      BY <1>1, <1>2, <2>1
    <2>2. CASE k # Len(q) + 1
      <3>1. k \in 1..Len(q) /\ Append(q, x)[k] = q[k]
        BY <1>1, <2>2
      <3>2. q[k] \in Range(q) /\ q[k] \in Items
        BY <1>1, <3>1, ElementOfSeq DEF Range
      <3>3. g[q[k]] = f[q[k]]
        BY <1>2, <3>2
      <3>4. f[q[k]] = (n - Len(q)) + k
        BY <3>1 DEF Numbered
      <3> QED
        BY <1>1, <3>1, <3>3, <3>4
    <2> QED
      BY <2>1, <2>2
  <1> QED
    BY <1>1, <1>3 DEF Numbered

LEMMA NumberedTail ==
    ASSUME NEW f \in [Items -> Int], NEW q \in Seq(Items), q # <<>>, IsInjective(q), NEW n \in Nat, NEW v \in Int,
           Numbered(f, q, n)
    PROVE  Numbered([f EXCEPT ![Head(q)] = v], Tail(q), n)
  <1>1. /\ Len(Tail(q)) = Len(q) - 1 /\ Len(q) \in Nat \ {0} /\ DOMAIN q = 1..Len(q) /\ Head(q) = q[1]
        /\ \A k \in 1..Len(Tail(q)) : Tail(q)[k] = q[k + 1]
    BY HeadTailProperties, LenProperties, EmptySeq
  <1> DEFINE g == [f EXCEPT ![Head(q)] = v]
  <1>2. \A y \in Items \ {Head(q)} : g[y] = f[y]
    OBVIOUS
  <1>3. ASSUME NEW k \in 1..(Len(q) - 1)
        PROVE  g[Tail(q)[k]] = (n - (Len(q) - 1)) + k
    <2>1. k + 1 \in 1..Len(q) /\ 1 \in 1..Len(q) /\ k + 1 # 1 /\ Tail(q)[k] = q[k + 1]
      BY <1>1
    <2>2. q[k + 1] # Head(q) /\ q[k + 1] \in Items
      BY <1>1, <2>1, ElementOfSeq DEF IsInjective
    <2>3. g[q[k + 1]] = f[q[k + 1]]
      BY <1>2, <2>2
    <2>4. f[q[k + 1]] = (n - Len(q)) + (k + 1)
      BY <2>1 DEF Numbered
    <2> QED
      BY <1>1, <2>1, <2>3, <2>4
  <1> QED
    BY <1>1, <1>3 DEF Numbered

LEMMA CountedAppend ==
    ASSUME NEW S, NEW r \in Seq(S), NEW n \in Nat, NEW x \in S, Counted(r, n), x = n + 1
    PROVE  Counted(Append(r, x), n + 1)
  <1>1. /\ Len(Append(r, x)) = n + 1
        /\ \A k \in 1..n : Append(r, x)[k] = r[k]
        /\ Append(r, x)[n + 1] = n + 1
    BY AppendProperties, LenProperties DEF Counted
  <1> QED
    BY <1>1 DEF Counted

-----------------------------------------------------------------------------
(* The inductive invariant: the lists share out the items allocated, sLast *)
(* is the end of the queue, calls are queued in order, and the item that   *)
(* ends the pass has not left the queue before its turn.                   *)

Shared ==
    /\ IsInjective(queue) /\ IsInjective(unused)
    /\ Range(queue) \cap Range(unused) = {}
    /\ Range(queue) \cup Range(unused) = 1..sCount
    /\ Len(queue) + Len(unused) = sCount

LastInv == sLast = IF queue = <<>> THEN None ELSE queue[Len(queue)]

Started == IF pc = "run" THEN 1 ELSE 0

OrderInv ==
    /\ Len(queue) <= calls
    /\ Numbered(mFunc, queue, calls)
    /\ Counted(ran, (calls - Len(queue)) + Started)

StopInv ==
    /\ pc = "run" => (done <=> Head(queue) = stop)
    /\ pc # "loop" /\ (pc = "run" \/ ~done) /\ stop # None => stop \in Range(queue)

Inv == TypeOK /\ Shared /\ LastInv /\ OrderInv /\ StopInv

LEMMA InvInit == Init => Inv
  <1> SUFFICES ASSUME Init PROVE Inv
    OBVIOUS
  <1>1. /\ queue = <<>> /\ unused = <<>> /\ ran = <<>> /\ sCount = 0 /\ calls = 0 /\ pc = "loop" /\ stop = None
        /\ sLast = None /\ done = FALSE /\ mFunc = [item \in Items |-> None]
    BY DEF Init
  <1>2. Len(<<>>) = 0 /\ \A S : <<>> \in Seq(S)
    OBVIOUS
  <1>3. Range(<<>>) = {} /\ IsInjective(<<>>)
    BY DEF Range, IsInjective
  <1>4. TypeOK
    <2>1. queue \in Seq(Items) /\ unused \in Seq(Items) /\ ran \in Seq(1..MaxCalls)
      BY <1>1, <1>2
    <2>2. sLast \in Items \cup {None} /\ stop \in Items \cup {None} /\ done \in BOOLEAN
      BY <1>1
    <2>3. sCount \in 0..MaxCount /\ calls \in 0..MaxCalls
      BY <1>1, CountAssumption, BoundAssumption DEF None
    <2>4. mFunc \in [Items -> 0..MaxCalls]
      BY <1>1, BoundAssumption DEF None
    <2> QED
      BY <1>1, <2>1, <2>2, <2>3, <2>4 DEF TypeOK
  <1>5. Shared
    BY <1>1, <1>2, <1>3 DEF Shared
  <1>6. LastInv /\ StopInv
    BY <1>1 DEF LastInv, StopInv
  <1>7. OrderInv
    <2>1. Len(queue) = 0 /\ Len(ran) = 0 /\ (calls - Len(queue)) + Started = 0
      <3>1. Started = 0
        BY <1>1 DEF Started
      <3>2. Len(queue) = 0 /\ Len(ran) = 0
        BY <1>1, <1>2, Zenon
      <3>3. calls = 0
        BY <1>1
      <3> QED
        BY <3>1, <3>2, <3>3
    <2>2. 1..0 = {}
      OBVIOUS
    <2>3. Numbered(mFunc, queue, calls) /\ Counted(ran, 0)
      BY <2>1, <2>2 DEF Numbered, Counted
    <2> QED
      BY <1>1, <2>1, <2>3 DEF OrderInv
  <1> QED
    BY <1>4, <1>5, <1>6, <1>7 DEF Inv

-----------------------------------------------------------------------------
(* The steps.                                                              *)

\* An item that waits nowhere is linked in after the last one.
LEMMA ScheduleEffect ==
    ASSUME Inv, ScheduleFunction
    PROVE  \E item \in Items :
             /\ item \notin Range(queue)
             /\ queue' = Append(queue, item) /\ sLast' = item
             /\ calls' = calls + 1 /\ calls < MaxCalls
             /\ mFunc' = [mFunc EXCEPT ![item] = calls + 1]
             /\ unused' \in Seq(Items) /\ IsInjective(unused')
             /\ (Range(queue) \cup {item}) \cap Range(unused') = {}
             /\ (Range(queue) \cup {item}) \cup Range(unused') = 1..sCount'
             /\ (Len(queue) + 1) + Len(unused') = sCount' /\ sCount' \in 0..MaxCount
  <1>1. /\ queue \in Seq(Items) /\ unused \in Seq(Items) /\ sCount \in 0..MaxCount
        /\ IsInjective(queue) /\ IsInjective(unused)
        /\ Range(queue) \cap Range(unused) = {} /\ Range(queue) \cup Range(unused) = 1..sCount
        /\ Len(queue) + Len(unused) = sCount /\ Len(queue) \in Nat /\ Len(unused) \in Nat
        /\ sLast = IF queue = <<>> THEN None ELSE queue[Len(queue)]
    BY LenProperties DEF Inv, TypeOK, Shared, LastInv
  <1> DEFINE item == IF unused # <<>> THEN Head(unused) ELSE sCount + 1
  <1>2. /\ unused # <<>> \/ sCount < MaxCount
        /\ unused' = IF unused # <<>> THEN Tail(unused) ELSE unused
        /\ sCount' = IF unused # <<>> THEN sCount ELSE item
        /\ mFunc' = [mFunc EXCEPT ![item] = calls + 1]
        /\ queue' = IF queue # <<>> THEN LinkAfter(queue, sLast, item) ELSE <<item>>
        /\ sLast' = item /\ calls' = calls + 1 /\ calls < MaxCalls
    BY DEF ScheduleFunction, BelowLimit
  <1>3. /\ item \in Items /\ item \notin Range(queue)
        /\ unused' \in Seq(Items) /\ IsInjective(unused')
        /\ (Range(queue) \cup {item}) \cap Range(unused') = {}
        /\ (Range(queue) \cup {item}) \cup Range(unused') = 1..sCount'
        /\ (Len(queue) + 1) + Len(unused') = sCount' /\ sCount' \in 0..MaxCount
    <2>1. CASE unused # <<>>
      <3>1. item = Head(unused) /\ unused' = Tail(unused) /\ sCount' = sCount
        BY <1>2, <2>1
      <3>2. /\ Tail(unused) \in Seq(Items) /\ Len(Tail(unused)) = Len(unused) - 1
            /\ Head(unused) \in Items
        BY <1>1, <2>1, HeadTailProperties
      <3>3. /\ Range(unused) = {Head(unused)} \cup Range(Tail(unused))
            /\ IsInjective(Tail(unused)) /\ Head(unused) \notin Range(Tail(unused))
        BY <1>1, <2>1, RemoveItem
      <3>4. (Len(queue) + 1) + Len(Tail(unused)) = sCount
        BY <1>1, <3>2
      <3> QED
        BY <1>1, <3>1, <3>2, <3>3, <3>4
    <2>2. CASE unused = <<>>
      <3>1. item = sCount + 1 /\ unused' = <<>> /\ sCount' = sCount + 1 /\ sCount < MaxCount
        BY <1>2, <2>2
      <3>2. Range(<<>>) = {} /\ Len(<<>>) = 0 /\ <<>> \in Seq(Items) /\ IsInjective(<<>>)
        BY DEF Range, IsInjective
      <3>3. Range(queue) = 1..sCount /\ Len(queue) = sCount
        <4>1. Range(unused) = {} /\ Len(unused) = 0
          BY <2>2, <3>2
        <4> QED
          BY <1>1, <4>1
      <3>4. sCount \in Nat /\ sCount + 1 \in 1..MaxCount /\ sCount + 1 \in 0..MaxCount
        BY <1>1, <3>1, CountAssumption
      <3>5. (1..sCount) \cup {sCount + 1} = 1..(sCount + 1) /\ sCount + 1 \notin 1..sCount
        BY <3>4
      <3>6. (Len(queue) + 1) + Len(<<>>) = sCount + 1
        BY <3>2, <3>3, <3>4
      <3> QED
        BY <3>1, <3>2, <3>3, <3>4, <3>5, <3>6 DEF Items
    <2> QED
      BY <2>1, <2>2
  <1> HIDE DEF item
  <1>4. queue' = Append(queue, item)
    <2>1. CASE queue = <<>>
      BY <1>2, <2>1
    <2>2. CASE queue # <<>>
      <3>1. sLast = queue[Len(queue)]
        BY <1>1, <2>2
      <3>2. LinkAfter(queue, queue[Len(queue)], item) = Append(queue, item)
        BY <1>1, <1>3, <2>2, LinkAfterLast, Zenon
      <3> QED
        BY <1>2, <2>2, <3>1, <3>2
    <2> QED
      BY <2>1, <2>2
  <1> QED
    BY <1>2, <1>3, <1>4

\* The item run leaves the queue for the unused ones.
LEMMA RecycleEffect ==
    ASSUME Inv, Recycle
    PROVE  /\ queue # <<>> /\ queue' = Tail(queue) /\ Len(Tail(queue)) = Len(queue) - 1
           /\ queue' \in Seq(Items) /\ unused' \in Seq(Items)
           /\ Shared' /\ LastInv'
           /\ \A k \in Range(queue) : k # Head(queue) => k \in Range(Tail(queue))
  <1>1. /\ queue \in Seq(Items) /\ unused \in Seq(Items) /\ sCount \in 0..MaxCount /\ queue # <<>>
        /\ IsInjective(queue) /\ IsInjective(unused)
        /\ Range(queue) \cap Range(unused) = {} /\ Range(queue) \cup Range(unused) = 1..sCount
        /\ Len(queue) + Len(unused) = sCount /\ Len(queue) \in Nat \ {0} /\ Len(unused) \in Nat
        /\ sLast = queue[Len(queue)]
    BY LenProperties, EmptySeq DEF Inv, TypeOK, Shared, LastInv, Recycle
  <1> DEFINE h == Head(queue)
  <1>2. /\ queue' = Tail(queue) /\ unused' = <<h>> \o unused /\ sCount' = sCount
        /\ sLast' = IF sLast = h THEN None ELSE sLast
    BY DEF Recycle
  <1>3. /\ Tail(queue) \in Seq(Items) /\ Len(Tail(queue)) = Len(queue) - 1 /\ h \in Items /\ h = queue[1]
        /\ \A k \in 1..Len(Tail(queue)) : Tail(queue)[k] = queue[k + 1]
    BY <1>1, HeadTailProperties
  <1>4. /\ Range(queue) = {h} \cup Range(Tail(queue))
        /\ IsInjective(Tail(queue)) /\ h \notin Range(Tail(queue))
    BY <1>1, RemoveItem
  <1>5. h \notin Range(unused)
    BY <1>1, <1>4
  <1>6. /\ <<h>> \o unused \in Seq(Items) /\ Len(<<h>> \o unused) = Len(unused) + 1
        /\ Range(<<h>> \o unused) = {h} \cup Range(unused)
        /\ IsInjective(<<h>> \o unused)
    BY <1>1, <1>3, <1>5, PushItem
  <1>7. Len(Tail(queue)) + Len(<<h>> \o unused) = sCount
    BY <1>1, <1>3, <1>6
  <1>8. Shared'
    <2>1. /\ Range(Tail(queue)) \cap Range(<<h>> \o unused) = {}
          /\ Range(Tail(queue)) \cup Range(<<h>> \o unused) = 1..sCount
      BY <1>1, <1>4, <1>5, <1>6
    <2> QED
      BY <1>2, <1>4, <1>6, <1>7, <2>1 DEF Shared
  <1>9. LastInv'
    <2>1. CASE Len(queue) = 1
      <3>1. Tail(queue) = <<>> /\ sLast = h
        <4>1. Len(Tail(queue)) = 0
          BY <1>3, <2>1
        <4>2. Tail(queue) = <<>>
          BY <1>3, <4>1, EmptySeq
        <4> QED
          BY <1>1, <1>3, <2>1, <4>2
      <3> QED
        BY <1>2, <3>1 DEF LastInv
    <2>2. CASE Len(queue) # 1
      <3>1. Len(Tail(queue)) \in 1..Len(Tail(queue)) /\ Len(Tail(queue)) + 1 = Len(queue)
        BY <1>1, <1>3, <2>2
      <3>2. Tail(queue)[Len(Tail(queue))] = queue[Len(queue)] /\ Tail(queue) # <<>>
        <4>1. Tail(queue)[Len(Tail(queue))] = queue[Len(Tail(queue)) + 1]
          BY <1>3, <3>1
        <4>2. Tail(queue) # <<>>
          <5>1. Len(Tail(queue)) # 0
            BY <1>1, <1>3, <2>2
          <5> QED
            BY <5>1, EmptySeq, Zenon
        <4>3. Tail(queue)[Len(Tail(queue))] = queue[Len(queue)]
          BY <3>1, <4>1
        <4> QED
          BY <4>2, <4>3
      <3>3. sLast # h
        BY <1>1, <1>3, <2>2, LenProperties DEF IsInjective
      <3> QED
        BY <1>1, <1>2, <3>2, <3>3 DEF LastInv
    <2> QED
      BY <2>1, <2>2
  <1> QED
    BY <1>1, <1>2, <1>3, <1>4, <1>6, <1>8, <1>9

LEMMA ScheduleStep ==
    ASSUME Inv, ScheduleFunction
    PROVE  Inv'
  <1>1. PICK item \in Items :
             /\ item \notin Range(queue)
             /\ queue' = Append(queue, item) /\ sLast' = item
             /\ calls' = calls + 1 /\ calls < MaxCalls
             /\ mFunc' = [mFunc EXCEPT ![item] = calls + 1]
             /\ unused' \in Seq(Items) /\ IsInjective(unused')
             /\ (Range(queue) \cup {item}) \cap Range(unused') = {}
             /\ (Range(queue) \cup {item}) \cup Range(unused') = 1..sCount'
             /\ (Len(queue) + 1) + Len(unused') = sCount' /\ sCount' \in 0..MaxCount
    BY ScheduleEffect
  <1>2. TypeOK /\ Shared /\ OrderInv /\ StopInv /\ queue \in Seq(Items) /\ calls \in 0..MaxCalls
    BY DEF Inv, TypeOK
  <1>3. pc' = pc /\ stop' = stop /\ done' = done /\ ran' = ran
    BY DEF ScheduleFunction, pass
  <1>4. /\ Append(queue, item) \in Seq(Items) /\ Len(Append(queue, item)) = Len(queue) + 1 /\ Len(queue) \in Nat
        /\ \A k \in 1..Len(queue) : Append(queue, item)[k] = queue[k]
        /\ Append(queue, item)[Len(queue) + 1] = item
        /\ Append(queue, item) # <<>>
    BY <1>2, AppendProperties, LenProperties
  <1>5. Range(Append(queue, item)) = Range(queue) \cup {item} /\ IsInjective(Append(queue, item))
    BY <1>1, <1>2, AppendItem DEF Shared
  <1>6. calls \in Nat /\ calls + 1 \in 0..MaxCalls
    BY <1>1, <1>2, BoundAssumption
  <1>7. TypeOK'
    <2>1. [mFunc EXCEPT ![item] = calls + 1] \in [Items -> 0..MaxCalls]
      BY <1>2, <1>6 DEF TypeOK
    <2> QED
      BY <1>1, <1>2, <1>3, <1>4, <1>6, <2>1 DEF TypeOK
  <1>8. Shared'
    BY <1>1, <1>4, <1>5 DEF Shared
  <1>9. LastInv'
    BY <1>1, <1>4 DEF LastInv
  <1>10. OrderInv'
    <2>1. mFunc \in [Items -> Int]
      BY <1>2, BoundAssumption DEF TypeOK
    <2>2. Numbered(mFunc, queue, calls) /\ Counted(ran, (calls - Len(queue)) + Started) /\ Len(queue) <= calls
      BY <1>2 DEF OrderInv
    <2>3. Numbered([mFunc EXCEPT ![item] = calls + 1], Append(queue, item), calls + 1)
      BY <1>1, <1>2, <1>6, <2>1, <2>2, NumberedAppend
    <2>4. Started' = Started
      BY <1>3 DEF Started
    <2>5. (calls + 1) - Len(Append(queue, item)) = calls - Len(queue) /\ Len(Append(queue, item)) <= calls + 1
      BY <1>4, <1>6, <2>2
    <2>6. Counted(ran', (calls' - Len(queue')) + Started')
      BY <1>1, <1>3, <2>2, <2>4, <2>5
    <2> QED
      BY <1>1, <2>3, <2>5, <2>6 DEF OrderInv
  <1>11. StopInv'
    <2>1. pc = "run" => Head(Append(queue, item)) = Head(queue)
      <3>1. pc = "run" => queue # <<>>
        BY <1>2 DEF TypeOK
      <3> QED
        BY <1>2, <3>1, HeadTailAppend
    <2> QED
      BY <1>1, <1>2, <1>3, <1>5, <2>1 DEF StopInv
  <1> QED
    BY <1>7, <1>8, <1>9, <1>10, <1>11 DEF Inv

LEMMA RecycleStep ==
    ASSUME Inv, Recycle
    PROVE  Inv'
  <1>1. /\ queue # <<>> /\ queue' = Tail(queue) /\ Len(Tail(queue)) = Len(queue) - 1
        /\ queue' \in Seq(Items) /\ unused' \in Seq(Items)
        /\ Shared' /\ LastInv'
        /\ \A k \in Range(queue) : k # Head(queue) => k \in Range(Tail(queue))
    BY RecycleEffect
  <1>2. /\ pc = "run" /\ pc' = "test"
        /\ sLast' = (IF sLast = Head(queue) THEN None ELSE sLast)
        /\ mFunc' = [mFunc EXCEPT ![Head(queue)] = None]
        /\ sCount' = sCount /\ stop' = stop /\ done' = done /\ calls' = calls /\ ran' = ran
    BY DEF Recycle
  <1>3. /\ TypeOK /\ OrderInv /\ StopInv /\ IsInjective(queue) /\ queue \in Seq(Items) /\ calls \in Nat
        /\ Len(queue) \in Nat \ {0}
    BY <1>1, BoundAssumption, EmptySeq DEF Inv, TypeOK, Shared
  <1>4. TypeOK'
    <2>1. [mFunc EXCEPT ![Head(queue)] = None] \in [Items -> 0..MaxCalls]
      BY <1>3, BoundAssumption DEF TypeOK, None
    <2>2. sLast' \in Items \cup {None}
      BY <1>2, <1>3 DEF TypeOK
    <2> QED
      BY <1>1, <1>2, <1>3, <2>1, <2>2 DEF TypeOK
  <1>5. OrderInv'
    <2>1. mFunc \in [Items -> Int] /\ None \in Int
      BY <1>3, BoundAssumption DEF TypeOK, None
    <2>2. Numbered(mFunc, queue, calls) /\ Counted(ran, (calls - Len(queue)) + Started) /\ Len(queue) <= calls
      BY <1>3 DEF OrderInv
    <2>3. Numbered([mFunc EXCEPT ![Head(queue)] = None], Tail(queue), calls)
      BY <1>1, <1>3, <2>1, <2>2, NumberedTail
    <2>4. Started = 1 /\ Started' = 0
      BY <1>2 DEF Started
    <2>5. (calls - Len(Tail(queue))) + 0 = (calls - Len(queue)) + 1 /\ Len(Tail(queue)) <= calls
      BY <1>1, <1>3, <2>2
    <2>6. Counted(ran', (calls' - Len(queue')) + Started')
      BY <1>1, <1>2, <2>2, <2>4, <2>5
    <2> QED
      BY <1>1, <1>2, <2>3, <2>5, <2>6 DEF OrderInv
  <1>6. StopInv'
    BY <1>1, <1>2, <1>3 DEF StopInv
  <1> QED
    BY <1>1, <1>4, <1>5, <1>6 DEF Inv

LEMMA RunFirstStep ==
    ASSUME Inv, RunFirst
    PROVE  Inv'
  <1>1. /\ pc = "test" /\ pc' = "run" /\ queue # <<>> /\ ~done
        /\ done' = (Head(queue) = stop)
        /\ ran' = Append(ran, mFunc[Head(queue)])
        /\ queue' = queue /\ sLast' = sLast /\ unused' = unused /\ sCount' = sCount /\ mFunc' = mFunc
        /\ stop' = stop /\ calls' = calls
    BY DEF RunFirst, lists
  <1>2. /\ TypeOK /\ Shared /\ LastInv /\ OrderInv /\ StopInv /\ queue \in Seq(Items)
        /\ ran \in Seq(1..MaxCalls) /\ calls \in 0..MaxCalls /\ calls \in Nat /\ Len(queue) \in Nat \ {0}
    BY <1>1, BoundAssumption, EmptySeq DEF Inv, TypeOK
  <1>3. Len(queue) <= calls /\ Numbered(mFunc, queue, calls) /\ Counted(ran, calls - Len(queue))
    <2>1. Started = 0
      BY <1>1 DEF Started
    <2>2. Counted(ran, (calls - Len(queue)) + 0) /\ (calls - Len(queue)) + 0 = calls - Len(queue)
      BY <1>2, <2>1 DEF OrderInv
    <2> QED
      BY <1>2, <2>2 DEF OrderInv
  <1>4. mFunc[Head(queue)] = (calls - Len(queue)) + 1
    <2>1. 1 \in 1..Len(queue) /\ Head(queue) = queue[1]
      BY <1>2
    <2> QED
      BY <1>3, <2>1 DEF Numbered
  <1>5. calls - Len(queue) \in Nat /\ (calls - Len(queue)) + 1 \in 1..MaxCalls
    BY <1>2, <1>3, BoundAssumption
  <1>6. Append(ran, mFunc[Head(queue)]) \in Seq(1..MaxCalls)
    BY <1>2, <1>4, <1>5, AppendProperties
  <1>7. TypeOK'
    BY <1>1, <1>2, <1>6 DEF TypeOK
  <1>8. OrderInv'
    <2>1. Counted(Append(ran, mFunc[Head(queue)]), (calls - Len(queue)) + 1)
      BY <1>2, <1>3, <1>4, <1>5, CountedAppend
    <2>2. Started' = 1
      BY <1>1 DEF Started
    <2> QED
      BY <1>1, <1>3, <2>1, <2>2 DEF OrderInv
  <1>9. Shared' /\ LastInv' /\ StopInv'
    BY <1>1, <1>2 DEF Shared, LastInv, StopInv
  <1> QED
    BY <1>7, <1>8, <1>9 DEF Inv

LEMMA InvStep == Inv /\ [Next]_vars => Inv'
  <1> SUFFICES ASSUME Inv, [Next]_vars PROVE Inv'
    OBVIOUS
  <1>1. CASE PassBegin
    <2>1. /\ pc = "loop" /\ pc' = "test" /\ stop' = sLast /\ done' = FALSE
          /\ queue' = queue /\ sLast' = sLast /\ unused' = unused /\ sCount' = sCount /\ mFunc' = mFunc
          /\ calls' = calls /\ ran' = ran
      BY <1>1 DEF PassBegin, lists
    <2>2. TypeOK'
      <3>1. done' \in BOOLEAN
        BY <2>1
      <3>2. TypeOK
        BY DEF Inv
      <3> QED
        BY <2>1, <3>1, <3>2 DEF TypeOK
    <2>3. Shared' /\ LastInv'
      BY <2>1 DEF Inv, Shared, LastInv
    <2>4. OrderInv'
      <3>1. Started' = Started
        BY <2>1 DEF Started
      <3> QED
        BY <2>1, <3>1 DEF Inv, OrderInv
    <2>5. StopInv'
      <3>1. queue # <<>> => queue[Len(queue)] \in Range(queue)
        BY EmptySeq, LenProperties DEF Inv, TypeOK, Range
      <3> QED
        BY <2>1, <3>1 DEF Inv, LastInv, StopInv
    <2> QED
      BY <2>2, <2>3, <2>4, <2>5 DEF Inv
  <1>2. CASE PassEnd
    <2>1. /\ pc = "test" /\ pc' = "loop" /\ stop' = stop /\ done' = done
          /\ queue' = queue /\ sLast' = sLast /\ unused' = unused /\ sCount' = sCount /\ mFunc' = mFunc
          /\ calls' = calls /\ ran' = ran
      BY <1>2 DEF PassEnd, lists
    <2>2. TypeOK' /\ Shared' /\ LastInv' /\ StopInv'
      BY <2>1 DEF Inv, TypeOK, Shared, LastInv, StopInv
    <2>3. OrderInv'
      <3>1. Started' = Started
        BY <2>1 DEF Started
      <3> QED
        BY <2>1, <3>1 DEF Inv, OrderInv
    <2> QED
      BY <2>2, <2>3 DEF Inv
  <1>3. CASE UNCHANGED vars
    BY <1>3 DEF Inv, TypeOK, Shared, LastInv, OrderInv, StopInv, Numbered, Counted, Started, vars, lists, pass
  <1> QED
    BY <1>1, <1>2, <1>3, ScheduleStep, RunFirstStep, RecycleStep DEF Next, Loop

-----------------------------------------------------------------------------
(* What the invariant says of the properties.                              *)

LEMMA ItemsOfInv == Inv => NoItemLeaks
  BY DEF Inv, Shared, NoItemLeaks

LEMMA StopOfInv == Inv => StopEndsThePass
  <1> SUFFICES ASSUME Inv, pc = "run", stop # None
               PROVE  stop \in Range(queue) /\ mFunc[Head(queue)] <= mFunc[stop]
    BY DEF StopEndsThePass
  <1>1. /\ stop \in Range(queue) /\ queue # <<>> /\ queue \in Seq(Items) /\ calls \in Nat
        /\ Numbered(mFunc, queue, calls)
    BY BoundAssumption DEF Inv, TypeOK, StopInv, OrderInv
  <1>2. Len(queue) \in Nat \ {0} /\ DOMAIN queue = 1..Len(queue)
    BY <1>1, EmptySeq, LenProperties
  <1>3. PICK k \in 1..Len(queue) : queue[k] = stop
    BY <1>1, <1>2 DEF Range
  <1>4. mFunc[queue[k]] = (calls - Len(queue)) + k /\ mFunc[queue[1]] = (calls - Len(queue)) + 1
    BY <1>1, <1>2 DEF Numbered
  <1>5. (calls - Len(queue)) + 1 <= (calls - Len(queue)) + k
    BY <1>1, <1>2
  <1> QED
    BY <1>1, <1>3, <1>4, <1>5

LEMMA OrderOfInv == Inv => RunOnceInOrder
  <1> SUFFICES ASSUME Inv PROVE RunOnceInOrder
    OBVIOUS
  <1> DEFINE held == [k \in 1..Len(queue) |-> mFunc[queue[k]]]
  <1> DEFINE all == [k \in 1..calls |-> k]
  <1>1. /\ queue \in Seq(Items) /\ Len(queue) \in Nat /\ calls \in Nat /\ Len(queue) <= calls
        /\ mFunc \in [Items -> Int] /\ ran \in Seq(Int)
        /\ Numbered(mFunc, queue, calls) /\ Counted(ran, (calls - Len(queue)) + Started)
        /\ pc = "run" => queue # <<>>
    <2>1. ran \in Seq(1..MaxCalls) /\ 1..MaxCalls \subseteq Int
      BY BoundAssumption DEF Inv, TypeOK
    <2>2. ran \in Seq(Int)
      BY <2>1, SeqMonotonic
    <2> QED
      BY <2>2, BoundAssumption, LenProperties DEF Inv, TypeOK, OrderInv
  <1>2. /\ held \in Seq(Int) /\ Len(held) = Len(queue)
        /\ \A k \in 1..Len(queue) : held[k] = (calls - Len(queue)) + k
    <2>1. \A k \in 1..Len(queue) : mFunc[queue[k]] \in Int
      BY <1>1, ElementOfSeq
    <2>2. held \in Seq(Int) /\ Len(held) = Len(queue)
      BY <1>1, <2>1, IsASeq, LenProperties
    <2> QED
      BY <1>1, <2>2 DEF Numbered
  <1>3. /\ Waiting \in Seq(Int) /\ Len(Waiting) = Len(queue) - Started
        /\ \A k \in 1..(Len(queue) - Started) : Waiting[k] = ((calls - Len(queue)) + Started) + k
    <2>1. CASE pc = "run"
      <3>1. Started = 1 /\ Waiting = Tail(held)
        BY <2>1 DEF Started, Waiting
      <3>2. Len(held) \in Nat \ {0} /\ held # <<>>
        <4>1. Len(queue) # 0
          BY <1>1, <2>1, EmptySeq
        <4> QED
          BY <1>1, <1>2, <4>1, EmptySeq
      <3> HIDE DEF held
      <3>3. /\ Tail(held) \in Seq(Int) /\ Len(Tail(held)) = Len(queue) - 1
            /\ \A k \in 1..Len(Tail(held)) : Tail(held)[k] = held[k + 1]
        BY <1>2, <3>2, HeadTailProperties
      <3>4. ASSUME NEW k \in 1..(Len(queue) - 1)
            PROVE  Tail(held)[k] = ((calls - Len(queue)) + 1) + k
        <4>1. k + 1 \in 1..Len(queue) /\ k \in 1..Len(Tail(held))
          BY <1>1, <3>3
        <4>2. Tail(held)[k] = held[k + 1]
          BY <3>3, <4>1
        <4>3. held[k + 1] = (calls - Len(queue)) + (k + 1)
          BY <1>2, <4>1
        <4>4. (calls - Len(queue)) + (k + 1) = ((calls - Len(queue)) + 1) + k
          BY <1>1
        <4> QED
          BY <4>2, <4>3, <4>4
      <3> QED
        BY <3>1, <3>3, <3>4
    <2>2. CASE pc # "run"
      <3>1. Started = 0 /\ Waiting = held
        BY <2>2 DEF Started, Waiting
      <3> HIDE DEF held
      <3> QED
        BY <1>1, <1>2, <3>1
    <2> QED
      BY <2>1, <2>2
  <1> HIDE DEF held
  <1>4. PICK n \in Nat : n = (calls - Len(queue)) + Started
    <2>1. calls - Len(queue) \in Nat
      BY <1>1
    <2>2. Started \in Nat
      BY DEF Started
    <2>3. (calls - Len(queue)) + Started \in Nat
      BY <2>1, <2>2
    <2> QED
      BY <2>3
  <1>5. Len(Waiting) = calls - n /\ \A k \in 1..(calls - n) : Waiting[k] = n + k
    <2>1. Len(queue) - Started = calls - n /\ Started \in Int
      BY <1>1, <1>4 DEF Started
    <2> QED
      BY <1>3, <1>4, <2>1
  <1>6. Len(ran) = n /\ \A k \in 1..n : ran[k] = k
    BY <1>1, <1>4 DEF Counted
  <1>7. all \in Seq(Int) /\ Len(all) = calls
    BY <1>1, IsASeq, LenProperties
  <1>8. /\ ran \o Waiting \in Seq(Int) /\ Len(ran \o Waiting) = calls
        /\ \A k \in 1..calls : (ran \o Waiting)[k] = k
    <2>1. ran \o Waiting \in Seq(Int) /\ Len(ran \o Waiting) = Len(ran) + Len(Waiting)
      BY <1>1, <1>3, ConcatProperties
    <2>2. n + (calls - n) = calls
      BY <1>1
    <2>3. Len(ran \o Waiting) = calls
      BY <1>5, <1>6, <2>1, <2>2
    <2>4. ASSUME NEW k \in 1..calls
          PROVE  (ran \o Waiting)[k] = k
      <3>1. (ran \o Waiting)[k] = IF k <= Len(ran) THEN ran[k] ELSE Waiting[k - Len(ran)]
        BY <1>1, <1>3, <2>1, <2>3, ConcatProperties
      <3>2. CASE k <= n
        BY <1>6, <3>1, <3>2
      <3>3. CASE ~(k <= n)
        <4>1. k - n \in 1..(calls - n) /\ n + (k - n) = k
          BY <1>1, <3>3
        <4> QED
          BY <1>5, <1>6, <3>1, <3>3, <4>1
      <3> QED
        BY <3>2, <3>3
    <2> QED
      BY <2>1, <2>3, <2>4
  <1>9. \A k \in 1..calls : all[k] = k
    OBVIOUS
  <1> HIDE DEF all
  <1>10. ran \o Waiting = all
    BY <1>7, <1>8, <1>9, SeqEqual
  <1> QED
    BY <1>10 DEF RunOnceInOrder, all

-----------------------------------------------------------------------------
(* The theorems.                                                           *)

\* Every variable keeps its type; above all the pointers and lists hold no
\* item beyond the limit (get_fn_unsafe), and a function is run only while
\* its item is still queued (run_scheduled_functions).
THEOREM TypeCorrect == Spec => []TypeOK
  <1>1. Inv => TypeOK
    BY DEF Inv
  <1> QED
    BY InvInit, InvStep, <1>1, PTL DEF Spec

\* Each item is queued or unused and never both, whatever is scheduled between
\* two steps of a pass (get_fn_unsafe, recycle_fn_unsafe).
THEOREM NoItemEverLeaks == Spec => []NoItemLeaks
  BY InvInit, InvStep, ItemsOfInv, PTL DEF Spec

\* A pass runs nothing scheduled after it read sLast, provided it then found
\* an item (run_scheduled_functions, stop).
THEOREM StopAlwaysEndsThePass == Spec => []StopEndsThePass
  BY InvInit, InvStep, StopOfInv, PTL DEF Spec

\* What has been run, then what waits, are the calls 1, 2, 3, ... in order
\* (schedule_function, run_scheduled_functions).
THEOREM AlwaysRunOnceInOrder == Spec => []RunOnceInOrder
  BY InvInit, InvStep, OrderOfInv, PTL DEF Spec

-----------------------------------------------------------------------------
(* A step of the task is a step of Schedule or leaves its variables alone. *)

LEMMA TaskStep == [TaskNext]_taskVars => [Next]_vars
  <1>1. Schedules => ScheduleFunction
    BY DEF Schedules
  <1>2. SchedulesRecurrent \/ Posts \/ TimerFires => UNCHANGED vars
    BY DEF SchedulesRecurrent, Posts, TimerFires
  <1>3. Yields \/ Delays \/ PassYields => UNCHANGED vars
    BY DEF Yields, Delays, PassYields, Sleep
  <1>4. RunTask \/ Resume \/ RecurrentStep \/ RecurrentReturns \/ RecurrentEnds => UNCHANGED vars
    BY DEF RunTask, Resume, RecurrentStep, RecurrentReturns, RecurrentEnds
  <1>5. LoopReturns => PassBegin
    BY DEF LoopReturns
  <1>6. ScheduledStep => RunFirst
    BY DEF ScheduledStep
  <1>7. ScheduledReturns => Recycle
    BY DEF ScheduledReturns
  <1>8. ScheduledEnds => PassEnd
    BY DEF ScheduledEnds
  <1>9. LoopEnd => UNCHANGED vars
    BY DEF LoopEnd
  <1>10. UNCHANGED taskVars => UNCHANGED vars
    BY DEF taskVars
  <1>11. ScheduleFunction \/ PassBegin \/ PassEnd \/ RunFirst \/ Recycle => Next
    BY DEF Next, Loop
  <1> QED
    BY <1>1, <1>2, <1>3, <1>4, <1>5, <1>6, <1>7, <1>8, <1>9, <1>10, <1>11 DEF TaskNext, Steps

LEMMA TaskStart == TaskInit => Init
  BY DEF TaskInit

\* The task runs scheduled functions by the steps of Schedule and no others:
\* what Schedule says of its queue needs no rule on when a pass begins
\* (loop_end, core_esp8266_main.cpp:181-185).
THEOREM TaskRunsThePass == TaskSpec => Init /\ [][Next]_vars
  BY TaskStart, TaskStep, PTL DEF TaskSpec

\* Functions scheduled while the sketch sleeps, while a pass yields or by a
\* recurrent function are run once and in the order of the calls.
THEOREM TaskRunsOnceInOrder == TaskSpec => []RunOnceInOrder
  BY TaskRunsThePass, InvInit, InvStep, OrderOfInv, PTL

\* No yield makes the pool lose an item (get_fn_unsafe, recycle_fn_unsafe).
THEOREM TaskLeaksNoItem == TaskSpec => []NoItemLeaks
  BY TaskRunsThePass, InvInit, InvStep, ItemsOfInv, PTL

\* A pass that found something to do ends, although it yields and functions are
\* scheduled meanwhile.
THEOREM TaskStopEndsThePass == TaskSpec => []StopEndsThePass
  BY TaskRunsThePass, InvInit, InvStep, StopOfInv, PTL

-----------------------------------------------------------------------------
(* Waking.  Between two turns nothing sleeps and no pass runs; there is one *)
(* pass of recurrent functions at most, and the fence tells whether.        *)

OnePass == active = <<>> \/ \E p : active = <<p>>

WakeInv ==
    /\ OnePass /\ (fence <=> active # <<>>)
    /\ phase = "idle" => active = <<>> /\ state = "running"
    /\ SleeperIsWoken

LEMMA WakeInit == TaskInit => WakeInv
  BY DEF TaskInit, WakeInv, OnePass, SleeperIsWoken, R!Init

\* The stack of one pass: replacing its top, taking it off.
LEMMA Singleton ==
    ASSUME NEW p
    PROVE  /\ Front(<<p>>) = <<>> /\ Last(<<p>>) = p
           /\ \A x : Front(<<p>>) \o <<x>> = <<x>>
           /\ Append(<<>>, p) = <<p>> /\ <<p>> # <<>>
  <1>1. Front(<<p>>) = <<>>
    BY DEF Front
  <1>2. Last(<<p>>) = p
    BY DEF Last
  <1>3. \A x : <<>> \o <<x>> = <<x>>
    OBVIOUS
  <1>4. Append(<<>>, p) = <<p>> /\ <<p>> # <<>>
    OBVIOUS
  <1> QED
    BY <1>1, <1>2, <1>3, <1>4

\* What the steps of a pass do to the stack.
LEMMA StackSteps ==
    ASSUME WakeInv
    PROVE  /\ R!Enter => fence' /\ (\E p : active' = <<p>>)
           /\ R!Begin \/ R!Call \/ R!Skip \/ R!Keep \/ R!Cancel =>
                  active # <<>> /\ fence' = fence /\ (\E p : active' = <<p>>)
           /\ R!Leave => active # <<>> /\ ~fence' /\ active' = <<>>
           /\ R!EnterReturns \/ R!ScheduleRecurrent => UNCHANGED <<active, fence>>
  <1>1. OnePass /\ (fence <=> active # <<>>)
    BY DEF WakeInv
  <1>2. R!Enter => fence' /\ (\E p : active' = <<p>>)
    <2> SUFFICES ASSUME R!Enter PROVE fence' /\ (\E p : active' = <<p>>)
      OBVIOUS
    <2>1. ~fence /\ fence' = TRUE /\ \E p : active' = Append(active, p)
      BY DEF R!Enter, R!Fenced
    <2>2. PICK p : active' = Append(active, p)
      BY <2>1
    <2> QED
      BY <1>1, <2>1, <2>2, Singleton
  <1>3. ASSUME NEW q, active # <<>>, R!Becomes(q)
        PROVE  \E p : active' = <<p>>
    <2>1. PICK p : active = <<p>>
      BY <1>1, <1>3 DEF OnePass
    <2>2. active' = Front(active) \o <<q>>
      BY <1>3 DEF R!Becomes, R!Front, Front
    <2> QED
      BY <2>1, <2>2, Singleton
  <1>4. R!Begin => active # <<>> /\ fence' = fence /\ (\E p : active' = <<p>>)
    BY <1>3 DEF R!Begin, R!At
  <1>5. R!Call => active # <<>> /\ fence' = fence /\ (\E p : active' = <<p>>)
    BY <1>3 DEF R!Call, R!At
  <1>6. R!Skip => active # <<>> /\ fence' = fence /\ (\E p : active' = <<p>>)
    BY <1>3 DEF R!Skip, R!At
  <1>7. R!Keep => active # <<>> /\ fence' = fence /\ (\E p : active' = <<p>>)
    BY <1>3 DEF R!Keep, R!At
  <1>8. R!Cancel => active # <<>> /\ fence' = fence /\ (\E p : active' = <<p>>)
    BY <1>3 DEF R!Cancel, R!At
  <1>9. R!Leave => active # <<>> /\ ~fence' /\ active' = <<>>
    <2> SUFFICES ASSUME R!Leave PROVE active # <<>> /\ ~fence' /\ active' = <<>>
      OBVIOUS
    <2>1. active # <<>> /\ fence' = FALSE /\ active' = Front(active)
      BY DEF R!Leave, R!At, R!Front, Front
    <2>2. PICK p : active = <<p>>
      BY <1>1, <2>1 DEF OnePass
    <2> QED
      BY <2>1, <2>2, Singleton
  <1>10. R!EnterReturns \/ R!ScheduleRecurrent => UNCHANGED <<active, fence>>
    BY DEF R!EnterReturns, R!ScheduleRecurrent, R!vars
  <1> QED
    BY <1>2, <1>4, <1>5, <1>6, <1>7, <1>8, <1>9, <1>10

LEMMA WakeStep == WakeInv /\ [TaskNext]_taskVars => WakeInv'
  <1> SUFFICES ASSUME WakeInv, [TaskNext]_taskVars PROVE WakeInv'
    OBVIOUS
  <1>0. /\ OnePass /\ (fence <=> active # <<>>)
        /\ phase = "idle" => active = <<>> /\ state = "running"
        /\ state = "asleep" \/ phase = "idle" => event \/ timer
    BY DEF WakeInv, SleeperIsWoken
  <1>a. UNCHANGED <<active, fence>> => OnePass' /\ (fence <=> active # <<>>)'
    BY <1>0 DEF OnePass
  <1>b. fence' = fence /\ active # <<>> /\ (\E p : active' = <<p>>) => OnePass' /\ (fence <=> active # <<>>)'
    BY <1>0, Singleton DEF OnePass
  \* What schedules a function, or ends in the steps that run scheduled ones
  <1>1. CASE Schedules \/ ScheduledStep \/ ScheduledReturns
    <2>1. UNCHANGED <<active, fence, phase, event, timer, state>>
      BY <1>1 DEF Schedules, ScheduledStep, ScheduledReturns, recurrent, task
    <2> QED
      BY <1>0, <1>a, <2>1 DEF WakeInv, SleeperIsWoken
  <1>2. CASE SchedulesRecurrent
    <2>1. UNCHANGED <<active, fence, phase, event, timer, state>>
      BY <1>2, StackSteps DEF SchedulesRecurrent, task
    <2> QED
      BY <1>0, <1>a, <2>1 DEF WakeInv, SleeperIsWoken
  <1>3. CASE Posts \/ TimerFires
    <2>1. UNCHANGED <<active, fence, phase, state>> /\ event' = TRUE
      BY <1>3 DEF Posts, TimerFires, recurrent
    <2> QED
      BY <1>0, <1>a, <2>1 DEF WakeInv, SleeperIsWoken
  <1>4. CASE Yields \/ Delays \/ PassYields
    <2>1. UNCHANGED <<active, fence, phase>> /\ (event' = TRUE \/ timer' = TRUE)
      BY <1>4 DEF Yields, Delays, PassYields, Sleep, recurrent
    <2>2. phase # "idle"
      <3>1. R!At("run") \/ R!At("item") \/ R!At("over") => active # <<>>
        BY DEF R!At
      <3> QED
        BY <1>0, <1>4, <3>1 DEF Yields, Delays, PassYields, UserCode, InLoop, InScheduled, InRecurrent
    <2> QED
      BY <1>0, <1>a, <2>1, <2>2 DEF WakeInv, SleeperIsWoken
  <1>5. CASE RunTask
    <2>1. UNCHANGED <<active, fence>>
      BY <1>5 DEF RunTask, recurrent
    <2>2. phase' # "idle" /\ state' # "asleep"
      BY <1>0, <1>5 DEF RunTask, Return
    <2> QED
      BY <1>a, <2>1, <2>2 DEF WakeInv, SleeperIsWoken
  <1>6. CASE Resume
    <2>1. phase' = phase /\ phase # "idle" /\ state' = "running"
      BY <1>0, <1>6 DEF Resume, Return
    <2>2. OnePass' /\ (fence <=> active # <<>>)'
      <3>1. R!Enter \/ R!EnterReturns
        BY <1>6 DEF Resume
      <3>2. CASE R!Enter
        BY <3>2, StackSteps, Singleton DEF OnePass
      <3>3. CASE R!EnterReturns
        BY <1>a, <3>3, StackSteps
      <3> QED
        BY <3>1, <3>2, <3>3
    <2> QED
      BY <2>1, <2>2 DEF WakeInv, SleeperIsWoken
  <1>7. CASE RecurrentStep \/ RecurrentReturns
    <2>1. UNCHANGED <<phase, event, timer, state>> /\ state = "running"
      BY <1>7 DEF RecurrentStep, RecurrentReturns, task
    <2>2. active # <<>> /\ fence' = fence /\ (\E p : active' = <<p>>)
      BY <1>7, StackSteps DEF RecurrentStep, RecurrentReturns
    <2> QED
      BY <1>0, <1>b, <2>1, <2>2 DEF WakeInv, SleeperIsWoken
  <1>8. CASE RecurrentEnds
    <2>1. active # <<>> /\ ~fence' /\ active' = <<>> /\ state = "running"
      BY <1>8, StackSteps DEF RecurrentEnds
    <2>2. \/ state' = "running" /\ phase' = phase
          \/ state' = "running" /\ phase' = "idle" /\ event' = TRUE
      BY <1>8, <2>1 DEF RecurrentEnds, Return, TurnEnds
    <2> QED
      BY <1>0, <2>1, <2>2 DEF WakeInv, SleeperIsWoken, OnePass
  <1>9. CASE LoopReturns \/ ScheduledEnds
    <2>1. UNCHANGED <<active, fence, state>> /\ phase' # "idle" /\ state = "running"
      BY <1>9 DEF LoopReturns, ScheduledEnds, recurrent
    <2> QED
      BY <1>a, <2>1 DEF WakeInv, SleeperIsWoken
  <1>10. CASE LoopEnd
    <2>1. CASE R!Enter /\ UNCHANGED <<phase, event>>
      <3>1. phase' = "recurrent" /\ state' = "running"
        BY <1>10, <2>1 DEF LoopEnd
      <3>2. OnePass' /\ (fence <=> active # <<>>)'
        BY <2>1, StackSteps, Singleton DEF OnePass
      <3> QED
        BY <3>1, <3>2 DEF WakeInv, SleeperIsWoken
    <2>2. CASE R!EnterReturns /\ TurnEnds
      <3>1. active' = <<>> /\ state' = "running" /\ event' = TRUE /\ UNCHANGED <<active, fence>>
        BY <1>10, <2>2, StackSteps DEF LoopEnd, TurnEnds
      <3> QED
        BY <1>a, <3>1 DEF WakeInv, SleeperIsWoken
    <2> QED
      BY <1>10, <2>1, <2>2 DEF LoopEnd
  <1>11. CASE UNCHANGED taskVars
    <2>1. UNCHANGED <<active, fence, phase, event, timer, state>>
      BY <1>11 DEF taskVars, recurrent, task
    <2> QED
      BY <1>0, <1>a, <2>1 DEF WakeInv, SleeperIsWoken
  <1> QED
    BY <1>1, <1>2, <1>3, <1>4, <1>5, <1>6, <1>7, <1>8, <1>9, <1>10, <1>11 DEF TaskNext, Steps

\* Whenever the sketch has given the processor back, or a turn of loop() has
\* ended, an event waits or the timer is armed: delays may nest, share the
\* timer, be cut short, and disarm it for each other (__delay, yield,
\* loop_wrapper).
THEOREM SleeperIsAlwaysWoken == TaskSpec => []SleeperIsWoken
  <1>1. WakeInv => SleeperIsWoken
    BY DEF WakeInv
  <1> QED
    BY WakeInit, WakeStep, <1>1, PTL DEF TaskSpec

-----------------------------------------------------------------------------
(* The list of recurrent functions.                                        *)

Ascending == \A j, k \in 1..Len(list) : j < k => list[j] < list[k]

\* Functions are numbered as they are scheduled; the list holds, in that
\* order, those that were not cancelled; rLast points to the last one.
ListInv ==
    /\ count \in Nat /\ cancelled \subseteq 1..count
    /\ list \in Seq(1..count) /\ Ascending
    /\ \A x \in 1..count : x \notin cancelled <=> \E k \in 1..Len(list) : list[k] = x
    /\ rLast = IF list = <<>> THEN 0 ELSE list[Len(list)]

LEMMA ListTypes ==
    ASSUME ListInv
    PROVE  /\ Len(list) \in Nat /\ DOMAIN list = 1..Len(list) /\ (list = <<>> <=> Len(list) = 0)
           /\ \A k \in 1..Len(list) : list[k] \in 1..count
  BY LenProperties, ElementOfSeq, EmptySeq DEF ListInv

\* The pointer to an item and the one in it.
LEMMA PosOf ==
    ASSUME ListInv, NEW k \in 1..Len(list)
    PROVE  /\ R!Pos(list[k]) = k
           /\ R!next(list[k]) = IF k = Len(list) THEN 0 ELSE list[k + 1]
  <1>1. \A j \in 1..Len(list) : list[j] = list[k] => j = k
    <2> SUFFICES ASSUME NEW j \in 1..Len(list), list[j] = list[k] PROVE j = k
      OBVIOUS
    <2>1. Len(list) \in Nat /\ list[j] \in Int /\ list[k] \in Int
      BY ListTypes DEF ListInv
    <2>2. j < k => list[j] < list[k]
      BY DEF ListInv, Ascending
    <2>3. k < j => list[k] < list[j]
      BY DEF ListInv, Ascending
    <2> QED
      BY <2>1, <2>2, <2>3
  <1>2. R!Pos(list[k]) = k
    BY <1>1 DEF R!Pos
  <1> QED
    BY <1>2 DEF R!next, R!None

\* Appending behind rLast loses nothing.
LEMMA Linked ==
    ASSUME ListInv, R!ScheduleRecurrent
    PROVE  list' = Append(list, count + 1) /\ count' = count + 1 /\ rLast' = count + 1
  <1>1. count' = count + 1 /\ rLast' = count + 1
    BY DEF R!ScheduleRecurrent
  <1>2. CASE list = <<>>
    <2>1. list' = <<count + 1>>
      BY <1>1, <1>2 DEF ListInv, R!ScheduleRecurrent, R!None
    <2> QED
      BY <1>1, <1>2, <2>1
  <1>3. CASE list # <<>>
    <2>1. Len(list) \in 1..Len(list) /\ rLast = list[Len(list)] /\ rLast # 0
      BY <1>3, ListTypes DEF ListInv
    <2>2. rLast \in R!Range(list) /\ R!Pos(rLast) = Len(list)
      BY <2>1, PosOf, ListTypes DEF R!Range
    <2>3. SubSeq(list, 1, Len(list)) = list
      BY SubSeqFull DEF ListInv
    <2>4. list' = R!LinkAfter(rLast, count + 1)
      BY <1>1, <2>1 DEF R!ScheduleRecurrent, R!None
    <2> QED
      BY <1>1, <2>2, <2>3, <2>4 DEF R!LinkAfter
  <1> QED
    BY <1>2, <1>3

\* The list without its k-th item.
Without(k) == [i \in 1..Len(list) - 1 |-> IF i < k THEN list[i] ELSE list[i + 1]]

\* Unlinking an item from what is before it takes out that one only.
LEMMA Unlinked ==
    ASSUME ListInv, NEW k \in 1..Len(list)
    PROVE  R!Unlink(IF k = 1 THEN 0 ELSE list[k - 1], list[k]) = Without(k)
  <1> DEFINE a == IF k = 1 THEN <<>> ELSE SubSeq(list, 1, k - 1)
             b == SubSeq(list, k + 1, Len(list))
  <1>1. Len(list) \in Nat /\ list \in Seq(1..count) /\ \A i \in 1..Len(list) : list[i] \in 1..count
    BY ListTypes DEF ListInv
  <1>2. R!Pos(list[k]) = k /\ (k # 1 => list[k - 1] # 0 /\ R!Pos(list[k - 1]) = k - 1)
    <2>1. R!Pos(list[k]) = k
      BY PosOf
    <2>2. ASSUME k # 1 PROVE list[k - 1] # 0 /\ R!Pos(list[k - 1]) = k - 1
      <3>1. k - 1 \in 1..Len(list)
        BY <1>1, <2>2
      <3>2. R!Pos(list[k - 1]) = k - 1
        BY <3>1, PosOf
      <3>3. list[k - 1] \in 1..count
        BY <1>1, <3>1
      <3> QED
        BY <3>2, <3>3
    <2> QED
      BY <2>1, <2>2
  <1>3. R!Unlink(IF k = 1 THEN 0 ELSE list[k - 1], list[k]) = a \o b
    BY <1>2 DEF R!Unlink, R!None
  <1>4. /\ a \in Seq(1..count) /\ Len(a) = k - 1
        /\ \A i \in 1..k - 1 : a[i] = list[i]
    <2>1. CASE k = 1
      BY <2>1, EmptySeq
    <2>2. CASE k # 1
      <3>1. \A i \in 1..k - 1 : list[i] \in 1..count
        BY <1>1
      <3>2. /\ SubSeq(list, 1, k - 1) \in Seq(1..count)
            /\ Len(SubSeq(list, 1, k - 1)) = IF 1 <= k - 1 THEN k - 1 - 1 + 1 ELSE 0
            /\ \A i \in 1..k - 1 - 1 + 1 : SubSeq(list, 1, k - 1)[i] = list[1 + i - 1]
        BY <3>1, SubSeqProperties
      <3> QED
        BY <1>1, <2>2, <3>2
    <2> QED
      BY <2>1, <2>2
  <1>5. /\ b \in Seq(1..count) /\ Len(b) = Len(list) - k
        /\ \A i \in 1..Len(list) - k : b[i] = list[k + i]
    <2>1. \A i \in k + 1..Len(list) : list[i] \in 1..count
      BY <1>1
    <2>2. /\ b \in Seq(1..count)
          /\ Len(b) = IF k + 1 <= Len(list) THEN Len(list) - (k + 1) + 1 ELSE 0
          /\ \A i \in 1..Len(list) - (k + 1) + 1 : b[i] = list[k + 1 + i - 1]
      BY <1>1, <2>1, SubSeqProperties
    <2> HIDE DEF b
    <2> QED
      BY <1>1, <2>2
  <1> HIDE DEF a, b
  <1>6. /\ a \o b \in Seq(1..count) /\ Len(a \o b) = Len(list) - 1
        /\ \A i \in 1..Len(list) - 1 : (a \o b)[i] = IF i <= k - 1 THEN a[i] ELSE b[i - (k - 1)]
    <2>1. /\ a \o b \in Seq(1..count) /\ Len(a \o b) = Len(a) + Len(b)
          /\ \A i \in 1..Len(a) + Len(b) : (a \o b)[i] = IF i <= Len(a) THEN a[i] ELSE b[i - Len(a)]
      BY <1>4, <1>5, ConcatProperties
    <2> QED
      BY <1>1, <1>4, <1>5, <2>1
  <1>7. \A i \in 1..Len(list) - 1 : (a \o b)[i] = IF i < k THEN list[i] ELSE list[i + 1]
    BY <1>1, <1>4, <1>5, <1>6
  <1>8. a \o b = Without(k)
    BY <1>1, <1>6, <1>7, LenProperties DEF Without
  <1> QED
    BY <1>3, <1>8

LEMMA ScheduleListInv ==
    ASSUME ListInv, R!ScheduleRecurrent
    PROVE  /\ ListInv' /\ Len(list') = Len(list) + 1
           /\ \A i \in 1..Len(list) : list'[i] = list[i]
  <1>1. list' = Append(list, count + 1) /\ count' = count + 1 /\ rLast' = count + 1
    BY Linked
  <1>2. cancelled' = cancelled
    BY DEF R!ScheduleRecurrent
  <1>3. /\ Len(list) \in Nat /\ count \in Nat /\ list \in Seq(1..count)
        /\ \A k \in 1..Len(list) : list[k] \in 1..count
    BY ListTypes DEF ListInv
  <1>4. list \in Seq(1..count')
    <2>1. 1..count \subseteq 1..count'
      BY <1>1, <1>3
    <2> QED
      BY <1>3, <2>1, SeqMonotonic
  <1>5. /\ list' \in Seq(1..count') /\ Len(list') = Len(list) + 1
        /\ \A i \in 1..Len(list) : list'[i] = list[i]
        /\ list'[Len(list) + 1] = count + 1
    <2>1. count + 1 \in 1..count'
      BY <1>1, <1>3
    <2> QED
      BY <1>1, <1>3, <1>4, <2>1, AppendProperties
  <1>6. Ascending'
    <2> SUFFICES ASSUME NEW j \in 1..Len(list'), NEW k \in 1..Len(list'), j < k
                 PROVE  list'[j] < list'[k]
      BY DEF Ascending
    <2>1. j \in 1..Len(list) /\ (k \in 1..Len(list) \/ k = Len(list) + 1)
      <3>1. j \in 1..Len(list) + 1 /\ k \in 1..Len(list) + 1
        BY <1>5
      <3> QED
        BY <1>3, <3>1
    <2> QED
      BY SMTT(30), <1>3, <1>5, <2>1 DEF ListInv, Ascending
  <1>7. ASSUME NEW x \in 1..count'
        PROVE  x \notin cancelled' <=> \E k \in 1..Len(list') : list'[k] = x
    <2>1. CASE x = count + 1
      <3>1. x \notin cancelled
        BY <2>1, <1>3 DEF ListInv
      <3> QED
        BY <1>2, <1>3, <1>5, <2>1, <3>1
    <2>2. CASE x # count + 1
      <3>1. x \in 1..count
        BY <1>1, <1>3, <2>2
      <3>2. (\E k \in 1..Len(list') : list'[k] = x) <=> (\E k \in 1..Len(list) : list[k] = x)
        BY SMTT(30), <1>3, <1>5, <2>2
      <3> QED
        BY <1>2, <3>1, <3>2 DEF ListInv
    <2> QED
      BY <2>1, <2>2
  <1>8. rLast' = IF list' = <<>> THEN 0 ELSE list'[Len(list')]
    BY <1>1, <1>3, <1>5, EmptySeq
  <1>9. count' \in Nat /\ cancelled' \subseteq 1..count'
    BY <1>1, <1>2, <1>3 DEF ListInv
  <1>10. ListInv'
    BY <1>5, <1>6, <1>7, <1>8, <1>9 DEF ListInv
  <1> QED
    BY <1>5, <1>10

\* Taking out the k-th item, when prev is the item before it.
LEMMA WithoutListInv ==
    ASSUME ListInv, NEW k \in 1..Len(list), list' = Without(k), count' = count,
           cancelled' = cancelled \cup {list[k]},
           rLast' = IF k = Len(list) THEN (IF k = 1 THEN 0 ELSE list[k - 1]) ELSE rLast
    PROVE  /\ ListInv' /\ Len(list') = Len(list) - 1
           /\ \A i \in 1..Len(list) - 1 : list'[i] = IF i < k THEN list[i] ELSE list[i + 1]
  <1>1. /\ Len(list) \in Nat /\ count \in Nat /\ list \in Seq(1..count)
        /\ \A i \in 1..Len(list) : list[i] \in 1..count
        /\ \A i, j \in 1..Len(list) : i < j => list[i] < list[j]
    BY ListTypes DEF ListInv, Ascending
  <1>2. /\ list' \in Seq(1..count) /\ Len(list') = Len(list) - 1
        /\ \A i \in 1..Len(list) - 1 : list'[i] = IF i < k THEN list[i] ELSE list[i + 1]
    <2> DEFINE n == Len(list) - 1
               e(i) == IF i < k THEN list[i] ELSE list[i + 1]
    <2>1. n \in Nat
      BY <1>1
    <2>2. \A i \in 1..n : e(i) \in 1..count
      BY <1>1
    <2>3. list' = [i \in 1..n |-> e(i)]
      BY DEF Without
    <2> HIDE DEF n, e
    <2>4. list' \in Seq(1..count) /\ Len(list') = n /\ \A i \in 1..n : list'[i] = e(i)
      <3>1. PICK l : l = list'
        OBVIOUS
      <3>2. l \in Seq(1..count)
        BY <2>1, <2>2, <2>3, <3>1, IsASeq
      <3>3. DOMAIN l = 1..n /\ \A i \in 1..n : l[i] = e(i)
        BY <2>3, <3>1
      <3>4. Len(l) = n
        BY <2>1, <3>2, <3>3, LenProperties
      <3> QED
        BY <3>1, <3>2, <3>3, <3>4
    <2> QED
      BY <2>4 DEF n, e
  <1>3. Ascending'
    <2> SUFFICES ASSUME NEW i \in 1..Len(list'), NEW j \in 1..Len(list'), i < j
                 PROVE  list'[i] < list'[j]
      BY DEF Ascending
    <2>1. i \in 1..Len(list) - 1 /\ j \in 1..Len(list) - 1
      BY <1>2
    <2>2. /\ list'[i] = (IF i < k THEN list[i] ELSE list[i + 1])
          /\ list'[j] = (IF j < k THEN list[j] ELSE list[j + 1])
      BY <1>2, <2>1
    <2>3. i \in 1..Len(list) /\ i + 1 \in 1..Len(list) /\ j \in 1..Len(list) /\ j + 1 \in 1..Len(list)
      BY SMTT(30), <1>1, <2>1
    <2> QED
      BY SMTT(30), <1>1, <2>2, <2>3
  <1>4. ASSUME NEW x \in 1..count
        PROVE  x \notin cancelled' <=> \E i \in 1..Len(list') : list'[i] = x
    <2>1. ASSUME x \notin cancelled' PROVE \E i \in 1..Len(list') : list'[i] = x
      <3>1. x \notin cancelled /\ x # list[k]
        BY <2>1
      <3>2. PICK i \in 1..Len(list) : list[i] = x
        BY <3>1 DEF ListInv
      <3>3. CASE i < k
        <4>1. i \in 1..Len(list) - 1
          BY <1>1, <3>3
        <4> QED
          BY <1>2, <3>2, <3>3, <4>1
      <3>4. CASE i > k
        <4>1. i - 1 \in 1..Len(list) - 1 /\ ~(i - 1 < k) /\ (i - 1) + 1 = i
          BY <1>1, <3>4
        <4>2. list'[i - 1] = x
          BY <1>2, <3>2, <4>1
        <4> QED
          BY <1>2, <4>1, <4>2
      <3> QED
        BY <1>1, <3>1, <3>2, <3>3, <3>4
    <2>2. ASSUME NEW i \in 1..Len(list'), list'[i] = x PROVE x \notin cancelled'
      <3>1. i \in 1..Len(list) - 1
        BY <1>2
      <3>2. PICK j \in 1..Len(list) : x = list[j] /\ j # k
        <4>1. i \in 1..Len(list) /\ i + 1 \in 1..Len(list)
          BY <1>1, <3>1
        <4>2. x = IF i < k THEN list[i] ELSE list[i + 1]
          BY <1>2, <2>2, <3>1
        <4>3. CASE i < k
          BY <4>1, <4>2, <4>3
        <4>4. CASE ~(i < k)
          <5>1. i + 1 # k
            BY <3>1, <4>4
          <5> QED
            BY <4>1, <4>2, <4>4, <5>1
        <4> QED
          BY <4>3, <4>4
      <3>3. x # list[k]
        BY <1>1, <3>2
      <3>4. x \notin cancelled
        BY <3>2 DEF ListInv
      <3> QED
        BY <3>3, <3>4
    <2> QED
      BY <2>1, <2>2
  <1>5. rLast' = IF list' = <<>> THEN 0 ELSE list'[Len(list')]
    <2>1. list' = <<>> <=> Len(list) = 1
      <3>1. PICK l : l = list'
        OBVIOUS
      <3>2. l \in Seq(1..count) /\ Len(l) = Len(list) - 1
        BY <1>2, <3>1
      <3>3. l = <<>> <=> Len(l) = 0
        BY <3>2, EmptySeq
      <3> QED
        BY <1>1, <3>1, <3>2, <3>3
    <2>2. CASE Len(list) = 1
      BY <1>1, <2>1, <2>2
    <2>3. CASE Len(list) # 1
      <3>1. Len(list) - 1 \in 1..Len(list) - 1 /\ list # <<>>
        <4>1. Len(list) \in Nat /\ (list = <<>> <=> Len(list) = 0)
          BY ListTypes
        <4>2. Len(list) >= 2
          BY <2>3, <4>1
        <4> QED
          BY <4>1, <4>2
      <3>2. list'[Len(list')] = IF Len(list) - 1 < k THEN list[Len(list) - 1] ELSE list[Len(list) - 1 + 1]
        BY <1>2, <3>1
      <3>3. rLast = list[Len(list)]
        BY <3>1 DEF ListInv
      <3>4. CASE k = Len(list)
        <4>1. Len(list) - 1 < k /\ k # 1
          BY <1>1, <2>3, <3>4
        <4>2. list'[Len(list')] = list[k - 1] /\ rLast' = list[k - 1]
          BY <3>2, <3>4, <4>1
        <4> QED
          BY <2>1, <2>3, <4>2
      <3>5. CASE k # Len(list)
        <4>1. ~(Len(list) - 1 < k) /\ Len(list) - 1 + 1 = Len(list)
          BY <1>1, <3>5
        <4>2. list'[Len(list')] = list[Len(list)] /\ rLast' = rLast
          BY <3>2, <3>5, <4>1
        <4> QED
          BY <2>1, <2>3, <3>3, <4>2
      <3> QED
        BY <3>4, <3>5
    <2> QED
      BY <2>2, <2>3
  <1>6. ListInv'
    <2>1. list[k] \in 1..count
      BY <1>1
    <2>2. cancelled' \subseteq 1..count'
      BY <2>1 DEF ListInv
    <2> QED
      BY <1>1, <1>2, <1>3, <1>4, <1>5, <2>2 DEF ListInv
  <1> QED
    BY <1>2, <1>6

-----------------------------------------------------------------------------
(* The passes.                                                             *)

Passes == [at: {"entered", "item", "run", "over"}, current: Int, prev: Int, stop: Int,
           done: BOOLEAN, called: SUBSET Int]

\* A pass that has entered is at the first item and has called nothing.
Entered(p) ==
    list # <<>> /\ p.current = list[1] /\ p.prev = 0 /\ ~p.done /\ p.called = {}

\* A pass at its k-th item, which will stop at the m-th.
AtItem(p, k, m) ==
    /\ k <= m /\ p.current = list[k] /\ p.stop = list[m]
    /\ p.prev = IF k = 1 THEN 0 ELSE list[k - 1]
    /\ p.at = "item" => ~p.done /\ \A x \in p.called : x < list[k]
    /\ p.at = "run" => (p.done <=> k = m) /\ \A x \in p.called : x <= list[k]

PassOk(p) ==
    /\ p \in Passes
    /\ p.at = "entered" => Entered(p)
    /\ p.at \in {"item", "run"} => \E k, m \in 1..Len(list) : AtItem(p, k, m)

PassesInv == \A p : active = <<p>> => PassOk(p)

LEMMA TopOf ==
    ASSUME NEW p, active = <<p>>
    PROVE  /\ R!Top = p /\ (\A l : R!At(l) <=> p.at = l)
           /\ \A q : R!Becomes(q) => active' = <<q>>
  <1>1. R!Top = p
    BY Singleton DEF R!Top, R!Last, Last
  <1>2. \A l : R!At(l) <=> p.at = l
    BY <1>1, Singleton DEF R!At
  <1>3. ASSUME NEW q, R!Becomes(q) PROVE active' = <<q>>
    BY <1>3, Singleton DEF R!Becomes, R!Front, Front
  <1> QED
    BY <1>1, <1>2, <1>3

\* The items are in order, so the one a pass is at is its stop exactly when it
\* has got as far.
LEMMA OrderOfItems ==
    ASSUME ListInv, NEW k \in 1..Len(list), NEW m \in 1..Len(list), k <= m
    PROVE  /\ list[k] <= list[m] /\ (list[k] = list[m] <=> k = m)
           /\ list[k] \in 1..count /\ k \in Nat /\ m \in Nat
           /\ k # m => k + 1 \in 1..Len(list) /\ k + 1 <= m /\ list[k] < list[k + 1]
  <1>1. Len(list) \in Nat /\ list[k] \in 1..count /\ list[m] \in 1..count /\ count \in Nat
    BY ListTypes DEF ListInv
  <1>2. k < m => list[k] < list[m]
    BY DEF ListInv, Ascending
  <1>3. k # m => k + 1 \in 1..Len(list) /\ k + 1 <= m
    BY <1>1
  <1>4. k # m => list[k] < list[k + 1]
    BY <1>1, <1>3 DEF ListInv, Ascending
  <1> QED
    BY <1>1, <1>2, <1>3, <1>4

\* Going on behind the k-th item, unless that was the end of the pass.
LEMMA LoopInv ==
    ASSUME ListInv, NEW k \in 1..Len(list), NEW m \in 1..Len(list), k <= m,
           NEW p \in Passes,
           p.prev = list[k], p.current = R!next(list[k]), p.stop = list[m],
           p.done <=> k = m, \A x \in p.called : x <= list[k]
    PROVE  PassOk(R!Loop(p))
  <1> DEFINE q == R!Loop(p)
  <1>1. p.current = IF k = Len(list) THEN 0 ELSE list[k + 1]
    BY PosOf
  <1>2. CASE k = m
    <2>1. q = [p EXCEPT !.at = "over"]
      BY <1>2 DEF R!Loop
    <2>2. q \in Passes /\ q.at = "over"
      BY <2>1 DEF Passes
    <2> HIDE DEF q
    <2>3. PassOk(q)
      BY <2>2 DEF PassOk
    <2> QED
      BY <2>3 DEF q
  <1>3. CASE k # m
    <2>1. k + 1 \in 1..Len(list) /\ k + 1 <= m /\ list[k] < list[k + 1] /\ k \in Nat
      BY <1>3, OrderOfItems
    <2>2. p.current = list[k + 1] /\ p.current # 0 /\ list[k] \in Int /\ list[k + 1] \in Int
      BY SMTT(30), <1>1, <2>1, ListTypes DEF ListInv
    <2>3. q = [p EXCEPT !.at = "item"]
      BY <1>3, <2>2 DEF R!Loop, R!None
    <2>4. /\ q \in Passes /\ q.at = "item" /\ q.current = p.current /\ q.prev = p.prev
          /\ q.stop = p.stop /\ q.done = p.done /\ q.called = p.called
      BY <2>3 DEF Passes
    <2> HIDE DEF q
    <2>5. \A x \in q.called : x < list[k + 1]
      BY <2>1, <2>2, <2>4 DEF Passes
    <2>6. AtItem(q, k + 1, m)
      BY <1>3, <2>1, <2>2, <2>4, <2>5 DEF AtItem
    <2>7. PassOk(q)
      BY <2>1, <2>4, <2>6 DEF PassOk
    <2> QED
      BY <2>7 DEF q
  <1> QED
    BY <1>2, <1>3

\* The steps of the pass p, for which the list stays as it is.
LEMMA StepInv ==
    ASSUME ListInv, PassesInv, NEW p, active = <<p>>,
           R!Begin \/ R!Call \/ R!Skip \/ R!Keep
    PROVE  PassesInv'
  <1>1. list' = list /\ count' = count
    BY DEF R!Begin, R!Call, R!Skip, R!Keep
  <1>2. R!Top = p /\ (\A l : R!At(l) <=> p.at = l) /\ (\A q : R!Becomes(q) => active' = <<q>>)
    BY TopOf
  <1>3. PassOk(p) /\ p \in Passes
    BY DEF PassesInv, PassOk
  <1>4. ASSUME NEW q, active' = <<q>>, PassOk(q) PROVE PassesInv'
    <2>1. \A r : <<q>> = <<r>> => r = q
      OBVIOUS
    <2>2. PassOk(q)'
      BY <1>1, <1>4 DEF PassOk, Entered, AtItem
    <2> QED
      BY <1>4, <2>1, <2>2 DEF PassesInv
  <1>5. CASE R!Begin
    <2> DEFINE q == [p EXCEPT !.at = "item", !.stop = rLast]
    <2>1. p.at = "entered" /\ active' = <<q>>
      BY <1>2, <1>5 DEF R!Begin
    <2>2. Entered(p)
      BY <1>3, <2>1 DEF PassOk
    <2>3. Len(list) \in Nat /\ 1 \in 1..Len(list) /\ Len(list) \in 1..Len(list)
      BY <2>2, ListTypes DEF Entered
    <2>4. rLast = list[Len(list)] /\ rLast \in Int
      BY <2>2, <2>3, ListTypes DEF ListInv, Entered
    <2>5. /\ q \in Passes /\ q.at = "item" /\ q.current = list[1] /\ q.prev = 0
          /\ q.stop = list[Len(list)] /\ ~q.done /\ q.called = {}
      BY <1>3, <2>2, <2>4 DEF Passes, Entered
    <2> HIDE DEF q
    <2>6. AtItem(q, 1, Len(list))
      BY <2>3, <2>5 DEF AtItem
    <2>7. PassOk(q)
      BY <2>3, <2>5, <2>6 DEF PassOk
    <2> QED
      BY <1>4, <2>1, <2>7
  <1>6. ASSUME p.at \in {"item", "run"}
        PROVE  \E k, m \in 1..Len(list) : AtItem(p, k, m)
    BY <1>3, <1>6 DEF PassOk
  <1>7. CASE R!Call
    <2>1. p.at = "item"
      BY <1>2, <1>7 DEF R!Call
    <2>2. PICK k \in 1..Len(list), m \in 1..Len(list) : AtItem(p, k, m)
      BY <1>6, <2>1
    <2>3. /\ k <= m /\ p.current = list[k] /\ p.stop = list[m]
          /\ \A x \in p.called : x < list[k]
      BY <2>1, <2>2 DEF AtItem
    <2>4. list[k] \in Int /\ (list[k] = list[m] <=> k = m)
      BY <2>3, OrderOfItems DEF ListInv
    <2> DEFINE q == [p EXCEPT !.at = "run", !.done = (p.current = p.stop),
                              !.called = @ \cup {p.current}]
    <2>5. active' = <<q>>
      BY <1>2, <1>7 DEF R!Call
    <2>6. /\ q \in Passes /\ q.at = "run" /\ q.current = p.current /\ q.prev = p.prev
          /\ q.stop = p.stop /\ q.done = (p.current = p.stop) /\ q.called = p.called \cup {p.current}
      BY <1>3, <2>3, <2>4 DEF Passes
    <2> HIDE DEF q
    <2>7. \A x \in q.called : x <= list[k]
      BY <1>3, <2>3, <2>4, <2>6 DEF Passes
    <2>8. AtItem(q, k, m)
      BY <2>2, <2>3, <2>4, <2>6, <2>7 DEF AtItem
    <2>9. PassOk(q)
      BY <2>6, <2>8 DEF PassOk
    <2> QED
      BY <1>4, <2>5, <2>9
  <1>8. CASE R!Skip
    <2>1. p.at = "item"
      BY <1>2, <1>8 DEF R!Skip
    <2>2. PICK k \in 1..Len(list), m \in 1..Len(list) : AtItem(p, k, m)
      BY <1>6, <2>1
    <2>3. /\ k <= m /\ p.current = list[k] /\ p.stop = list[m]
          /\ \A x \in p.called : x < list[k]
      BY <2>1, <2>2 DEF AtItem
    <2>4. list[k] \in Int /\ (list[k] = list[m] <=> k = m)
      BY <2>3, OrderOfItems DEF ListInv
    <2>5. R!next(list[k]) \in Int
      BY SMTT(30), PosOf, ListTypes DEF ListInv
    <2> DEFINE s == [p EXCEPT !.prev = p.current, !.current = R!next(p.current)]
               q == [s EXCEPT !.done = (p.current = p.stop)]
    <2>6. active' = <<R!Loop(q)>>
      BY <1>2, <1>8 DEF R!Skip, R!Step
    <2>7. /\ q \in Passes /\ q.current = R!next(list[k]) /\ q.prev = list[k]
          /\ q.stop = list[m] /\ q.done = (p.current = p.stop) /\ q.called = p.called
      BY <1>3, <2>3, <2>4, <2>5 DEF Passes
    <2> HIDE DEF q, s
    <2>8. q.done <=> k = m
      BY <2>3, <2>4, <2>7
    <2>9. \A x \in q.called : x <= list[k]
      BY <1>3, <2>3, <2>4, <2>7 DEF Passes
    <2>10. PassOk(R!Loop(q))
      BY <2>3, <2>7, <2>8, <2>9, LoopInv
    <2> QED
      BY <1>4, <2>6, <2>10
  <1>9. CASE R!Keep
    <2>1. p.at = "run"
      BY <1>2, <1>9 DEF R!Keep
    <2>2. PICK k \in 1..Len(list), m \in 1..Len(list) : AtItem(p, k, m)
      BY <1>6, <2>1
    <2>3. /\ k <= m /\ p.current = list[k] /\ p.stop = list[m]
          /\ (p.done <=> k = m) /\ \A x \in p.called : x <= list[k]
      BY <2>1, <2>2 DEF AtItem
    <2>4. list[k] \in Int
      BY <2>3, OrderOfItems DEF ListInv
    <2>5. R!next(list[k]) \in Int
      BY SMTT(30), PosOf, ListTypes DEF ListInv
    <2> DEFINE q == [p EXCEPT !.prev = p.current, !.current = R!next(p.current)]
    <2>6. active' = <<R!Loop(q)>>
      BY <1>2, <1>9 DEF R!Keep, R!Step
    <2>7. /\ q \in Passes /\ q.current = R!next(list[k]) /\ q.prev = list[k]
          /\ q.stop = list[m] /\ q.done = p.done /\ q.called = p.called
      BY <1>3, <2>3, <2>4, <2>5 DEF Passes
    <2> HIDE DEF q
    <2>8. PassOk(R!Loop(q))
      BY <2>3, <2>7, LoopInv
    <2> QED
      BY <1>4, <2>6, <2>8
  <1> QED
    BY <1>5, <1>7, <1>8, <1>9

\* The function has returned false.
LEMMA CancelInv ==
    ASSUME ListInv, PassesInv, NEW p, active = <<p>>, R!Cancel
    PROVE  ListInv' /\ PassesInv'
  <1>1. R!Top = p /\ (\A l : R!At(l) <=> p.at = l) /\ (\A q : R!Becomes(q) => active' = <<q>>)
    BY TopOf
  <1>2. p.at = "run"
    BY <1>1 DEF R!Cancel
  <1>3. p \in Passes /\ \E k, m \in 1..Len(list) : AtItem(p, k, m)
    BY <1>2 DEF PassesInv, PassOk
  <1>4. PICK k \in 1..Len(list), m \in 1..Len(list) : AtItem(p, k, m)
    BY <1>3
  <1>5. /\ k <= m /\ p.current = list[k] /\ p.stop = list[m]
        /\ p.prev = (IF k = 1 THEN 0 ELSE list[k - 1])
        /\ (p.done <=> k = m) /\ \A x \in p.called : x <= list[k]
    BY <1>2, <1>4 DEF AtItem
  <1>6. /\ Len(list) \in Nat /\ k \in Nat /\ m \in Nat
        /\ k # m => k + 1 \in 1..Len(list) /\ k + 1 <= m /\ list[k] < list[k + 1]
        /\ \A i \in 1..Len(list) : list[i] \in Int /\ list[i] # 0
    BY SMTT(30), <1>5, OrderOfItems, ListTypes DEF ListInv
  <1>7. /\ list' = Without(k) /\ count' = count /\ cancelled' = cancelled \cup {list[k]}
        /\ rLast' = IF k = Len(list) THEN (IF k = 1 THEN 0 ELSE list[k - 1]) ELSE rLast
    <2>1. list' = Without(k)
      BY <1>1, <1>5, Unlinked DEF R!Cancel
    <2>2. rLast = list[Len(list)]
      BY <1>6, ListTypes DEF ListInv
    <2>3. rLast = list[k] <=> k = Len(list)
      <3>1. Len(list) \in 1..Len(list) /\ k <= Len(list)
        BY <1>6
      <3> QED
        BY <2>2, <3>1, OrderOfItems
    <2>4. rLast' = IF rLast = list[k] THEN p.prev ELSE rLast
      BY <1>1, <1>5 DEF R!Cancel, R!NewLast
    <2> QED
      BY <1>1, <1>5, <2>1, <2>3, <2>4 DEF R!Cancel
  <1>8. /\ ListInv' /\ Len(list') = Len(list) - 1
        /\ \A i \in 1..Len(list) - 1 : list'[i] = IF i < k THEN list[i] ELSE list[i + 1]
    BY <1>7, WithoutListInv
  <1> DEFINE s == [p EXCEPT !.current = R!next(p.current)]
  <1>q. PICK q : q = R!Loop(s)
    OBVIOUS
  <1>9. active' = <<q>>
    BY <1>1, <1>q DEF R!Cancel
  <1>10. R!next(list[k]) = IF k = Len(list) THEN 0 ELSE list[k + 1]
    BY PosOf
  <1>11. /\ s \in Passes /\ s.current = R!next(list[k]) /\ s.prev = p.prev
         /\ s.stop = p.stop /\ s.done = p.done /\ s.called = p.called
    <2>1. R!next(list[k]) \in Int
      BY <1>6, <1>10
    <2> QED
      BY <1>3, <1>5, <2>1 DEF Passes
  <1> HIDE DEF s
  <1>12. PassOk(q)'
    <2>1. CASE k = m
      <3>1. q \in Passes /\ q.at = "over"
        BY <1>5, <1>11, <1>q, <2>1 DEF R!Loop, Passes
      <3> QED
        BY <3>1 DEF PassOk
    <2>2. CASE k # m
      <3>1. /\ k + 1 \in 1..Len(list) /\ k + 1 <= m /\ list[k] < list[k + 1]
            /\ k # Len(list)
        BY <1>6, <2>2
      <3>2. s.current = list[k + 1] /\ s.current # 0 /\ ~s.done
        BY <1>5, <1>6, <1>10, <1>11, <2>2, <3>1
      <3>3. /\ q \in Passes /\ q.at = "item" /\ q.current = list[k + 1] /\ q.prev = p.prev
            /\ q.stop = list[m] /\ ~q.done /\ q.called = p.called
        BY <1>5, <1>11, <1>q, <3>2 DEF R!Loop, R!None, Passes
      <3>4. k \in 1..Len(list) - 1 /\ m - 1 \in 1..Len(list) - 1 /\ k <= m - 1 /\ m - 1 + 1 = m
        BY <1>6, <3>1
      <3>5. list'[k] = list[k + 1] /\ list'[m - 1] = list[m]
        BY <1>6, <1>8, <3>4
      <3>6. q.prev = IF k = 1 THEN 0 ELSE list'[k - 1]
        <4>1. CASE k = 1
          BY <1>5, <3>3, <4>1
        <4>2. CASE k # 1
          <5>1. k - 1 \in 1..Len(list) - 1 /\ k - 1 < k
            BY <1>6, <3>4, <4>2
          <5>2. list'[k - 1] = list[k - 1]
            BY <1>8, <5>1
          <5> QED
            BY <1>5, <3>3, <4>2, <5>2
        <4> QED
          BY <4>1, <4>2
      <3>7. \A x \in q.called : x < list'[k]
        <4>1. ASSUME NEW x \in q.called PROVE x < list[k + 1]
          <5>1. x \in Int /\ x <= list[k]
            BY <1>3, <1>5, <3>3, <4>1 DEF Passes
          <5> QED
            BY <1>6, <3>1, <5>1
        <4> QED
          BY <3>5, <4>1
      <3>8. AtItem(q, k, m - 1)'
        BY <3>3, <3>4, <3>5, <3>6, <3>7 DEF AtItem
      <3>9. k \in 1..Len(list') /\ m - 1 \in 1..Len(list')
        BY <1>8, <3>4
      <3> QED
        BY <3>3, <3>8, <3>9 DEF PassOk
    <2> QED
      BY <2>1, <2>2
  <1>13. PassesInv'
    <2>1. \A r : <<q>> = <<r>> => r = q
      OBVIOUS
    <2> QED
      BY <1>9, <1>12, <2>1 DEF PassesInv
  <1> QED
    BY <1>8, <1>13

\* A function is scheduled in the middle of a pass.
LEMMA ScheduleInv ==
    ASSUME ListInv, PassesInv, R!ScheduleRecurrent
    PROVE  ListInv' /\ PassesInv'
  <1>1. /\ ListInv' /\ Len(list') = Len(list) + 1
        /\ \A i \in 1..Len(list) : list'[i] = list[i]
    BY ScheduleListInv
  <1>2. active' = active
    BY DEF R!ScheduleRecurrent
  <1>3. Len(list) \in Nat /\ 1..Len(list) \subseteq 1..Len(list')
    BY <1>1, ListTypes
  <1>4. ASSUME NEW p, PassOk(p) PROVE PassOk(p)'
    <2>1. Entered(p) => Entered(p)'
      <3> SUFFICES ASSUME Entered(p) PROVE Entered(p)'
        OBVIOUS
      <3>1. 1 \in 1..Len(list)
        BY ListTypes DEF Entered
      <3>2. list' # <<>> /\ list'[1] = list[1]
        <4>1. PICK l : l = list'
          OBVIOUS
        <4>2. Len(l) # 0
          BY <1>1, <1>3, <4>1
        <4>3. l # <<>>
          BY <4>2
        <4> QED
          BY <1>1, <3>1, <4>1, <4>3
      <3> QED
        BY <3>2 DEF Entered
    <2>2. ASSUME NEW k \in 1..Len(list), NEW m \in 1..Len(list), AtItem(p, k, m)
          PROVE  AtItem(p, k, m)'
      <3>1. k # 1 => k - 1 \in 1..Len(list)
        BY <1>3
      <3> QED
        BY <1>1, <2>2, <3>1 DEF AtItem
    <2> QED
      BY <1>3, <1>4, <2>1, <2>2 DEF PassOk
  <1> QED
    BY <1>1, <1>2, <1>4 DEF PassesInv

\* A pass begins when there is none.
LEMMA EnterInv ==
    ASSUME ListInv, R!Enter, active = <<>>
    PROVE  PassesInv'
  <1>q. PICK q : q = [at |-> "entered", current |-> R!first, prev |-> 0, stop |-> 0,
                      done |-> FALSE, called |-> {}]
    OBVIOUS
  <1>1. list # <<>> /\ list' = list
    BY DEF R!Enter
  <1>2. active' = <<q>>
    <2>1. active' = Append(<<>>, q)
      BY <1>q DEF R!Enter, R!None
    <2> QED
      BY <2>1, Singleton
  <1>3. R!first = list[1] /\ list[1] \in Int
    <2>1. 1 \in 1..Len(list)
      BY <1>1, ListTypes
    <2>2. list[1] \in Int
      BY <2>1, ListTypes DEF ListInv
    <2> QED
      BY <1>1, <2>2 DEF R!first, ListInv
  <1>4. /\ q \in Passes /\ q.at = "entered" /\ q.current = list[1] /\ q.prev = 0
        /\ ~q.done /\ q.called = {}
    BY <1>3, <1>q DEF Passes
  <1>5. PassOk(q)'
    BY <1>1, <1>4 DEF PassOk, Entered
  <1>6. \A r : <<q>> = <<r>> => r = q
    OBVIOUS
  <1> QED
    BY <1>2, <1>5, <1>6 DEF PassesInv

-----------------------------------------------------------------------------
(* The task.                                                               *)

\* Every step of the task is one step of a pass, or leaves the passes alone.
LEMMA TaskPassSteps ==
    ASSUME [TaskNext]_taskVars
    PROVE  \/ R!ScheduleRecurrent \/ R!Enter \/ R!Leave
           \/ R!Begin \/ R!Call \/ R!Skip \/ R!Keep \/ R!Cancel
           \/ UNCHANGED recurrent
  <1>1. CASE SchedulesRecurrent
    BY <1>1 DEF SchedulesRecurrent
  <1>2. CASE Resume \/ LoopEnd
    BY <1>2 DEF Resume, LoopEnd, R!EnterReturns, R!vars, recurrent
  <1>3. CASE RecurrentStep \/ RecurrentReturns \/ RecurrentEnds
    BY <1>3 DEF RecurrentStep, RecurrentReturns, RecurrentEnds
  <1>4. CASE \/ Schedules \/ Posts \/ TimerFires \/ Yields \/ Delays \/ PassYields \/ RunTask
             \/ ScheduledStep \/ ScheduledEnds \/ LoopReturns \/ ScheduledReturns
             \/ UNCHANGED taskVars
    BY <1>4 DEF Schedules, Posts, TimerFires, Yields, Delays, PassYields, Sleep, RunTask,
                ScheduledStep, ScheduledEnds, LoopReturns, ScheduledReturns, taskVars
  <1> QED
    BY <1>1, <1>2, <1>3, <1>4 DEF TaskNext, Steps

RecurrentInv == WakeInv /\ ListInv /\ PassesInv

LEMMA RecurrentInit == TaskInit => RecurrentInv
  <1> SUFFICES ASSUME TaskInit PROVE RecurrentInv
    OBVIOUS
  <1>1. list = <<>> /\ rLast = 0 /\ active = <<>> /\ count = 0 /\ cancelled = {}
    BY DEF TaskInit, R!Init, R!None
  <1>2. ListInv
    <2>1. <<>> \in Seq(1..0) /\ Len(<<>>) = 0
      BY EmptySeq
    <2> QED
      BY <1>1, <2>1 DEF ListInv, Ascending
  <1>3. PassesInv
    BY <1>1, Singleton DEF PassesInv
  <1> QED
    BY <1>2, <1>3, WakeInit DEF RecurrentInv

LEMMA RecurrentStepInv == RecurrentInv /\ [TaskNext]_taskVars => RecurrentInv'
  <1> SUFFICES ASSUME RecurrentInv, [TaskNext]_taskVars PROVE RecurrentInv'
    OBVIOUS
  <1>1. WakeInv /\ ListInv /\ PassesInv
    BY DEF RecurrentInv
  <1>2. WakeInv'
    BY <1>1, WakeStep
  <1>3. \A q : active = <<q>> => active # <<>>
    BY Singleton
  <1>4. ASSUME active # <<>> PROVE \E p : active = <<p>>
    BY <1>1, <1>4 DEF WakeInv, OnePass
  <1>5. CASE R!ScheduleRecurrent
    BY <1>1, <1>2, <1>5, ScheduleInv DEF RecurrentInv
  <1>6. CASE R!Enter
    <2>1. active = <<>>
      BY <1>1, <1>6 DEF WakeInv, R!Enter, R!Fenced
    <2>2. PassesInv'
      BY <1>1, <1>6, <2>1, EnterInv
    <2>3. ListInv'
      BY <1>1, <1>6 DEF R!Enter, ListInv, Ascending
    <2> QED
      BY <1>2, <2>2, <2>3 DEF RecurrentInv
  <1>7. CASE R!Leave
    <2>1. active' = <<>>
      BY <1>1, <1>7, StackSteps
    <2>2. PassesInv'
      BY <2>1, Singleton DEF PassesInv
    <2>3. ListInv'
      BY <1>1, <1>7 DEF R!Leave, ListInv, Ascending
    <2> QED
      BY <1>2, <2>2, <2>3 DEF RecurrentInv
  <1>8. CASE R!Begin \/ R!Call \/ R!Skip \/ R!Keep
    <2>1. active # <<>>
      BY <1>8 DEF R!Begin, R!Call, R!Skip, R!Keep, R!At
    <2>2. PICK p : active = <<p>>
      BY <1>4, <2>1
    <2>3. PassesInv'
      BY <1>1, <1>8, <2>2, StepInv
    <2>4. ListInv'
      BY <1>1, <1>8 DEF R!Begin, R!Call, R!Skip, R!Keep, ListInv, Ascending
    <2> QED
      BY <1>2, <2>3, <2>4 DEF RecurrentInv
  <1>9. CASE R!Cancel
    <2>1. active # <<>>
      BY <1>9 DEF R!Cancel, R!At
    <2>2. PICK p : active = <<p>>
      BY <1>4, <2>1
    <2>3. ListInv' /\ PassesInv'
      BY <1>1, <1>9, <2>2, CancelInv
    <2> QED
      BY <1>2, <2>3 DEF RecurrentInv
  <1>10. CASE UNCHANGED recurrent
    <2>1. ListInv'
      BY <1>1, <1>10 DEF recurrent, ListInv, Ascending
    <2>2. \A p : PassOk(p) => PassOk(p)'
      BY <1>10 DEF recurrent, PassOk, Entered, AtItem
    <2>3. active' = active
      BY <1>10 DEF recurrent
    <2>4. PassesInv'
      BY <1>1, <2>2, <2>3 DEF PassesInv
    <2> QED
      BY <1>2, <2>1, <2>4 DEF RecurrentInv
  <1> QED
    BY <1>5, <1>6, <1>7, <1>8, <1>9, <1>10, TaskPassSteps

-----------------------------------------------------------------------------
(* What it is for.                                                         *)

LEMMA WholeOfInv == RecurrentInv => ListIsWhole
  <1> SUFFICES ASSUME RecurrentInv PROVE ListIsWhole
    OBVIOUS
  <1>1. ListInv /\ DOMAIN list = 1..Len(list) /\ \A k \in 1..Len(list) : list[k] \in 1..count
    BY ListTypes DEF RecurrentInv
  <1>2. R!Range(list) = (1..count) \ cancelled
    BY <1>1 DEF ListInv, R!Range
  <1> QED
    BY <1>1, <1>2 DEF ListIsWhole, R!ListIsWhole, ListInv, Ascending

\* What is known of the pass on the stack, if there is one.
LEMMA OnlyPass ==
    ASSUME RecurrentInv, NEW i \in 1..Len(active)
    PROVE  PassOk(active[i])
  <1>1. active = <<>> \/ \E p : active = <<p>>
    BY DEF RecurrentInv, WakeInv, OnePass
  <1>2. active # <<>>
    OBVIOUS
  <1>3. PICK p : active = <<p>>
    BY <1>1, <1>2
  <1>4. active[i] = p
    BY <1>3
  <1> QED
    BY <1>3, <1>4 DEF RecurrentInv, PassesInv

LEMMA DanglingOfInv == RecurrentInv => NoItemIsDangling
  <1> SUFFICES ASSUME RecurrentInv, NEW i \in 1..Len(active), NEW p, p = active[i],
                      p.at # "over"
               PROVE  /\ p.current \in R!Range(list)
                      /\ p.prev # 0 => p.prev \in R!Range(list) /\ R!next(p.prev) = p.current
    BY DEF NoItemIsDangling, R!NoItemIsDangling, R!None
  <1>1. PassOk(p) /\ ListInv
    BY OnlyPass DEF RecurrentInv
  <1>2. Len(list) \in Nat /\ DOMAIN list = 1..Len(list) /\ (list = <<>> <=> Len(list) = 0)
    BY <1>1, ListTypes
  <1>3. CASE p.at = "entered"
    <2>1. list # <<>> /\ p.current = list[1] /\ p.prev = 0
      BY <1>1, <1>3 DEF PassOk, Entered
    <2>2. 1 \in DOMAIN list
      BY <1>2, <2>1
    <2> QED
      BY <2>1, <2>2 DEF R!Range
  <1>4. CASE p.at \in {"item", "run"}
    <2>1. PICK k \in 1..Len(list), m \in 1..Len(list) : AtItem(p, k, m)
      BY <1>1, <1>4 DEF PassOk
    <2>2. p.current = list[k] /\ p.prev = IF k = 1 THEN 0 ELSE list[k - 1]
      BY <2>1 DEF AtItem
    <2>3. p.current \in R!Range(list)
      BY <1>2, <2>2 DEF R!Range
    <2>4. ASSUME k # 1 PROVE p.prev \in R!Range(list) /\ R!next(p.prev) = p.current
      <3>1. k - 1 \in 1..Len(list) /\ k - 1 # Len(list) /\ k - 1 + 1 = k
        BY <1>2, <2>4
      <3>2. R!next(list[k - 1]) = list[k]
        BY <1>1, <3>1, PosOf
      <3> QED
        BY <1>2, <2>2, <2>4, <3>1, <3>2 DEF R!Range
    <2> QED
      BY <2>2, <2>3, <2>4
  <1> QED
    BY <1>1, <1>3, <1>4 DEF PassOk, Passes

LEMMA OnceOfInv == RecurrentInv => OncePerPass
  <1> SUFFICES ASSUME RecurrentInv, NEW i \in 1..Len(active), NEW p, p = active[i],
                      p.at = "item"
               PROVE  p.current \notin p.called /\ p.current <= p.stop
    BY DEF OncePerPass, R!OncePerPass
  <1>1. PassOk(p) /\ ListInv
    BY OnlyPass DEF RecurrentInv
  <1>2. PICK k \in 1..Len(list), m \in 1..Len(list) : AtItem(p, k, m)
    BY <1>1 DEF PassOk
  <1>3. /\ k <= m /\ p.current = list[k] /\ p.stop = list[m]
        /\ \A x \in p.called : x < list[k]
    BY <1>2 DEF AtItem
  <1>4. list[k] <= list[m] /\ list[k] \in 1..count
    BY <1>1, <1>3, OrderOfItems
  <1> QED
    BY <1>3, <1>4

\* No recurrent function is lost and none stays behind, although a pass takes
\* items out while others are appended (schedule_recurrent_function_us,
\* run_scheduled_recurrent_functions).
THEOREM ListIsAlwaysWhole == TaskSpec => []ListIsWhole
  BY RecurrentInit, RecurrentStepInv, WholeOfInv, PTL DEF TaskSpec

\* The pointers of a pass are to items of the list, although the functions it
\* runs yield and delay: the fence keeps a pass from beginning inside it.
THEOREM NoItemEverDangles == TaskSpec => []NoItemIsDangling
  BY RecurrentInit, RecurrentStepInv, DanglingOfInv, PTL DEF TaskSpec

\* A pass calls each function once at most and ends where the list ended when
\* it began.
THEOREM AlwaysOncePerPass == TaskSpec => []OncePerPass
  BY RecurrentInit, RecurrentStepInv, OnceOfInv, PTL DEF TaskSpec

=============================================================================
