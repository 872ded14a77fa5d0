---------------------------- MODULE RuntimeProofs ----------------------------
(***************************************************************************)
(* Proofs about the runtime providers: what the calls of a plan do to an    *)
(* endpoint, wherever the plan is interrupted and whichever command comes   *)
(* next, for any number of commands and faults.                            *)
(***************************************************************************)
EXTENDS Runtime, SequenceTheorems, TLAPS

-----------------------------------------------------------------------------
(* Sequences of calls *)

Calls(s) == {s[i]: i \in DOMAIN s}

\* Every `x` has a `y` before it.
Guarded(s, x, y) == \A i \in DOMAIN s: s[i] = x => \E j \in 1..(i - 1): s[j] = y

\* No call of X comes after a `y`.
Precedes(s, X, y) == \A i, j \in DOMAIN s: s[i] \in X /\ s[j] = y => i < j

Closes(s) == s # <<>> => s[Len(s)] \in {"record", "throw"}

LEMMA CallsOfTail ==
  ASSUME NEW S, NEW s \in Seq(S), s # <<>>
  PROVE  Tail(s) \in Seq(S) /\ Head(s) \in Calls(s) /\ Calls(s) = {Head(s)} \cup Calls(Tail(s))
<1>1. /\ Tail(s) \in Seq(S) /\ Len(Tail(s)) = Len(s) - 1 /\ Len(s) \in Nat \ {0} /\ Head(s) = s[1]
      /\ DOMAIN s = 1..Len(s) /\ DOMAIN Tail(s) = 1..Len(Tail(s))
      /\ \A i \in 1..Len(Tail(s)): Tail(s)[i] = s[i + 1]
  BY HeadTailProperties, EmptySeq, LenProperties
<1>2. Calls(s) \subseteq {Head(s)} \cup Calls(Tail(s))
  <2> SUFFICES ASSUME NEW i \in 1..Len(s) PROVE s[i] \in {Head(s)} \cup Calls(Tail(s))
    BY <1>1 DEF Calls
  <2>1. CASE i = 1
    BY <2>1, <1>1
  <2>2. CASE i # 1
    <3>1. i - 1 \in 1..Len(Tail(s)) /\ (i - 1) + 1 = i
      BY <2>2, <1>1
    <3>2. Tail(s)[i - 1] = s[i]
      BY <3>1, <1>1
    <3> QED BY <3>1, <3>2, <1>1 DEF Calls
  <2> QED BY <2>1, <2>2
<1>3. Calls(Tail(s)) \subseteq Calls(s)
  <2> SUFFICES ASSUME NEW i \in 1..Len(Tail(s)) PROVE Tail(s)[i] \in Calls(s)
    BY <1>1 DEF Calls
  <2>1. i + 1 \in 1..Len(s)
    BY <1>1
  <2> QED BY <2>1, <1>1 DEF Calls
<1>4. Head(s) \in Calls(s)
  <2>1. 1 \in 1..Len(s)
    BY <1>1
  <2> QED BY <2>1, <1>1 DEF Calls
<1> QED BY <1>1, <1>2, <1>3, <1>4

LEMMA CallsOfConcat ==
  ASSUME NEW S, NEW s \in Seq(S), NEW t \in Seq(S)
  PROVE  s \o t \in Seq(S) /\ Calls(s \o t) = Calls(s) \cup Calls(t)
<1>1. /\ s \o t \in Seq(S) /\ Len(s \o t) = Len(s) + Len(t) /\ Len(s) \in Nat /\ Len(t) \in Nat
      /\ DOMAIN s = 1..Len(s) /\ DOMAIN t = 1..Len(t) /\ DOMAIN (s \o t) = 1..(Len(s) + Len(t))
  BY ConcatProperties, LenProperties
<1>2. \A i \in 1..(Len(s) + Len(t)): (s \o t)[i] = IF i <= Len(s) THEN s[i] ELSE t[i - Len(s)]
  BY ConcatProperties
<1>3. ASSUME NEW i \in 1..(Len(s) + Len(t)) PROVE (s \o t)[i] \in Calls(s) \cup Calls(t)
  <2>1. CASE i <= Len(s)
    <3>1. i \in 1..Len(s)
      BY <2>1, <1>1
    <3> QED BY <3>1, <2>1, <1>1, <1>2 DEF Calls
  <2>2. CASE ~(i <= Len(s))
    <3>1. i - Len(s) \in 1..Len(t)
      BY <2>2, <1>1
    <3> QED BY <3>1, <2>2, <1>1, <1>2 DEF Calls
  <2> QED BY <2>1, <2>2
<1>4. ASSUME NEW i \in 1..Len(s) PROVE s[i] \in Calls(s \o t)
  <2>1. i \in 1..(Len(s) + Len(t)) /\ i <= Len(s)
    BY <1>1
  <2>2. (s \o t)[i] = s[i]
    BY <2>1, <1>2
  <2> QED BY <2>1, <2>2, <1>1 DEF Calls
<1>5. ASSUME NEW i \in 1..Len(t) PROVE t[i] \in Calls(s \o t)
  <2>1. Len(s) + i \in 1..(Len(s) + Len(t)) /\ ~(Len(s) + i <= Len(s)) /\ (Len(s) + i) - Len(s) = i
    BY <1>1
  <2>2. (s \o t)[Len(s) + i] = t[i]
    BY <2>1, <1>2
  <2> QED BY <2>1, <2>2, <1>1 DEF Calls
<1>6. Calls(s \o t) \subseteq Calls(s) \cup Calls(t)
  BY <1>1, <1>3 DEF Calls
<1>7. Calls(s) \subseteq Calls(s \o t) /\ Calls(t) \subseteq Calls(s \o t)
  BY <1>1, <1>4, <1>5 DEF Calls
<1> QED BY <1>1, <1>6, <1>7

LEMMA GuardedTail ==
  ASSUME NEW S, NEW s \in Seq(S), s # <<>>, NEW x, NEW y, Guarded(s, x, y)
  PROVE  Head(s) # x /\ (Head(s) # y => Guarded(Tail(s), x, y))
<1>1. /\ Tail(s) \in Seq(S) /\ Len(Tail(s)) = Len(s) - 1 /\ Len(s) \in Nat \ {0} /\ Head(s) = s[1]
      /\ DOMAIN s = 1..Len(s) /\ DOMAIN Tail(s) = 1..Len(Tail(s))
      /\ \A i \in 1..Len(Tail(s)): Tail(s)[i] = s[i + 1]
  BY HeadTailProperties, EmptySeq, LenProperties
<1>2. Head(s) # x
  <2>1. 1 \in DOMAIN s /\ 1..(1 - 1) = {}
    BY <1>1
  <2> QED BY <2>1, <1>1 DEF Guarded
<1>3. ASSUME Head(s) # y, NEW i \in 1..Len(Tail(s)), Tail(s)[i] = x
      PROVE  \E j \in 1..(i - 1): Tail(s)[j] = y
  <2>1. i + 1 \in DOMAIN s /\ s[i + 1] = x
    BY <1>1, <1>3
  <2>2. PICK j \in 1..((i + 1) - 1): s[j] = y
    BY <2>1 DEF Guarded
  <2>3. j # 1
    BY <2>2, <1>1, <1>3
  <2>4. j - 1 \in 1..(i - 1) /\ j - 1 \in 1..Len(Tail(s)) /\ (j - 1) + 1 = j
    BY <2>3, <1>1
  <2>5. Tail(s)[j - 1] = y
    BY <2>2, <2>4, <1>1
  <2> QED BY <2>4, <2>5
<1> QED BY <1>1, <1>2, <1>3 DEF Guarded

\* A guard in front guards the rest.
LEMMA GuardedConcat ==
  ASSUME NEW S, NEW s \in Seq(S), NEW t \in Seq(S), NEW x, NEW y,
         Guarded(s, x, y), y \in Calls(s) \/ Guarded(t, x, y)
  PROVE  Guarded(s \o t, x, y)
<1>1. /\ s \o t \in Seq(S) /\ Len(s) \in Nat /\ Len(t) \in Nat
      /\ DOMAIN s = 1..Len(s) /\ DOMAIN t = 1..Len(t) /\ DOMAIN (s \o t) = 1..(Len(s) + Len(t))
  BY ConcatProperties, LenProperties
<1>2. \A i \in 1..(Len(s) + Len(t)): (s \o t)[i] = IF i <= Len(s) THEN s[i] ELSE t[i - Len(s)]
  BY ConcatProperties
<1> SUFFICES ASSUME NEW i \in 1..(Len(s) + Len(t)), (s \o t)[i] = x
             PROVE  \E j \in 1..(i - 1): (s \o t)[j] = y
  BY <1>1 DEF Guarded
<1>3. CASE i <= Len(s)
  <2>1. i \in DOMAIN s /\ s[i] = x
    BY <1>1, <1>2, <1>3
  <2>2. PICK j \in 1..(i - 1): s[j] = y
    BY <2>1 DEF Guarded
  <2>3. j \in 1..(Len(s) + Len(t)) /\ j <= Len(s)
    BY <1>1, <1>3
  <2> QED BY <2>2, <2>3, <1>2
<1>4. CASE ~(i <= Len(s)) /\ y \in Calls(s)
  <2>1. PICK j \in DOMAIN s: s[j] = y
    BY <1>4 DEF Calls
  <2>2. j \in 1..(i - 1) /\ j \in 1..(Len(s) + Len(t)) /\ j <= Len(s)
    BY <1>1, <1>4
  <2> QED BY <2>1, <2>2, <1>2
<1>5. CASE ~(i <= Len(s)) /\ Guarded(t, x, y)
  <2>1. i - Len(s) \in DOMAIN t /\ t[i - Len(s)] = x
    BY <1>1, <1>2, <1>5
  <2>2. PICK j \in 1..((i - Len(s)) - 1): t[j] = y
    BY <2>1, <1>5 DEF Guarded
  <2>3. Len(s) + j \in 1..(i - 1) /\ Len(s) + j \in 1..(Len(s) + Len(t))
        /\ ~(Len(s) + j <= Len(s)) /\ (Len(s) + j) - Len(s) = j
    BY <1>1
  <2>4. (s \o t)[Len(s) + j] = t[j]
    BY <2>3, <1>2
  <2> QED BY <2>2, <2>3, <2>4
<1> QED BY <1>3, <1>4, <1>5

LEMMA Unguarded ==
  ASSUME NEW s, NEW x, NEW y, x \notin Calls(s)
  PROVE  Guarded(s, x, y)
BY DEF Calls, Guarded

LEMMA PrecedesTail ==
  ASSUME NEW S, NEW s \in Seq(S), s # <<>>, NEW X, NEW y, y \notin X, Precedes(s, X, y)
  PROVE  Precedes(Tail(s), X, y) /\ (Head(s) = y => Calls(s) \cap X = {})
<1>1. /\ Tail(s) \in Seq(S) /\ Len(Tail(s)) = Len(s) - 1 /\ Len(s) \in Nat \ {0} /\ Head(s) = s[1]
      /\ DOMAIN s = 1..Len(s) /\ DOMAIN Tail(s) = 1..Len(Tail(s))
      /\ \A i \in 1..Len(Tail(s)): Tail(s)[i] = s[i + 1]
  BY HeadTailProperties, EmptySeq, LenProperties
<1>2. ASSUME NEW i \in 1..Len(Tail(s)), NEW j \in 1..Len(Tail(s)), Tail(s)[i] \in X, Tail(s)[j] = y
      PROVE  i < j
  <2>1. i + 1 \in DOMAIN s /\ j + 1 \in DOMAIN s
    BY <1>1
  <2>2. s[i + 1] \in X /\ s[j + 1] = y
    BY <1>1, <1>2
  <2>3. i + 1 < j + 1
    BY <2>1, <2>2 DEF Precedes
  <2> QED BY <2>3
<1>3. ASSUME Head(s) = y, NEW i \in 1..Len(s), s[i] \in X PROVE FALSE
  <2>1. 1 \in DOMAIN s /\ s[1] = y
    BY <1>1, <1>3
  <2>2. i < 1
    BY <2>1, <1>1, <1>3 DEF Precedes
  <2> QED BY <2>2
<1>4. Precedes(Tail(s), X, y)
  BY <1>1, <1>2 DEF Precedes
<1> QED BY <1>1, <1>3, <1>4 DEF Calls

LEMMA PrecedesConcat ==
  ASSUME NEW S, NEW s \in Seq(S), NEW t \in Seq(S), NEW X, NEW y,
         y \notin Calls(s), Calls(t) \cap X = {}
  PROVE  Precedes(s \o t, X, y)
<1>1. /\ s \o t \in Seq(S) /\ Len(s) \in Nat /\ Len(t) \in Nat
      /\ DOMAIN s = 1..Len(s) /\ DOMAIN t = 1..Len(t) /\ DOMAIN (s \o t) = 1..(Len(s) + Len(t))
  BY ConcatProperties, LenProperties
<1>2. \A i \in 1..(Len(s) + Len(t)): (s \o t)[i] = IF i <= Len(s) THEN s[i] ELSE t[i - Len(s)]
  BY ConcatProperties
<1>3. ASSUME NEW i \in 1..(Len(s) + Len(t)), (s \o t)[i] \in X PROVE i <= Len(s)
  <2> SUFFICES ASSUME ~(i <= Len(s)) PROVE FALSE
    OBVIOUS
  <2>1. i - Len(s) \in DOMAIN t /\ t[i - Len(s)] \in X
    BY <1>1, <1>2, <1>3
  <2> QED BY <2>1 DEF Calls
<1>4. ASSUME NEW j \in 1..(Len(s) + Len(t)), (s \o t)[j] = y PROVE ~(j <= Len(s))
  <2> SUFFICES ASSUME j <= Len(s) PROVE FALSE
    OBVIOUS
  <2>1. j \in DOMAIN s /\ s[j] = y
    BY <1>1, <1>2, <1>4
  <2> QED BY <2>1 DEF Calls
<1>5. ASSUME NEW i \in DOMAIN (s \o t), NEW j \in DOMAIN (s \o t), (s \o t)[i] \in X, (s \o t)[j] = y
      PROVE  i < j
  <2>1. i <= Len(s) /\ ~(j <= Len(s))
    BY <1>1, <1>3, <1>4, <1>5
  <2> QED BY <2>1, <1>1
<1> QED BY <1>5 DEF Precedes

LEMMA Unordered ==
  ASSUME NEW s, NEW X, NEW y, Calls(s) \cap X = {} \/ y \notin Calls(s)
  PROVE  Precedes(s, X, y)
BY DEF Calls, Precedes

LEMMA ClosesTail ==
  ASSUME NEW S, NEW s \in Seq(S), s # <<>>, Closes(s)
  PROVE  Closes(Tail(s)) /\ (Tail(s) = <<>> => Head(s) \in {"record", "throw"})
<1>1. /\ Tail(s) \in Seq(S) /\ Len(Tail(s)) = Len(s) - 1 /\ Len(s) \in Nat \ {0} /\ Head(s) = s[1]
      /\ \A i \in 1..Len(Tail(s)): Tail(s)[i] = s[i + 1]
  BY HeadTailProperties, EmptySeq, LenProperties
<1>2. CASE Tail(s) = <<>>
  <2>0. Len(<<>>) = 0
    BY EmptySeq
  <2>1. Len(s) - 1 = 0
    BY <1>1, <1>2, <2>0
  <2>2. Len(s) \in Nat
    BY LenProperties
  <2>3. Len(s) = 1
    BY <2>1, <2>2
  <2> QED BY <2>3, <1>1, <1>2 DEF Closes
<1>3. CASE Tail(s) # <<>>
  <2>1. Len(Tail(s)) \in 1..Len(Tail(s)) /\ Len(Tail(s)) + 1 = Len(s)
    BY <1>1, <1>3, EmptySeq
  <2>2. Tail(s)[Len(Tail(s))] = s[Len(s)]
    BY <2>1, <1>1
  <2> QED BY <2>2, <1>3 DEF Closes
<1> QED BY <1>2, <1>3

LEMMA ClosesConcat ==
  ASSUME NEW S, NEW s \in Seq(S), NEW t \in Seq(S), Closes(t), t # <<>>
  PROVE  Closes(s \o t) /\ s \o t # <<>>
<1>1. /\ s \o t \in Seq(S) /\ Len(s) \in Nat /\ Len(t) \in Nat \ {0}
      /\ Len(s \o t) = Len(s) + Len(t)
  BY ConcatProperties, LenProperties, EmptySeq
<1>2. (s \o t)[Len(s) + Len(t)] = t[Len(t)]
  <2>1. Len(s) + Len(t) \in 1..(Len(s) + Len(t)) /\ ~(Len(s) + Len(t) <= Len(s))
        /\ (Len(s) + Len(t)) - Len(s) = Len(t)
    BY <1>1
  <2>2. \A i \in 1..(Len(s) + Len(t)): (s \o t)[i] = IF i <= Len(s) THEN s[i] ELSE t[i - Len(s)]
    BY ConcatProperties
  <2> QED BY <2>1, <2>2
<1> QED BY <1>1, <1>2, EmptySeq DEF Closes

\* How a sequence begins.
Starts(s, x) == s # <<>> /\ Head(s) = x

LEMMA StartsConcat ==
  ASSUME NEW S, NEW s \in Seq(S), NEW t \in Seq(S), NEW x, Starts(s, x)
  PROVE  Starts(s \o t, x)
<1>1. /\ s \o t \in Seq(S) /\ Len(s) \in Nat \ {0} /\ Len(t) \in Nat
      /\ Len(s \o t) = Len(s) + Len(t)
  BY ConcatProperties, LenProperties, EmptySeq DEF Starts
<1>2. s \o t # <<>> /\ 1 \in 1..(Len(s) + Len(t)) /\ 1 <= Len(s)
  BY <1>1
<1>3. (s \o t)[1] = s[1]
  BY <1>2, ConcatProperties
<1> QED BY <1>1, <1>2, <1>3, HeadTailProperties DEF Starts

LEMMA CallsIn ==
  ASSUME NEW S, NEW s \in Seq(S)
  PROVE  Calls(s) \subseteq S
BY LenProperties DEF Calls

LEMMA SeqSubset ==
  ASSUME NEW S, NEW T, S \subseteq T, NEW s \in Seq(S)
  PROVE  s \in Seq(T)
BY LenProperties, IsASeq

LEMMA WhenIn ==
  ASSUME NEW S, NEW s \in Seq(S), NEW b
  PROVE  When(b, s) \in Seq(S)
BY EmptySeq DEF When

\* A concatenation is known by its elements.
LEMMA ConcatIs ==
  ASSUME NEW S, NEW s \in Seq(S), NEW t \in Seq(S), NEW u \in Seq(S), Len(u) = Len(s) + Len(t),
         \A i \in 1..Len(s): u[i] = s[i], \A i \in 1..Len(t): u[Len(s) + i] = t[i]
  PROVE  s \o t = u
<1>1. s \o t \in Seq(S) /\ Len(s \o t) = Len(u) /\ Len(s) \in Nat /\ Len(t) \in Nat
  BY ConcatProperties
<1>2. ASSUME NEW i \in 1..Len(u) PROVE (s \o t)[i] = u[i]
  <2>1. (s \o t)[i] = IF i <= Len(s) THEN s[i] ELSE t[i - Len(s)]
    BY <1>1, ConcatProperties
  <2>2. CASE i <= Len(s)
    BY <2>1, <2>2, <1>1
  <2>3. CASE ~(i <= Len(s))
    <3>1. i - Len(s) \in 1..Len(t) /\ Len(s) + (i - Len(s)) = i
      BY <2>3, <1>1
    <3> QED BY <3>1, <2>1, <2>3
  <2> QED BY <2>2, <2>3
<1> QED BY <1>1, <1>2, SeqEqual

LEMMA TupleCalls ==
  ASSUME NEW a, NEW b, NEW c
  PROVE  /\ Calls(<<a>>) = {a} /\ Calls(<<a, b>>) = {a, b} /\ Calls(<<a, b, c>>) = {a, b, c}
         /\ Calls(<<>>) = {}
<1>1. Calls(<<>>) = {}
  BY DEF Calls
<1>2. Calls(<<a>>) = {a}
  BY DEF Calls
<1>3. Calls(<<a, b>>) = {a, b}
  BY DEF Calls
<1>4. Calls(<<a, b, c>>) = {a, b, c}
  BY DEF Calls
<1> QED BY <1>1, <1>2, <1>3, <1>4

LEMMA OneOne ==
  ASSUME NEW a, NEW b
  PROVE  <<a>> \o <<b>> = <<a, b>>
<1> DEFINE S == {a, b}
           s == <<a>>
           t == <<b>>
           u == <<a, b>>
<1>1. s \in Seq(S) /\ t \in Seq(S) /\ u \in Seq(S)
  OBVIOUS
<1>2. Len(s) = 1 /\ Len(t) = 1 /\ Len(u) = 1 + 1
  OBVIOUS
<1>3. u[1] = s[1]
  OBVIOUS
<1>4. u[1 + 1] = t[1]
  OBVIOUS
<1> HIDE DEF S, s, t, u
<1>5. \A i \in 1..Len(s): u[i] = s[i]
  BY <1>2, <1>3
<1>6. \A i \in 1..Len(t): u[Len(s) + i] = t[i]
  BY <1>2, <1>4
<1>7. Len(u) = Len(s) + Len(t)
  BY <1>2
<1>8. s \o t = u
  BY <1>1, <1>5, <1>6, <1>7, ConcatIs
<1> QED BY <1>8 DEF s, t, u

LEMMA OneTwo ==
  ASSUME NEW a, NEW b, NEW c
  PROVE  <<a>> \o <<b, c>> = <<a, b, c>>
<1> DEFINE S == {a, b, c}
           s == <<a>>
           t == <<b, c>>
           u == <<a, b, c>>
<1>1. s \in Seq(S) /\ t \in Seq(S) /\ u \in Seq(S)
  OBVIOUS
<1>2. Len(s) = 1 /\ Len(t) = 2 /\ Len(u) = 1 + 2
  OBVIOUS
<1>3. u[1] = s[1]
  OBVIOUS
<1>4. u[1 + 1] = t[1] /\ u[1 + 2] = t[2]
  OBVIOUS
<1> HIDE DEF S, s, t, u
<1>5. \A i \in 1..Len(s): u[i] = s[i]
  BY <1>2, <1>3
<1>6. \A i \in 1..Len(t): u[Len(s) + i] = t[i]
  BY <1>2, <1>4
<1>7. Len(u) = Len(s) + Len(t)
  BY <1>2
<1>8. s \o t = u
  BY <1>1, <1>5, <1>6, <1>7, ConcatIs
<1> QED BY <1>8 DEF s, t, u

LEMMA TwoOne ==
  ASSUME NEW a, NEW b, NEW c
  PROVE  <<a, b>> \o <<c>> = <<a, b, c>>
<1> DEFINE S == {a, b, c}
           s == <<a, b>>
           t == <<c>>
           u == <<a, b, c>>
<1>1. s \in Seq(S) /\ t \in Seq(S) /\ u \in Seq(S)
  OBVIOUS
<1>2. Len(s) = 2 /\ Len(t) = 1 /\ Len(u) = 2 + 1
  OBVIOUS
<1>3. u[1] = s[1] /\ u[2] = s[2]
  OBVIOUS
<1>4. u[2 + 1] = t[1]
  OBVIOUS
<1> HIDE DEF S, s, t, u
<1>5. \A i \in 1..Len(s): u[i] = s[i]
  BY <1>2, <1>3
<1>6. \A i \in 1..Len(t): u[Len(s) + i] = t[i]
  BY <1>2, <1>4
<1>7. Len(u) = Len(s) + Len(t)
  BY <1>2
<1>8. s \o t = u
  BY <1>1, <1>5, <1>6, <1>7, ConcatIs
<1> QED BY <1>8 DEF s, t, u

LEMMA ThreeOne ==
  ASSUME NEW a, NEW b, NEW c, NEW d
  PROVE  <<a, b, c>> \o <<d>> = <<a, b, c, d>>
<1> DEFINE S == {a, b, c, d}
           s == <<a, b, c>>
           t == <<d>>
           u == <<a, b, c, d>>
<1>1. s \in Seq(S) /\ t \in Seq(S) /\ u \in Seq(S)
  OBVIOUS
<1>2. Len(s) = 3 /\ Len(t) = 1 /\ Len(u) = 3 + 1
  OBVIOUS
<1>3. u[1] = s[1] /\ u[2] = s[2] /\ u[3] = s[3]
  OBVIOUS
<1>4. u[3 + 1] = t[1]
  OBVIOUS
<1> HIDE DEF S, s, t, u
<1>5. \A i \in 1..Len(s): u[i] = s[i]
  BY <1>2, <1>3
<1>6. \A i \in 1..Len(t): u[Len(s) + i] = t[i]
  BY <1>2, <1>4
<1>7. Len(u) = Len(s) + Len(t)
  BY <1>2
<1>8. s \o t = u
  BY <1>1, <1>5, <1>6, <1>7, ConcatIs
<1> QED BY <1>8 DEF s, t, u

LEMMA FourThree ==
  ASSUME NEW a, NEW b, NEW c, NEW d, NEW e, NEW f, NEW g
  PROVE  <<a, b, c, d>> \o <<e, f, g>> = <<a, b, c, d, e, f, g>>
<1> DEFINE S == {a, b, c, d, e, f, g}
           s == <<a, b, c, d>>
           t == <<e, f, g>>
           u == <<a, b, c, d, e, f, g>>
<1>1. s \in Seq(S) /\ t \in Seq(S) /\ u \in Seq(S)
  OBVIOUS
<1>2. Len(s) = 4 /\ Len(t) = 3 /\ Len(u) = 4 + 3
  OBVIOUS
<1>3. u[1] = s[1] /\ u[2] = s[2] /\ u[3] = s[3] /\ u[4] = s[4]
  OBVIOUS
<1>4. u[4 + 1] = t[1] /\ u[4 + 2] = t[2] /\ u[4 + 3] = t[3]
  OBVIOUS
<1> HIDE DEF S, s, t, u
<1>5. \A i \in 1..Len(s): u[i] = s[i]
  BY <1>2, <1>3
<1>6. \A i \in 1..Len(t): u[Len(s) + i] = t[i]
  BY <1>2, <1>4
<1>7. Len(u) = Len(s) + Len(t)
  BY <1>2
<1>8. s \o t = u
  BY <1>1, <1>5, <1>6, <1>7, ConcatIs
<1> QED BY <1>8 DEF s, t, u

-----------------------------------------------------------------------------
(* The invariant *)

\* What a restart may still have to do once it marked the template.
Chain ==
  {"dropPod", "awaitDropped", "awaitReplaced", "restoreTemplate", "dropStuck", "awaitRestored"}

\* What only a deletion does.
Deleting == {"rmHost", "dropData", "forget"}

\* What a plan of NapCat holds only to delete the endpoint, or not at all.
NotNapCat == {"pull", "drop", "dropSupport", "dropWorkload"}

CallNames ==
  {"save", "forget", "provider", "throw", "record",
   "pull", "rm", "rmHost", "dirs", "create", "start", "startId", "kill", "restart", "stop",
   "verify",
   "support", "claim", "workload", "scaleUp", "scaleDown", "awaitRunning", "awaitGone", "mark",
   "drop", "dropSupport", "dropWorkload", "dropData", "resolve"} \cup Chain

NapCat == setup.provider = "napcat"
Deletes(g) == commands[g].action = "delete"
NoDeletion(n) == \A g \in 1..n: ~Deletes(g)
Foreign == host.workload # None /\ host.workload.owner = "foreign"

ProcessType ==
  [cur: 0..MaxCommands, todo: Seq(CallNames), existing: View \cup {None},
   seen: Seen \cup {None}, memory: (0..MaxCommands) \cup {None}]

Typed ==
  /\ TypeOK
  /\ proc \in ProcessType
  /\ saved <= Len(commands) /\ acted <= Len(commands)
  /\ \A g \in Generations: outcome[g] # "unsent" => g <= Len(commands)

\* The calls left of the plan of the command in hand.
PlanOK ==
  /\ Closes(proc.todo)
  /\ Precedes(proc.todo, Chain, "mark")
  /\ proc.cur # 0 /\ ~Deletes(proc.cur)
       => /\ Calls(proc.todo) \cap Deleting = {}
          /\ NapCat => Calls(proc.todo) \cap NotNapCat = {}
  /\ Calls(proc.todo) \cap Chain # {} => proc.seen # None

HostOK ==
  /\ Foreign => ~host.workload.on /\ proc.cur = 0
  /\ ~Kubernetes => ~host.support /\ (host.data = "foreign" => Foreign)
  /\ host.pod # None => host.pod.id <= host.ids

PodOK ==
  "dropPod" \in Calls(proc.todo)
    => /\ proc.seen.id <= host.ids
       /\ NapCat /\ host.pod # None /\ host.pod.id = proc.seen.id => host.pod.marker # proc.cur

ImageOK ==
  setup.provider = "snowluma" /\ ~Kubernetes /\ proc.cur # 0 /\ ~Deletes(proc.cur)
    /\ "rm" \in Calls(proc.todo)
  => At("pull") \/ host.registry = "local"

DeletionOK ==
  (NapCat \/ ~Kubernetes) /\ proc.cur # 0 /\ Deletes(proc.cur)
  => IF Kubernetes
     THEN \/ proc.todo \in {<<"drop", "dropData", "forget", "record">>,
               <<"scaleDown", "awaitGone", "dropSupport", "dropWorkload", "dropData", "forget", "record">>,
               <<"awaitGone", "dropSupport", "dropWorkload", "dropData", "forget", "record">>,
               <<"dropSupport", "dropWorkload", "dropData", "forget", "record">>}
          \/ ~host.support
             /\ \/ proc.todo = <<"dropWorkload", "dropData", "forget", "record">>
                \/ host.workload = None
                   /\ \/ proc.todo = <<"dropData", "forget", "record">>
                      \/ host.data # "ours"
                         /\ \/ proc.todo = <<"forget", "record">>
                            \/ saved = 0 /\ proc.todo = <<"record">>
     ELSE \/ proc.todo = <<"rm", "rmHost", "forget", "record">>
          \/ host.workload = None
             /\ \/ proc.todo = <<"rmHost", "forget", "record">>
                \/ host.data # "ours"
                   /\ \/ proc.todo = <<"forget", "record">>
                      \/ saved = 0 /\ proc.todo = <<"record">>

GoneOK ==
  Deleted => proc.cur = 0 /\ DeletedMeansGone

FenceOK ==
  NapCat =>
  /\ proc.cur # 0 /\ ~Deletes(proc.cur)
       => At("save") \/ (saved = proc.cur /\ proc.memory = proc.cur)
  /\ NoDeletion(acted)
       => /\ acted <= saved
          /\ proc.memory # None => acted <= proc.memory
          /\ proc.cur # 0 => acted <= proc.cur

\* Nothing is created before its directories or its claim are there.
Prepared(s) == Guarded(s, "workload", "claim") /\ Guarded(s, "create", "dirs")

TraceOK ==
  NapCat =>
  /\ host.workload # None /\ ~Foreign => host.data = "ours"
  /\ acted > 0 /\ NoDeletion(acted) => host.data = "ours" \/ host.support
  /\ Calls(proc.todo) \cap Chain # {} => host.data = "ours" /\ ~Deletes(proc.cur)
  /\ proc.cur # 0 /\ ~Deletes(proc.cur) /\ host.data # "ours"
       => Prepared(proc.todo)

IInv == Typed /\ PlanOK /\ HostOK /\ PodOK /\ ImageOK /\ DeletionOK /\ GoneOK /\ FenceOK /\ TraceOK

-----------------------------------------------------------------------------
(* The plans *)

DockerWork ==
  {"save", "provider", "throw", "record",
   "pull", "rm", "dirs", "create", "start", "startId", "kill", "restart", "stop", "verify"}

ClusterWork ==
  {"save", "provider", "throw", "record", "pull", "support", "claim", "workload",
   "scaleUp", "scaleDown", "awaitRunning", "awaitGone", "mark", "drop", "resolve"}

\* What plans that delete nothing are made of.
Work ==
  (IF Kubernetes THEN ClusterWork ELSE DockerWork) \ (IF NapCat THEN NotNapCat ELSE {})

Orderly(s) == s \in Seq(Work) /\ Prepared(s)

LEMMA WorkCalls ==
  /\ Work \subseteq CallNames /\ Work \cap Chain = {} /\ Work \cap Deleting = {}
  /\ NapCat => Work \cap NotNapCat = {}
  /\ {"save", "provider", "throw", "record"} \subseteq Work
<1>1. DockerWork \subseteq CallNames /\ DockerWork \cap Chain = {} /\ DockerWork \cap Deleting = {}
  BY DEF DockerWork, CallNames, Chain, Deleting
<1>2. ClusterWork \subseteq CallNames /\ ClusterWork \cap Chain = {} /\ ClusterWork \cap Deleting = {}
  BY DEF ClusterWork, CallNames, Chain, Deleting
<1>3. {"save", "provider", "throw", "record"} \subseteq Work
  BY DEF DockerWork, ClusterWork, NotNapCat, Work
<1>4. (IF Kubernetes THEN ClusterWork ELSE DockerWork) \in {ClusterWork, DockerWork}
  OBVIOUS
<1>5. Work \subseteq ClusterWork \/ Work \subseteq DockerWork
  BY <1>4 DEF Work
<1>6. NapCat => Work \cap NotNapCat = {}
  BY DEF Work
<1> QED BY <1>1, <1>2, <1>3, <1>5, <1>6

LEMMA OrderlyConcat ==
  ASSUME NEW s, NEW t, Orderly(s), Orderly(t)
  PROVE  Orderly(s \o t)
BY GuardedConcat, ConcatProperties DEF Orderly, Prepared

LEMMA OrderlyTuples ==
  ASSUME NEW a \in Work \ {"workload", "create"}, NEW b \in Work \ {"workload", "create"},
         NEW c \in Work \ {"workload", "create"}
  PROVE  Orderly(<<>>) /\ Orderly(<<a>>) /\ Orderly(<<a, b>>) /\ Orderly(<<a, b, c>>)
<1>1. /\ <<>> \in Seq(Work) /\ <<a>> \in Seq(Work) /\ <<a, b>> \in Seq(Work)
      /\ <<a, b, c>> \in Seq(Work)
  OBVIOUS
<1>2. ASSUME NEW s, Calls(s) \cap {"workload", "create"} = {}
      PROVE  Prepared(s)
  BY <1>2, Unguarded DEF Prepared
<1>3. /\ Calls(<<>>) \cap {"workload", "create"} = {}
      /\ Calls(<<a>>) \cap {"workload", "create"} = {}
      /\ Calls(<<a, b>>) \cap {"workload", "create"} = {}
      /\ Calls(<<a, b, c>>) \cap {"workload", "create"} = {}
  BY TupleCalls
<1> QED BY <1>1, <1>2, <1>3 DEF Orderly

LEMMA OrderlyWhen ==
  ASSUME NEW s, NEW b, b => Orderly(s)
  PROVE  Orderly(When(b, s))
<1>1. "save" \in Work \ {"workload", "create"}
  BY WorkCalls
<1>2. Orderly(<<>>)
  BY <1>1, OrderlyTuples
<1> QED BY <1>2 DEF When

LEMMA OrderlyEnds ==
  /\ Orderly(Throw) /\ Orderly(Record) /\ Orderly(<<"save">>) /\ Orderly(<<"provider">>)
  /\ Orderly(<<>>) /\ Orderly(<<"save", "provider">>)
<1>1. {"save", "provider", "throw", "record"} \subseteq Work \ {"workload", "create"}
  BY WorkCalls
<1> QED BY <1>1, OrderlyTuples DEF Throw, Record

LEMMA OrderlyEnsure ==
  ASSUME Kubernetes
  PROVE  Orderly(Ensure)
<1>1. Ensure \in Seq(Work)
  BY DEF Ensure, Work, ClusterWork, NotNapCat
<1>2. Guarded(Ensure, "create", "dirs")
  BY DEF Guarded, Ensure
<1>3. Guarded(Ensure, "workload", "claim")
  <2> SUFFICES ASSUME NEW i \in DOMAIN Ensure, Ensure[i] = "workload"
               PROVE  \E j \in 1..(i - 1): Ensure[j] = "claim"
    BY DEF Guarded
  <2>1. i = 3
    BY DEF Ensure
  <2>2. 2 \in 1..(i - 1) /\ Ensure[2] = "claim"
    BY <2>1 DEF Ensure
  <2> QED BY <2>2
<1> QED BY <1>1, <1>2, <1>3 DEF Orderly, Prepared

LEMMA OrderlyClient ==
  ASSUME NEW call \in {"pull", "rm", "dirs", "start", "startId", "kill", "restart", "stop"},
         ~NapCat \/ (~Kubernetes /\ call # "pull")
  PROVE  Orderly(Client(call))
<1>1. CASE ~Kubernetes
  <2>1. call \in Work \ {"workload", "create"} /\ Client(call) = <<call>>
    BY <1>1 DEF Client, Plain, Work, DockerWork, NotNapCat
  <2> QED BY <2>1, OrderlyTuples
<1>2. CASE Kubernetes
  <2> DEFINE Simple == Work \ {"workload", "create"}
  <2>1. Client(call) = Adapted(call)
    BY <1>2 DEF Client
  <2>2. {"pull", "drop", "scaleUp", "awaitRunning", "resolve", "mark", "scaleDown", "awaitGone"}
        \subseteq Simple
    BY <1>2 DEF Work, ClusterWork
  <2> HIDE DEF Simple
  <2>3. ASSUME NEW a \in Simple, NEW b \in Simple, NEW c \in Simple
        PROVE  Orderly(<<>>) /\ Orderly(<<a>>) /\ Orderly(<<a, b>>) /\ Orderly(<<a, b, c>>)
    BY OrderlyTuples DEF Simple
  <2>4. CASE call = "pull"
    <3>1. Adapted(call) = <<"pull">>
      BY <2>4 DEF Adapted
    <3> QED BY <2>1, <2>2, <2>3, <3>1
  <2>5. CASE call = "rm"
    <3>1. Adapted(call) = <<"drop">>
      BY <2>5 DEF Adapted, AdaptedRemoval
    <3> QED BY <2>1, <2>2, <2>3, <3>1
  <2>6. CASE call = "dirs"
    <3>1. Adapted(call) = <<>>
      BY <2>6 DEF Adapted
    <3> QED BY <2>1, <2>2, <2>3, <3>1
  <2>7. CASE call = "start"
    <3>1. Adapted(call) = <<"scaleUp", "awaitRunning">>
      BY <2>7 DEF Adapted
    <3> QED BY <2>1, <2>2, <2>3, <3>1
  <2>8. CASE call = "startId"
    <3>1. Adapted(call) = <<"resolve", "scaleUp", "awaitRunning">>
      BY <2>8 DEF Adapted
    <3> QED BY <2>1, <2>2, <2>3, <3>1
  <2>9. CASE call = "kill"
    <3>1. Adapted(call) = <<"resolve", "mark">>
      BY <2>9 DEF Adapted
    <3> QED BY <2>1, <2>2, <2>3, <3>1
  <2>10. CASE call = "restart"
    <3>1. Adapted(call) = <<"mark">>
      BY <2>10 DEF Adapted
    <3> QED BY <2>1, <2>2, <2>3, <3>1
  <2>11. CASE call = "stop"
    <3>1. Adapted(call) = <<"scaleDown", "awaitGone">>
      BY <2>11 DEF Adapted
    <3> QED BY <2>1, <2>2, <2>3, <3>1
  <2> QED BY <2>4, <2>5, <2>6, <2>7, <2>8, <2>9, <2>10, <2>11
<1> QED BY <1>1, <1>2

LEMMA OrderlyReplaceContainer ==
  ASSUME NEW view, ~NapCat \/ ~Kubernetes
  PROVE  Orderly(ReplaceContainer(view))
<1> DEFINE removal == When(view # None, Client("rm"))
<1>1. Orderly(removal) /\ Orderly(Client("dirs"))
  BY OrderlyClient, OrderlyWhen
<1>2. CASE Kubernetes
  <2>1. Client("create") = Ensure
    BY <1>2 DEF Client, Adapted
  <2>2. Orderly(Client("create"))
    BY <1>2, <2>1, OrderlyEnsure
  <2> QED BY <1>1, <2>2, OrderlyConcat DEF ReplaceContainer
<1>3. CASE ~Kubernetes
  <2>1. Client("create") = <<"create">> /\ Client("dirs") = <<"dirs">>
    BY <1>3 DEF Client, Plain
  <2> DEFINE before == removal \o <<"dirs">>
  <2>2. ReplaceContainer(view) = before \o <<"create">>
    BY <2>1 DEF ReplaceContainer
  <2>3. Orderly(before)
    BY <1>1, <2>1, OrderlyConcat
  <2>4. "dirs" \in Calls(before)
    <3>1. removal \in Seq(Work) /\ <<"dirs">> \in Seq(Work)
      BY <1>1, <2>1 DEF Orderly
    <3>2. "dirs" \in Calls(<<"dirs">>)
      BY TupleCalls
    <3> DEFINE dirs == <<"dirs">>
    <3> HIDE DEF removal, dirs
    <3>3. Calls(removal \o dirs) = Calls(removal) \cup Calls(dirs)
      BY <3>1, CallsOfConcat DEF dirs
    <3> QED BY <3>2, <3>3 DEF dirs
  <2>5. <<"create">> \in Seq(Work)
    BY <1>3 DEF Work, DockerWork, NotNapCat
  <2>6. Guarded(<<"create">>, "workload", "claim")
    BY DEF Guarded
  <2> HIDE DEF before
  <2>7. before \in Seq(Work) /\ Guarded(before, "workload", "claim") /\ Guarded(before, "create", "dirs")
    BY <2>3 DEF Orderly, Prepared
  <2>8. before \o <<"create">> \in Seq(Work)
    BY <2>5, <2>7, ConcatProperties
  <2>9. Guarded(before \o <<"create">>, "create", "dirs")
    BY <2>4, <2>5, <2>7, GuardedConcat
  <2>10. Guarded(before \o <<"create">>, "workload", "claim")
    BY <2>5, <2>6, <2>7, GuardedConcat
  <2> QED BY <2>2, <2>8, <2>9, <2>10 DEF Orderly, Prepared
<1> QED BY <1>2, <1>3

LEMMA OrderlyNapCatLifecycle ==
  ASSUME ~Kubernetes, NEW c, NEW view
  PROVE  Orderly(NapCatLifecycle(c, view))
<1> DEFINE created == c.action # "stop" /\ (view = None \/ view.spec # c.spec)
           first == When(created, ReplaceContainer(view))
           second == CASE c.action = "stop"    -> When(view # None, <<"stop">>)
                       [] c.action = "restart" -> <<"restart">>
                       [] OTHER                -> When(created, <<"start">>)
           third == When(c.action = "refresh-login-qr",
                         IF created \/ IsRunningView(view) THEN <<"provider">> ELSE Throw)
<1>1. Orderly(first)
  BY OrderlyReplaceContainer, OrderlyWhen
<1>2. Orderly(second)
  <2>1. {"stop", "restart", "start"} \subseteq Work \ {"workload", "create"}
    BY DEF Work, DockerWork, NotNapCat
  <2>2. Orderly(<<"stop">>) /\ Orderly(<<"restart">>) /\ Orderly(<<"start">>)
    BY <2>1, OrderlyTuples
  <2>3. Orderly(When(view # None, <<"stop">>)) /\ Orderly(When(created, <<"start">>))
    BY <2>2, OrderlyWhen
  <2> QED BY <2>2, <2>3
<1>3. Orderly(third)
  <2>1. Orderly(IF created \/ IsRunningView(view) THEN <<"provider">> ELSE Throw)
    BY OrderlyEnds
  <2> QED BY <2>1, OrderlyWhen
<1>4. NapCatLifecycle(c, view) = (first \o second) \o third
  BY DEF NapCatLifecycle
<1> HIDE DEF first, second, third
<1> QED BY <1>1, <1>2, <1>3, <1>4, OrderlyConcat

LEMMA SavedFirst ==
  ASSUME NEW s, Orderly(s)
  PROVE  Orderly(<<"save">> \o s) /\ Starts(<<"save">> \o s, "save")
<1>1. Orderly(<<"save">>) /\ Starts(<<"save">>, "save")
  BY OrderlyEnds DEF Starts
<1>2. Orderly(<<"save">> \o s)
  BY <1>1, OrderlyConcat
<1>3. <<"save">> \in Seq(Work) /\ s \in Seq(Work)
  BY <1>1 DEF Orderly
<1>4. Starts(<<"save">> \o s, "save")
  BY <1>1, <1>3, StartsConcat
<1> QED BY <1>2, <1>4

LEMMA OrderlyNapCatDocker ==
  ASSUME NEW c, NEW view, c.action # "delete",
         ~Kubernetes \/ c.action \in {"read-container-logs", "update-onebot-websockets"}
  PROVE  Orderly(NapCatDocker(c, view)) /\ Starts(NapCatDocker(c, view), "save")
<1>1. CASE c.action = "force-restart"
  <2> DEFINE kill == When(view.running, <<"kill">>)
             again == <<"startId", "verify">>
             rest == IF view = None THEN Throw ELSE kill \o again
  <2>1. {"kill", "startId", "verify"} \subseteq Work \ {"workload", "create"}
    BY <1>1 DEF Work, DockerWork, NotNapCat
  <2>2. Orderly(<<"kill">>) /\ Orderly(again)
    BY <2>1, OrderlyTuples
  <2>3. Orderly(kill)
    BY <2>2, OrderlyWhen
  <2>4. Orderly(kill \o again)
    BY <2>2, <2>3, OrderlyConcat
  <2>5. Orderly(rest)
    BY <2>4, OrderlyEnds
  <2>6. NapCatDocker(c, view) = <<"save">> \o rest
    BY <1>1 DEF NapCatDocker
  <2> QED BY <2>5, <2>6, SavedFirst
<1>2. CASE c.action = "read-container-logs"
  <2>1. NapCatDocker(c, view) = <<"save">> \o (IF view = None THEN Throw ELSE <<"provider">>)
    BY <1>2 DEF NapCatDocker
  <2> QED BY <2>1, OrderlyEnds, SavedFirst
<1>3. CASE c.action = "update-onebot-websockets"
  <2>1. NapCatDocker(c, view) = <<"save">> \o (IF IsRunningView(view) THEN <<"provider">> ELSE Throw)
    BY <1>3 DEF NapCatDocker
  <2> QED BY <2>1, OrderlyEnds, SavedFirst
<1>4. CASE c.action = "update-endpoint-proxy" /\ c.desired = "stopped"
  <2> DEFINE removal == When(view # None /\ view.spec # c.spec, <<"rm">>)
  <2>1. "rm" \in Work \ {"workload", "create"}
    BY <1>4 DEF Work, DockerWork, NotNapCat
  <2>2. Orderly(<<"rm">>)
    BY <2>1, OrderlyTuples
  <2>3. Orderly(removal)
    BY <2>2, OrderlyWhen
  <2>4. NapCatDocker(c, view) = <<"save">> \o removal
    BY <1>4 DEF NapCatDocker
  <2> QED BY <2>3, <2>4, SavedFirst
<1>5. CASE /\ c.action \notin {"force-restart", "read-container-logs", "update-onebot-websockets"}
           /\ ~(c.action = "update-endpoint-proxy" /\ c.desired = "stopped")
  <2>1. ~Kubernetes
    BY <1>5
  <2>2. NapCatDocker(c, view) = <<"save">> \o NapCatLifecycle(c, view)
    BY <1>5 DEF NapCatDocker
  <2>3. Orderly(NapCatLifecycle(c, view))
    BY <2>1, OrderlyNapCatLifecycle
  <2> QED BY <2>2, <2>3, SavedFirst
<1> QED BY <1>1, <1>2, <1>3, <1>4, <1>5

LEMMA OrderlyNapCatDriver ==
  ASSUME Kubernetes, NEW c, NEW view, c.action \in AllActions \ {"delete"}
  PROVE  Orderly(NapCatDriver(c, view)) /\ Starts(NapCatDriver(c, view), "save")
<1>1. CASE c.action \in Lifecycle
  <2> DEFINE stopped == c.action = "stop" \/ (c.action = "update-endpoint-proxy" /\ c.desired = "stopped")
             down == <<"scaleDown", "awaitGone">>
             up == <<"scaleUp", "awaitRunning">>
             first == When(c.action # "stop", Ensure)
             second == CASE stopped -> When(view # None \/ c.action # "stop", down)
                         [] c.action = "start" -> up
                         [] OTHER -> <<"mark">>
  <2>1. {"scaleDown", "awaitGone", "scaleUp", "awaitRunning", "mark"} \subseteq Work \ {"workload", "create"}
    BY DEF Work, ClusterWork, NotNapCat
  <2>2. Orderly(down) /\ Orderly(up) /\ Orderly(<<"mark">>)
    BY <2>1, OrderlyTuples
  <2>3. Orderly(first)
    BY OrderlyEnsure, OrderlyWhen
  <2>4. Orderly(When(view # None \/ c.action # "stop", down))
    BY <2>2, OrderlyWhen
  <2>5. Orderly(second)
    <3>1. CASE stopped
      <4>1. second = When(view # None \/ c.action # "stop", down)
        BY <3>1
      <4> QED BY <2>4, <4>1
    <3>2. CASE ~stopped
      <4>1. second = up \/ second = <<"mark">>
        BY <3>2
      <4> QED BY <2>2, <4>1
    <3> QED BY <3>1, <3>2
  <2>6. NapCatDriver(c, view) = ((<<"save">> \o first) \o second) \o <<"save">>
    BY <1>1 DEF NapCatDriver, Lifecycle
  <2> HIDE DEF first, second
  <2>7. Orderly(<<"save">> \o first) /\ Starts(<<"save">> \o first, "save")
    BY <2>3, SavedFirst
  <2>8. Orderly((<<"save">> \o first) \o second) /\ Starts((<<"save">> \o first) \o second, "save")
    BY <2>5, <2>7, OrderlyConcat, StartsConcat DEF Orderly
  <2>9. /\ Orderly(((<<"save">> \o first) \o second) \o <<"save">>)
        /\ Starts(((<<"save">> \o first) \o second) \o <<"save">>, "save")
    BY <2>8, OrderlyEnds, OrderlyConcat, StartsConcat DEF Orderly
  <2> QED BY <2>6, <2>9
<1>2. CASE c.action = "refresh-login-qr"
  <2>1. NapCatDriver(c, view) = <<"save">> \o (IF IsRunningView(view) THEN <<"provider">> ELSE Throw)
    BY <1>2 DEF NapCatDriver, Lifecycle
  <2> QED BY <2>1, OrderlyEnds, SavedFirst
<1>3. CASE c.action \in {"read-container-logs", "update-onebot-websockets"}
  <2>1. NapCatDriver(c, view) = NapCatDocker(c, view)
    BY <1>3 DEF NapCatDriver, Lifecycle
  <2> QED BY <1>3, <2>1, OrderlyNapCatDocker
<1> QED BY <1>1, <1>2, <1>3 DEF AllActions, Lifecycle

LEMMA OrderlyReplace ==
  ASSUME ~NapCat, NEW c, NEW view
  PROVE  Orderly(Replace(c, view))
<1>1. Orderly(ReplaceContainer(view)) /\ Orderly(Client("pull"))
  BY OrderlyReplaceContainer, OrderlyClient
<1>2. Orderly(SnowlumaReplace(view)) /\ Orderly(LLBotReplace(view))
  BY <1>1, OrderlyConcat DEF SnowlumaReplace, LLBotReplace
<1>3. Orderly(IF setup.provider = "snowluma" THEN SnowlumaReplace(view) ELSE LLBotReplace(view))
  BY <1>2
<1> QED BY <1>3, OrderlyWhen DEF Replace

LEMMA OrderlyChangeState ==
  ASSUME ~NapCat, NEW c, NEW view
  PROVE  Orderly(ChangeState(c, view))
<1>1. /\ Orderly(Client("stop")) /\ Orderly(Client("kill")) /\ Orderly(Client("startId"))
      /\ Orderly(Client("start")) /\ Orderly(Client("restart"))
  BY OrderlyClient
<1>2. Orderly(When(view # None, Client("stop"))) /\ Orderly(When(view.running, Client("kill")))
  BY <1>1, OrderlyWhen
<1>3. Orderly(When(view.running, Client("kill")) \o Client("startId"))
  BY <1>1, <1>2, OrderlyConcat
<1>4. Orderly(ForceRestart(view))
  BY <1>3, OrderlyEnds DEF ForceRestart
<1> QED BY <1>1, <1>2, <1>4 DEF ChangeState

LEMMA OrderlyDockerProvider ==
  ASSUME ~NapCat, NEW c, NEW view, c.action # "delete"
  PROVE  Orderly(DockerProvider(c, view))
<1>1. CASE c.action \in {"read-container-logs", "refresh-login-qr"}
  <2>1. DockerProvider(c, view) \in {Throw, <<"provider">>}
    BY <1>1 DEF DockerProvider
  <2> QED BY <2>1, OrderlyEnds
<1>2. CASE c.action = "update-onebot-websockets"
  <2>1. DockerProvider(c, view) \in {Throw, SnowlumaOneBot, LLBotOneBot}
    BY <1>2 DEF DockerProvider
  <2>2. Orderly(SnowlumaOneBot)
    BY OrderlyEnds DEF SnowlumaOneBot
  <2>3. Orderly(LLBotOneBot)
    BY OrderlyEnds, OrderlyClient, OrderlyConcat DEF LLBotOneBot
  <2> QED BY <2>1, <2>2, <2>3, OrderlyEnds
<1>3. CASE c.action = "update-endpoint-proxy" /\ view # None /\ ~IsRunningView(view)
  <2>1. DockerProvider(c, view) = <<"save">>
    BY <1>3 DEF DockerProvider
  <2> QED BY <2>1, OrderlyEnds
<1>4. CASE /\ c.action \notin {"read-container-logs", "refresh-login-qr", "update-onebot-websockets"}
           /\ ~(c.action = "update-endpoint-proxy" /\ view # None /\ ~IsRunningView(view))
  <2>1. DockerProvider(c, view) = (Replace(c, view) \o ChangeState(c, view)) \o <<"save">>
    BY <1>4 DEF DockerProvider
  <2>2. Orderly(Replace(c, view) \o ChangeState(c, view))
    BY OrderlyReplace, OrderlyChangeState, OrderlyConcat
  <2> QED BY <2>1, <2>2, OrderlyEnds, OrderlyConcat
<1> QED BY <1>1, <1>2, <1>3, <1>4

\* On Docker, only a replacement removes the container, and SnowLuma's begins with the image.
LEMMA SnowlumaPullsFirst ==
  ASSUME ~Kubernetes, setup.provider = "snowluma", NEW c, NEW view, c.action # "delete"
  PROVE  Starts(DockerProvider(c, view), "pull") \/ "rm" \notin Calls(DockerProvider(c, view))
<1> ~NapCat
  BY DEF NapCat
<1>0. \A call \in {"pull", "stop", "kill", "startId", "start", "restart"}: Client(call) = <<call>>
  BY DEF Client, Plain
<1>1. CASE c.action \in {"read-container-logs", "refresh-login-qr", "update-onebot-websockets"}
           \/ (c.action = "update-endpoint-proxy" /\ view # None /\ ~IsRunningView(view))
  <2>1. DockerProvider(c, view) \in {<<"throw">>, <<"provider">>, <<"save">>, <<"save", "provider">>}
    BY <1>1 DEF DockerProvider, Throw, SnowlumaOneBot
  <2>2. /\ Calls(<<"throw">>) = {"throw"} /\ Calls(<<"provider">>) = {"provider"}
        /\ Calls(<<"save">>) = {"save"} /\ Calls(<<"save", "provider">>) = {"save", "provider"}
    BY TupleCalls
  <2>3. "rm" \notin Calls(<<"throw">>) /\ "rm" \notin Calls(<<"provider">>)
        /\ "rm" \notin Calls(<<"save">>) /\ "rm" \notin Calls(<<"save", "provider">>)
    BY <2>2
  <2> QED BY <2>1, <2>3
<1>2. CASE ~(\/ c.action \in {"read-container-logs", "refresh-login-qr", "update-onebot-websockets"}
             \/ (c.action = "update-endpoint-proxy" /\ view # None /\ ~IsRunningView(view)))
  <2> DEFINE replace == Replace(c, view)
             change == ChangeState(c, view)
  <2>1. DockerProvider(c, view) = (replace \o change) \o <<"save">>
    BY <1>2 DEF DockerProvider
  <2>2. replace \in Seq(Work) /\ change \in Seq(Work) /\ <<"save">> \in Seq(Work)
    BY OrderlyReplace, OrderlyChangeState, OrderlyEnds DEF Orderly
  <2>3. CASE c.action # "stop" /\ Drift(c, view)
    <3>1. replace = <<"pull">> \o ReplaceContainer(view)
      BY <2>3, <1>0 DEF Replace, SnowlumaReplace, When
    <3>2. Starts(<<"pull">>, "pull") /\ <<"pull">> \in Seq(Work)
      BY DEF Starts, Work, DockerWork
    <3>3. ReplaceContainer(view) \in Seq(Work)
      BY OrderlyReplaceContainer DEF Orderly
    <3>4. Starts(replace, "pull")
      BY <3>1, <3>2, <3>3, StartsConcat
    <3> HIDE DEF replace, change
    <3>5. replace \o change \in Seq(Work)
      BY <2>2, ConcatProperties
    <3>6. Starts(replace \o change, "pull")
      BY <2>2, <3>4, StartsConcat
    <3>7. Starts((replace \o change) \o <<"save">>, "pull")
      BY <2>2, <3>5, <3>6, StartsConcat
    <3> QED BY <2>1, <3>7
  <2>4. CASE ~(c.action # "stop" /\ Drift(c, view))
    <3> DEFINE Other == Work \ {"rm"}
    <3>1. {"save", "throw", "stop", "kill", "startId", "start", "restart"} \subseteq Other
      BY DEF Work, DockerWork, NotNapCat
    <3> HIDE DEF Other
    <3>2. /\ <<"save">> \in Seq(Other) /\ Throw \in Seq(Other) /\ <<"stop">> \in Seq(Other)
          /\ <<"kill">> \in Seq(Other) /\ <<"startId">> \in Seq(Other)
          /\ <<"start">> \in Seq(Other) /\ <<"restart">> \in Seq(Other) /\ <<>> \in Seq(Other)
      BY <3>1 DEF Throw
    <3>3. replace = <<>>
      BY <2>4 DEF Replace, When
    <3>4. /\ When(view # None, <<"stop">>) \in Seq(Other)
          /\ When(view.running, <<"kill">>) \in Seq(Other)
      BY <3>2, WhenIn
    <3>5. When(view.running, <<"kill">>) \o <<"startId">> \in Seq(Other)
      BY <3>2, <3>4, ConcatProperties
    <3>6. ForceRestart(view) \in Seq(Other)
      BY <1>0, <3>2, <3>5 DEF ForceRestart
    <3>7. change \in Seq(Other)
      BY <1>0, <3>2, <3>4, <3>6 DEF ChangeState
    <3>8. replace \in Seq(Other)
      BY <3>2, <3>3
    <3> HIDE DEF replace, change
    <3>9. replace \o change \in Seq(Other)
      BY <3>7, <3>8, ConcatProperties
    <3>10. (replace \o change) \o <<"save">> \in Seq(Other)
      BY <3>2, <3>9, ConcatProperties
    <3>11. Calls((replace \o change) \o <<"save">>) \subseteq Other
      BY <3>10, CallsIn
    <3> QED BY <2>1, <3>11 DEF Other
  <2> QED BY <2>3, <2>4
<1> QED BY <1>1, <1>2

\* What every plan of a command that deletes nothing has.
LEMMA PlanToWork ==
  ASSUME NEW c, NEW view, c.action \in AllActions \ {"delete"}, setup.provider \in ProviderNames
  PROVE  /\ Orderly(Plan(c, view)) /\ Plan(c, view) # <<>> /\ Closes(Plan(c, view))
         /\ NapCat => Starts(Plan(c, view), "save")
         /\ setup.provider = "snowluma" /\ ~Kubernetes
              => Starts(Plan(c, view), "pull") \/ "rm" \notin Calls(Plan(c, view))
<1> DEFINE body == CASE setup.provider = "napcat" /\ Kubernetes  -> NapCatDriver(c, view)
                     [] setup.provider = "napcat" /\ ~Kubernetes -> NapCatDocker(c, view)
                     [] OTHER                                    -> DockerProvider(c, view)
<1>1. Plan(c, view) = body \o Record
  BY DEF Plan
<1>2. Orderly(body) /\ (NapCat => Starts(body, "save"))
  <2>1. CASE setup.provider = "napcat" /\ Kubernetes
    <3>1. body = NapCatDriver(c, view)
      BY <2>1
    <3> QED BY <2>1, <3>1, OrderlyNapCatDriver
  <2>2. CASE setup.provider = "napcat" /\ ~Kubernetes
    <3>1. body = NapCatDocker(c, view)
      BY <2>2
    <3> QED BY <2>2, <3>1, OrderlyNapCatDocker
  <2>3. CASE setup.provider # "napcat"
    <3>1. body = DockerProvider(c, view)
      BY <2>3
    <3> QED BY <2>3, <3>1, OrderlyDockerProvider DEF NapCat
  <2> QED BY <2>1, <2>2, <2>3
<1>3. ASSUME setup.provider = "snowluma", ~Kubernetes
      PROVE  Starts(body, "pull") \/ "rm" \notin Calls(body)
  <2>1. body = DockerProvider(c, view)
    BY <1>3
  <2> QED BY <1>3, <2>1, SnowlumaPullsFirst
<1>4. /\ Orderly(Record) /\ Record # <<>> /\ Closes(Record)
      /\ Calls(Record) = {"record"}
  BY OrderlyEnds, TupleCalls DEF Record, Closes
<1> HIDE DEF body
<1>5. body \in Seq(Work) /\ Record \in Seq(Work)
  BY <1>2, <1>4 DEF Orderly
<1>6. Orderly(body \o Record)
  BY <1>2, <1>4, OrderlyConcat
<1>7. Closes(body \o Record) /\ body \o Record # <<>>
  BY <1>4, <1>5, ClosesConcat
<1>8. NapCat => Starts(body \o Record, "save")
  BY <1>2, <1>5, StartsConcat
<1>9. ASSUME setup.provider = "snowluma", ~Kubernetes
      PROVE  Starts(body \o Record, "pull") \/ "rm" \notin Calls(body \o Record)
  <2>1. CASE Starts(body, "pull")
    BY <1>5, <2>1, StartsConcat
  <2>2. CASE "rm" \notin Calls(body)
    <3>1. Calls(body \o Record) = Calls(body) \cup Calls(Record)
      BY <1>5, CallsOfConcat
    <3> QED BY <1>4, <2>2, <3>1
  <2> QED BY <1>3, <1>9, <2>1, <2>2
<1> QED BY <1>1, <1>6, <1>7, <1>8, <1>9

LEMMA PlanToDelete ==
  ASSUME NEW c, NEW view, c.action = "delete", NapCat \/ ~Kubernetes
  PROVE  IF Kubernetes THEN Plan(c, view) = <<"drop", "dropData", "forget", "record">>
         ELSE \/ Plan(c, view) = <<"rm", "rmHost", "forget", "record">>
              \/ view = None /\ Plan(c, view) = <<"rmHost", "forget", "record">>
<1>1. CASE Kubernetes
  <2>1. Plan(c, view) = <<"drop", "dropData", "forget">> \o <<"record">>
    BY <1>1 DEF Plan, NapCat, NapCatDriver, Lifecycle, Record
  <2> QED BY <1>1, <2>1, ThreeOne
<1>2. CASE ~Kubernetes /\ view = None
  <2>1. <<>> \o <<"rmHost", "forget">> = <<"rmHost", "forget">> /\ <<>> \o <<"rmHost">> = <<"rmHost">>
    <3>1. <<"rmHost", "forget">> \in Seq({"rmHost", "forget"}) /\ <<"rmHost">> \in Seq({"rmHost"})
      OBVIOUS
    <3> QED BY <3>1, ConcatEmptySeq
  <2>2. CASE NapCat
    <3>1. Plan(c, view) = (<<>> \o <<"rmHost", "forget">>) \o <<"record">>
      BY <1>2, <2>2 DEF Plan, NapCat, NapCatDocker, Record, When
    <3> QED BY <1>2, <2>1, <3>1, TwoOne
  <2>3. CASE ~NapCat
    <3>1. Plan(c, view) = ((<<>> \o <<"rmHost">>) \o <<"forget">>) \o <<"record">>
      BY <1>2, <2>3 DEF Plan, NapCat, DockerProvider, DeleteEndpoint, Client, Plain, Record, When
    <3> QED BY <1>2, <2>1, <3>1, OneOne, TwoOne
  <2> QED BY <2>2, <2>3
<1>3. CASE ~Kubernetes /\ view # None
  <2>1. CASE NapCat
    <3>1. Plan(c, view) = (<<"rm">> \o <<"rmHost", "forget">>) \o <<"record">>
      BY <1>3, <2>1 DEF Plan, NapCat, NapCatDocker, Record, When
    <3>2. <<"rm">> \o <<"rmHost", "forget">> = <<"rm", "rmHost", "forget">>
      BY OneTwo
    <3>3. <<"rm", "rmHost", "forget">> \o <<"record">> = <<"rm", "rmHost", "forget", "record">>
      BY ThreeOne
    <3> QED BY <1>3, <3>1, <3>2, <3>3
  <2>2. CASE ~NapCat
    <3>1. Plan(c, view) = ((<<"rm">> \o <<"rmHost">>) \o <<"forget">>) \o <<"record">>
      BY <1>3, <2>2 DEF Plan, NapCat, DockerProvider, DeleteEndpoint, Client, Plain, Record, When
    <3>2. <<"rm">> \o <<"rmHost">> = <<"rm", "rmHost">>
      BY OneOne
    <3>3. <<"rm", "rmHost">> \o <<"forget">> = <<"rm", "rmHost", "forget">>
      BY TwoOne
    <3>4. <<"rm", "rmHost", "forget">> \o <<"record">> = <<"rm", "rmHost", "forget", "record">>
      BY ThreeOne
    <3> QED BY <1>3, <3>1, <3>2, <3>3, <3>4
  <2> QED BY <2>1, <2>2
<1> QED BY <1>1, <1>2, <1>3

LEMMA PlanToDiscard ==
  ASSUME NEW c, NEW view, c.action = "delete", ~NapCat, Kubernetes
  PROVE  /\ Plan(c, view) \in Seq({"drop", "dropData", "forget", "record"})
         /\ Plan(c, view) # <<>> /\ Closes(Plan(c, view))
<1> DEFINE S == {"drop", "dropData", "forget", "record"}
           discard == When(view # None, <<"drop", "dropData">>)
           rest == (discard \o <<>>) \o <<"forget">>
<1>1. Plan(c, view) = rest \o Record
  BY DEF Plan, NapCat, DockerProvider, DeleteEndpoint, Client, Adapted, AdaptedRemoval
<1>2. /\ <<"drop", "dropData">> \in Seq(S) /\ <<>> \in Seq(S) /\ <<"forget">> \in Seq(S)
      /\ Record \in Seq(S) /\ Record # <<>> /\ Closes(Record)
  BY DEF Record, Closes
<1> HIDE DEF S
<1>3. discard \in Seq(S)
  BY <1>2, WhenIn
<1> HIDE DEF discard
<1>4. discard \o <<>> \in Seq(S)
  BY <1>2, <1>3, ConcatProperties
<1>5. rest \in Seq(S)
  BY <1>2, <1>4, ConcatProperties
<1> HIDE DEF rest
<1>6. rest \o Record \in Seq(S)
  BY <1>2, <1>5, ConcatProperties
<1>7. Closes(rest \o Record) /\ rest \o Record # <<>>
  BY <1>2, <1>5, ClosesConcat
<1> QED BY <1>1, <1>6, <1>7 DEF S

-----------------------------------------------------------------------------
(* What the steps do *)

\* A call returned, and the next one is up.
Goes ==
  /\ UNCHANGED <<setup, commands, outcome, saved, faults>>
  /\ proc' = Rest /\ proc.todo # <<>>
  /\ ~At("record") /\ ~At("throw") /\ ~At("mark") /\ ~At("save") /\ ~At("forget")
  /\ acted' = IF host' = host THEN acted ELSE proc.cur

\* What calls that return do to the host.
MovesData ==
  /\ At("dirs") \/ At("claim") => host'.data = "ours"
  /\ At("rmHost") \/ At("dropData") => host'.data = "none"
  /\ host'.data # host.data
       => /\ At("dirs") \/ At("claim") \/ At("rmHost") \/ At("dropData")
          /\ Kubernetes => host.data # "foreign"
  /\ host'.support # host.support => Kubernetes
  /\ At("dropSupport") => ~host'.support
  /\ host.support /\ ~host'.support => At("dropSupport")
  /\ ~host.support /\ host'.support => At("support")

MovesWorkload ==
  /\ At("rm") \/ At("dropWorkload") => host'.workload = None
  /\ At("drop") => host' = host /\ host.workload = None /\ ~host.support
  /\ host.workload # None /\ host'.workload = None
       => (At("rm") /\ ~Kubernetes) \/ (At("dropWorkload") /\ Kubernetes)
  /\ host.workload = None /\ host'.workload # None
       => (At("create") \/ At("workload")) /\ host'.workload.owner = "ours"
  /\ host.workload # None /\ host'.workload # None
       => host'.workload.owner \in {host.workload.owner, "ours"}

MovesPod ==
  /\ (host.pod = None) = (host'.pod = None)
  /\ host.pod # None => host'.pod.id = host.pod.id /\ host'.pod.marker = host.pod.marker
  /\ host'.pod # host.pod
       => \/ At("dropStuck")
          \/ At("dropPod") /\ host.pod # None /\ host.pod.id = proc.seen.id
  /\ host'.ids >= host.ids
  /\ host.registry = "local" => host'.registry = "local"
  /\ At("pull") /\ ~Kubernetes => host'.registry = "local"

\* A call without a trace in the data or the supporting objects changes a workload
\* that is there, or creates one.
MovesTrace ==
  \/ host' = host
  \/ host.workload # None
  \/ host'.data = "ours" \/ host'.support
  \/ At("rmHost") \/ At("dropData") \/ At("dropSupport") \/ At("pull")
  \/ At("dropPod") \/ At("dropStuck") \/ At("create") \/ At("workload")

Moves == host' \in Host /\ MovesData /\ MovesWorkload /\ MovesPod /\ MovesTrace
Worked == Goes /\ Moves

LEMMA HostFields ==
  ASSUME host \in Host
  PROVE  /\ host.workload \in Workload \cup {None} /\ host.pod \in Pod \cup {None}
         /\ host.data \in {"none", "ours", "foreign"} /\ host.support \in BOOLEAN
         /\ host.registry \in {"local", "up", "down"} /\ host.ids \in Nat /\ host.exited \in BOOLEAN
BY DEF Host

LEMMA PullWorks ==
  ASSUME Typed, Pull
  PROVE  Worked \/ Throws
<1> USE DEF Typed, TypeOK
<1> SUFFICES ASSUME Returns(Set("registry", "local")) PROVE Worked
  BY DEF Pull, Needs
<1>1. At("pull") /\ ~Kubernetes /\ host' = [host EXCEPT !.registry = "local"]
  BY DEF Pull, Docker, Returns, Set
<1>2. Goes
  BY <1>1 DEF Goes, Returns, At, Set
<1>3. host' \in Host
  BY <1>1 DEF Host
<1>4. /\ host'.workload = host.workload /\ host'.pod = host.pod /\ host'.data = host.data
      /\ host'.support = host.support /\ host'.ids = host.ids /\ host'.registry = "local"
      /\ host.ids \in Nat
  BY <1>1 DEF Host
<1>5. MovesData
  BY <1>1, <1>4 DEF MovesData, At
<1>6. MovesWorkload
  BY <1>1, <1>4 DEF MovesWorkload, At
<1>7. MovesPod
  BY <1>1, <1>4 DEF MovesPod, At
<1>8. MovesTrace
  BY <1>1 DEF MovesTrace
<1> QED BY <1>2, <1>3, <1>5, <1>6, <1>7, <1>8 DEF Worked, Moves

\* Most calls ask or wait.
LEMMA QuietWorks ==
  ASSUME Typed, Returns(host), proc.todo # <<>>,
         \/ Head(proc.todo) \in {"verify", "provider", "dropPod", "awaitRunning", "awaitGone", "awaitDropped",
                                 "awaitReplaced", "awaitRestored", "resolve"}
         \/ At("pull") /\ Kubernetes
         \/ At("drop") /\ host.workload = None /\ ~host.support
  PROVE  Worked
<1> USE DEF Typed, TypeOK
<1>1. host' = host /\ host' \in Host /\ host.ids \in Nat
  BY DEF Returns, Host
<1>2. Goes
  BY <1>1 DEF Goes, Returns, At
<1>3. MovesData
  BY <1>1 DEF MovesData, At
<1>4. MovesWorkload
  BY <1>1 DEF MovesWorkload, At
<1>5. MovesPod
  BY <1>1 DEF MovesPod, At
<1>6. MovesTrace
  BY <1>1 DEF MovesTrace
<1> QED BY <1>1, <1>2, <1>3, <1>4, <1>5, <1>6 DEF Worked, Moves

\* Others change a workload that is there.
LEMMA ContainerWorks ==
  ASSUME Typed, NEW w \in Workload, host.workload # None, NEW e \in BOOLEAN,
         w.owner \in {host.workload.owner, "ours"}, proc.todo # <<>>,
         Returns([host EXCEPT !.workload = w, !.exited = e]),
         Head(proc.todo) \in {"start", "startId", "kill", "restart", "stop", "scaleUp", "scaleDown",
                              "workload", "restoreTemplate"}
  PROVE  Worked
<1> USE DEF Typed, TypeOK
<1>1. host' = [host EXCEPT !.workload = w, !.exited = e]
  BY DEF Returns
<1>2. Goes
  BY <1>1 DEF Goes, Returns, At
<1>3. host' \in Host
  BY <1>1 DEF Host
<1>4. /\ host'.pod = host.pod /\ host'.data = host.data /\ host'.support = host.support
      /\ host'.registry = host.registry /\ host'.ids = host.ids /\ host'.workload = w
      /\ host.ids \in Nat /\ w # None
  BY <1>1, NoneAssumption DEF Host
<1>5. MovesData
  BY <1>1, <1>4 DEF MovesData, At
<1>6. MovesWorkload
  BY <1>1, <1>4 DEF MovesWorkload, At
<1>7. MovesPod
  BY <1>1, <1>4 DEF MovesPod, At
<1>8. MovesTrace
  BY <1>1, <1>4 DEF MovesTrace
<1> QED BY <1>2, <1>3, <1>5, <1>6, <1>7, <1>8 DEF Worked, Moves

LEMMA WorkloadWorks ==
  ASSUME Typed, NEW w \in Workload, host.workload # None,
         w.owner \in {host.workload.owner, "ours"}, Returns(Set("workload", w)), proc.todo # <<>>,
         Head(proc.todo) \in {"start", "startId", "kill", "restart", "stop", "scaleUp", "scaleDown",
                              "workload", "restoreTemplate"}
  PROVE  Worked
<1>1. host.exited \in BOOLEAN
  BY HostFields DEF Typed, TypeOK
<1>2. Set("workload", w) = [host EXCEPT !.workload = w, !.exited = host.exited]
  BY DEF Set, Typed, TypeOK, Host
<1> QED BY <1>1, <1>2, ContainerWorks

LEMMA RemoveWorks ==
  ASSUME Typed, Remove
  PROVE  Worked
<1> USE DEF Typed, TypeOK
<1>1. At("rm") /\ ~Kubernetes /\ host' = [host EXCEPT !.workload = None]
  BY DEF Remove, Docker, Returns, Set, Needs
<1>2. Goes
  BY <1>1 DEF Goes, Returns, At, Set, Remove
<1>3. host' \in Host
  BY <1>1 DEF Host
<1>4. host'.pod = host.pod /\ host'.data = host.data /\ host'.support = host.support /\ host'.registry = host.registry /\ host'.ids = host.ids
      /\ host'.workload = None
      /\ host.ids \in Nat /\ host.support \in BOOLEAN
  BY <1>1 DEF Host
<1>5. MovesData
  BY <1>1, <1>4 DEF MovesData, At
<1>6. MovesWorkload
  BY <1>1, <1>4 DEF MovesWorkload, At
<1>7. MovesPod
  BY <1>1, <1>4 DEF MovesPod, At
<1>8. MovesTrace
  <2>1. ASSUME host.workload = None PROVE [host EXCEPT !.workload = None] = host
    BY <2>1 DEF Host
  <2> QED BY <2>1, <1>1 DEF MovesTrace
<1> QED BY <1>2, <1>3, <1>5, <1>6, <1>7, <1>8 DEF Worked, Moves

LEMMA RemoveHostEndpointWorks ==
  ASSUME Typed, RemoveHostEndpoint
  PROVE  Worked \/ Throws
<1> USE DEF Typed, TypeOK
<1> SUFFICES ASSUME Returns(Set("data", "none")) PROVE Worked
  BY DEF RemoveHostEndpoint, Needs
<1>1. At("rmHost") /\ ~Kubernetes /\ host' = [host EXCEPT !.data = "none"]
  BY DEF RemoveHostEndpoint, Docker, Returns, Set, Needs
<1>2. Goes
  BY <1>1 DEF Goes, Returns, At, Set, RemoveHostEndpoint
<1>3. host' \in Host
  BY <1>1 DEF Host
<1>4. host'.workload = host.workload /\ host'.pod = host.pod /\ host'.support = host.support /\ host'.registry = host.registry /\ host'.ids = host.ids
      /\ host'.data = "none"
      /\ host.ids \in Nat /\ host.support \in BOOLEAN
  BY <1>1 DEF Host
<1>5. MovesData
  BY <1>1, <1>4 DEF MovesData, At
<1>6. MovesWorkload
  BY <1>1, <1>4 DEF MovesWorkload, At
<1>7. MovesPod
  BY <1>1, <1>4 DEF MovesPod, At
<1>8. MovesTrace
  BY <1>1, <1>4 DEF MovesTrace
<1> QED BY <1>2, <1>3, <1>5, <1>6, <1>7, <1>8 DEF Worked, Moves

LEMMA PrepareDirectoriesWorks ==
  ASSUME Typed, PrepareDirectories
  PROVE  Worked
<1> USE DEF Typed, TypeOK
<1>1. At("dirs") /\ ~Kubernetes /\ host' = [host EXCEPT !.data = "ours"]
  BY DEF PrepareDirectories, Docker, Returns, Set, Needs
<1>2. Goes
  BY <1>1 DEF Goes, Returns, At, Set, PrepareDirectories
<1>3. host' \in Host
  BY <1>1 DEF Host
<1>4. host'.workload = host.workload /\ host'.pod = host.pod /\ host'.support = host.support /\ host'.registry = host.registry /\ host'.ids = host.ids
      /\ host'.data = "ours"
      /\ host.ids \in Nat /\ host.support \in BOOLEAN
  BY <1>1 DEF Host
<1>5. MovesData
  BY <1>1, <1>4 DEF MovesData, At
<1>6. MovesWorkload
  BY <1>1, <1>4 DEF MovesWorkload, At
<1>7. MovesPod
  BY <1>1, <1>4 DEF MovesPod, At
<1>8. MovesTrace
  BY <1>1, <1>4 DEF MovesTrace
<1> QED BY <1>2, <1>3, <1>5, <1>6, <1>7, <1>8 DEF Worked, Moves

LEMMA EnsureSupportWorks ==
  ASSUME Typed, EnsureSupport
  PROVE  Worked
<1> USE DEF Typed, TypeOK
<1>1. At("support") /\ Kubernetes /\ host' = [host EXCEPT !.support = TRUE]
  BY DEF EnsureSupport, Step, Returns, Set, Needs
<1>2. Goes
  BY <1>1 DEF Goes, Returns, At, Set, EnsureSupport
<1>3. host' \in Host
  BY <1>1 DEF Host
<1>4. host'.workload = host.workload /\ host'.pod = host.pod /\ host'.data = host.data /\ host'.registry = host.registry /\ host'.ids = host.ids
      /\ host'.support = TRUE
      /\ host.ids \in Nat /\ host.support \in BOOLEAN
  BY <1>1 DEF Host
<1>5. MovesData
  BY <1>1, <1>4 DEF MovesData, At
<1>6. MovesWorkload
  BY <1>1, <1>4 DEF MovesWorkload, At
<1>7. MovesPod
  BY <1>1, <1>4 DEF MovesPod, At
<1>8. MovesTrace
  BY <1>1, <1>4 DEF MovesTrace
<1> QED BY <1>2, <1>3, <1>5, <1>6, <1>7, <1>8 DEF Worked, Moves

LEMMA EnsureClaimWorks ==
  ASSUME Typed, EnsureClaim
  PROVE  Worked \/ Throws
<1> USE DEF Typed, TypeOK
<1> SUFFICES ASSUME host.data # "foreign", Returns(Set("data", "ours")) PROVE Worked
  BY DEF EnsureClaim, Needs
<1>1. At("claim") /\ Kubernetes /\ host' = [host EXCEPT !.data = "ours"]
  BY DEF EnsureClaim, Step, Returns, Set, Needs
<1>2. Goes
  BY <1>1 DEF Goes, Returns, At, Set, EnsureClaim
<1>3. host' \in Host
  BY <1>1 DEF Host
<1>4. host'.workload = host.workload /\ host'.pod = host.pod /\ host'.support = host.support /\ host'.registry = host.registry /\ host'.ids = host.ids
      /\ host'.data = "ours"
      /\ host.ids \in Nat /\ host.support \in BOOLEAN
  BY <1>1 DEF Host
<1>5. MovesData
  BY <1>1, <1>4 DEF MovesData, At
<1>6. MovesWorkload
  BY <1>1, <1>4 DEF MovesWorkload, At
<1>7. MovesPod
  BY <1>1, <1>4 DEF MovesPod, At
<1>8. MovesTrace
  BY <1>1, <1>4 DEF MovesTrace
<1> QED BY <1>2, <1>3, <1>5, <1>6, <1>7, <1>8 DEF Worked, Moves

LEMMA DropSupportWorks ==
  ASSUME Typed, DropSupport
  PROVE  Worked
<1> USE DEF Typed, TypeOK
<1>1. At("dropSupport") /\ Kubernetes /\ host' = [host EXCEPT !.support = FALSE]
  BY DEF DropSupport, Step, Returns, Set, Needs
<1>2. Goes
  BY <1>1 DEF Goes, Returns, At, Set, DropSupport
<1>3. host' \in Host
  BY <1>1 DEF Host
<1>4. host'.workload = host.workload /\ host'.pod = host.pod /\ host'.data = host.data /\ host'.registry = host.registry /\ host'.ids = host.ids
      /\ host'.support = FALSE
      /\ host.ids \in Nat /\ host.support \in BOOLEAN
  BY <1>1 DEF Host
<1>5. MovesData
  BY <1>1, <1>4 DEF MovesData, At
<1>6. MovesWorkload
  BY <1>1, <1>4 DEF MovesWorkload, At
<1>7. MovesPod
  BY <1>1, <1>4 DEF MovesPod, At
<1>8. MovesTrace
  BY <1>1, <1>4 DEF MovesTrace
<1> QED BY <1>2, <1>3, <1>5, <1>6, <1>7, <1>8 DEF Worked, Moves

LEMMA DropWorkloadWorks ==
  ASSUME Typed, DropWorkload
  PROVE  Worked
<1> USE DEF Typed, TypeOK
<1>1. At("dropWorkload") /\ Kubernetes /\ host' = [host EXCEPT !.workload = None]
  BY DEF DropWorkload, Step, Returns, Set, Needs
<1>2. Goes
  BY <1>1 DEF Goes, Returns, At, Set, DropWorkload
<1>3. host' \in Host
  BY <1>1 DEF Host
<1>4. host'.pod = host.pod /\ host'.data = host.data /\ host'.support = host.support /\ host'.registry = host.registry /\ host'.ids = host.ids
      /\ host'.workload = None
      /\ host.ids \in Nat /\ host.support \in BOOLEAN
  BY <1>1 DEF Host
<1>5. MovesData
  BY <1>1, <1>4 DEF MovesData, At
<1>6. MovesWorkload
  BY <1>1, <1>4 DEF MovesWorkload, At
<1>7. MovesPod
  BY <1>1, <1>4 DEF MovesPod, At
<1>8. MovesTrace
  <2>1. ASSUME host.workload = None PROVE [host EXCEPT !.workload = None] = host
    BY <2>1 DEF Host
  <2> QED BY <2>1, <1>1 DEF MovesTrace
<1> QED BY <1>2, <1>3, <1>5, <1>6, <1>7, <1>8 DEF Worked, Moves

LEMMA DeleteDataWorks ==
  ASSUME Typed, DeleteData
  PROVE  Worked \/ Throws
<1> USE DEF Typed, TypeOK
<1> SUFFICES ASSUME host.data # "foreign", Returns(Set("data", "none")) PROVE Worked
  BY DEF DeleteData, Needs
<1>1. At("dropData") /\ Kubernetes /\ host' = [host EXCEPT !.data = "none"]
  BY DEF DeleteData, Step, Returns, Set, Needs
<1>2. Goes
  BY <1>1 DEF Goes, Returns, At, Set, DeleteData
<1>3. host' \in Host
  BY <1>1 DEF Host
<1>4. host'.workload = host.workload /\ host'.pod = host.pod /\ host'.support = host.support /\ host'.registry = host.registry /\ host'.ids = host.ids
      /\ host'.data = "none"
      /\ host.ids \in Nat /\ host.support \in BOOLEAN
  BY <1>1 DEF Host
<1>5. MovesData
  BY <1>1, <1>4 DEF MovesData, At
<1>6. MovesWorkload
  BY <1>1, <1>4 DEF MovesWorkload, At
<1>7. MovesPod
  BY <1>1, <1>4 DEF MovesPod, At
<1>8. MovesTrace
  BY <1>1, <1>4 DEF MovesTrace
<1> QED BY <1>2, <1>3, <1>5, <1>6, <1>7, <1>8 DEF Worked, Moves

LEMMA InHand ==
  ASSUME Typed, proc.todo # <<>>
  PROVE  /\ proc.cur \in 1..Len(commands) /\ proc.cur \in Generations /\ proc.cur \in Nat
         /\ Cmd \in Command /\ Cmd.spec \in Specs /\ Cmd.action \in AllActions
<1>1. proc.cur \in 0..Len(commands) /\ proc.cur # 0 /\ commands \in Seq(Command)
      /\ Len(commands) \in Nat /\ Len(commands) <= MaxCommands /\ MaxCommands \in Nat
  BY RuntimeAssumption, LenProperties DEF Typed, TypeOK
<1>2. proc.cur \in 1..Len(commands) /\ proc.cur \in Generations
  BY <1>1 DEF Generations
<1>3. commands[proc.cur] \in Command
  BY <1>1, <1>2, ElementOfSeq
<1> QED BY <1>1, <1>2, <1>3 DEF Cmd, Command

LEMMA CreateWorks ==
  ASSUME Typed, Create
  PROVE  Worked \/ Throws
<1> USE DEF Typed, TypeOK
<1> DEFINE w == [owner |-> "ours", spec |-> Cmd.spec, id |-> host.ids + 1, on |-> FALSE, marker |-> 0]
           new == [host EXCEPT !.registry = "local", !.ids = @ + 1, !.exited = FALSE, !.workload = w]
<1> SUFFICES ASSUME Returns(new) PROVE Worked
  BY DEF Create, Needs
<1>0. w \in Workload /\ w # None /\ w.owner = "ours" /\ host.ids \in Nat
  <2>1. host.ids \in Nat /\ proc.todo # <<>>
    BY DEF Host, Create, Docker, At
  <2>2. Cmd.spec \in Specs
    BY <2>1, InHand
  <2>3. w \in Workload
    BY <2>1, <2>2 DEF Workload
  <2> QED BY <2>1, <2>3, NoneAssumption
<1> HIDE DEF w
<1>1. /\ At("create") /\ ~Kubernetes
      /\ host' = [host EXCEPT !.registry = "local", !.ids = @ + 1, !.exited = FALSE, !.workload = w]
  BY DEF Create, Docker, Returns
<1>2. Goes
  BY <1>1 DEF Goes, Returns, At, Create
<1>3. host' \in Host
  <2>1. host' = [workload |-> w, pod |-> host.pod, data |-> host.data, support |-> host.support,
                 registry |-> "local", exited |-> FALSE, ids |-> host.ids + 1]
    BY <1>1 DEF Host
  <2>2. host.ids + 1 \in Nat /\ host.pod \in Pod \cup {None}
        /\ host.data \in {"none", "ours", "foreign"} /\ host.support \in BOOLEAN
    BY <1>0, HostFields
  <2> QED BY <1>0, <2>1, <2>2 DEF Host
<1>4. /\ host'.pod = host.pod /\ host'.data = host.data /\ host'.support = host.support
      /\ host'.registry = "local" /\ host'.ids = host.ids + 1 /\ host'.workload = w
  BY <1>1 DEF Host
<1>5. MovesData
  BY <1>1, <1>4 DEF MovesData, At
<1>6. MovesWorkload
  BY <1>0, <1>1, <1>4 DEF MovesWorkload, At
<1>7. MovesPod
  BY <1>0, <1>1, <1>4 DEF MovesPod, At
<1>8. MovesTrace
  BY <1>1 DEF MovesTrace
<1> QED BY <1>2, <1>3, <1>5, <1>6, <1>7, <1>8 DEF Worked, Moves

LEMMA EnsureWorkloadWorks ==
  ASSUME Typed, EnsureWorkload
  PROVE  Worked
<1> USE DEF Typed, TypeOK
<1> DEFINE w == [owner |-> "ours", spec |-> Cmd.spec, id |-> host.ids + 1, on |-> FALSE, marker |-> 0]
           u == [host.workload EXCEPT !.spec = Cmd.spec]
<1>0. Cmd.spec \in Specs /\ host.ids \in Nat /\ host.workload \in Workload \cup {None}
  <2>1. host.ids \in Nat /\ proc.todo # <<>> /\ host.workload \in Workload \cup {None}
    BY DEF Host, EnsureWorkload, Step, At
  <2> QED BY <2>1, InHand
<1>1. At("workload") /\ Kubernetes
  BY DEF EnsureWorkload, Step
<1>2. CASE host.workload # None
  <2>1. Returns(Set("workload", u))
    BY <1>2 DEF EnsureWorkload, StatefulSet
  <2>2. u \in Workload /\ u.owner = host.workload.owner
    BY <1>0, <1>2 DEF Workload
  <2> HIDE DEF u
  <2> QED BY <1>1, <1>2, <2>1, <2>2, WorkloadWorks DEF At
<1>3. CASE host.workload = None
  <2> DEFINE new == [host EXCEPT !.ids = @ + 1, !.workload = w]
  <2>0. w \in Workload /\ w # None /\ w.owner = "ours"
    <3>1. w \in Workload
      BY <1>0 DEF Workload
    <3> QED BY <3>1, NoneAssumption
  <2>1. Returns(new)
    BY <1>3 DEF EnsureWorkload, StatefulSet
  <2> HIDE DEF w
  <2>2. host' = new
    BY <2>1 DEF Returns
  <2>3. Goes
    BY <1>1, <2>1 DEF Goes, Returns, At
  <2>4. host' \in Host
    <3>1. host' = [workload |-> w, pod |-> host.pod, data |-> host.data, support |-> host.support,
                   registry |-> host.registry, exited |-> host.exited, ids |-> host.ids + 1]
      BY <2>2 DEF Host
    <3>2. host.ids + 1 \in Nat /\ host.pod \in Pod \cup {None}
          /\ host.data \in {"none", "ours", "foreign"} /\ host.support \in BOOLEAN
          /\ host.registry \in {"local", "up", "down"} /\ host.exited \in BOOLEAN
      BY <1>0, HostFields
    <3> QED BY <2>0, <3>1, <3>2 DEF Host
  <2>5. /\ host'.pod = host.pod /\ host'.data = host.data /\ host'.support = host.support
        /\ host'.registry = host.registry /\ host'.ids = host.ids + 1 /\ host'.workload = w
    BY <2>2 DEF Host
  <2>6. MovesData
    BY <1>1, <2>5 DEF MovesData, At
  <2>7. MovesWorkload
    BY <1>1, <1>3, <2>0, <2>5 DEF MovesWorkload, At
  <2>8. MovesPod
    BY <1>0, <1>1, <2>5 DEF MovesPod, At
  <2>9. MovesTrace
    BY <1>1 DEF MovesTrace
  <2> QED BY <2>3, <2>4, <2>6, <2>7, <2>8, <2>9 DEF Worked, Moves
<1> QED BY <1>2, <1>3

\* The pod is told to end, or there is none.
LEMMA TerminatingWorks ==
  ASSUME Typed, Returns(Terminating(host)), proc.todo # <<>>,
         At("dropStuck") \/ (At("dropPod") /\ host.pod # None /\ host.pod.id = proc.seen.id)
  PROVE  Worked
<1> USE DEF Typed, TypeOK
<1> DEFINE p == IF host.pod = None THEN None ELSE [host.pod EXCEPT !.phase = "terminating"]
<1>1. host' = [host EXCEPT !.pod = p]
  BY DEF Returns, Terminating, Host
<1>2. p \in Pod \cup {None} /\ (p = None) = (host.pod = None)
      /\ (host.pod # None => p.id = host.pod.id /\ p.marker = host.pod.marker)
  <2>1. host.pod \in Pod \cup {None}
    BY DEF Host
  <2>2. CASE host.pod # None
    <3>1. p = [host.pod EXCEPT !.phase = "terminating"] /\ host.pod \in Pod
      BY <2>1, <2>2
    <3>2. p \in Pod /\ p.id = host.pod.id /\ p.marker = host.pod.marker
      BY <3>1 DEF Pod
    <3> QED BY <2>2, <3>2, NoneAssumption
  <2> QED BY <2>2
<1> HIDE DEF p
<1>3. Goes
  BY <1>1 DEF Goes, Returns, At
<1>4. host' \in Host
  BY <1>1, <1>2 DEF Host
<1>5. /\ host'.workload = host.workload /\ host'.data = host.data /\ host'.support = host.support
      /\ host'.registry = host.registry /\ host'.ids = host.ids /\ host'.pod = p /\ host.ids \in Nat
  BY <1>1 DEF Host
<1>6. MovesData
  BY <1>5 DEF MovesData, At
<1>7. MovesWorkload
  BY <1>5 DEF MovesWorkload, At
<1>8. MovesPod
  BY <1>2, <1>5 DEF MovesPod, At
<1>9. MovesTrace
  BY DEF MovesTrace
<1> QED BY <1>3, <1>4, <1>6, <1>7, <1>8, <1>9 DEF Worked, Moves

\* A restart marked the template: the pod is there and has to go, or there is
\* nothing to replace.
Marked ==
  /\ UNCHANGED <<setup, commands, outcome, saved, faults>>
  /\ Kubernetes /\ At("mark") /\ host.workload # None
  /\ acted' = proc.cur
  /\ host' \in Host
  /\ host'.workload # None /\ host'.workload.owner = host.workload.owner
  /\ host'.pod = host.pod /\ host'.data = host.data /\ host'.support = host.support
  /\ host'.registry = host.registry /\ host'.ids >= host.ids
  /\ proc' = [proc EXCEPT !.todo = proc'.todo, !.seen = proc'.seen]
  /\ \/ /\ proc'.todo = <<"scaleUp", "awaitRunning">> \o Tail(proc.todo)
        /\ proc'.seen = None
     \/ /\ proc'.todo = <<"dropPod", "awaitDropped", "awaitReplaced">> \o Tail(proc.todo)
        /\ proc'.seen \in Seen /\ host.pod # None /\ proc'.seen.id = host.pod.id
        /\ NapCat => host.pod.marker # proc.cur

\* The call turned into others: the fallback of a restart, or the removal.
Became ==
  /\ UNCHANGED <<setup, commands, outcome, saved, host, acted>> /\ faults' \in 0..MaxFaults
  /\ proc.todo # <<>> /\ proc' = [proc EXCEPT !.todo = proc'.todo]
  /\ \/ /\ At("awaitReplaced")
        /\ \/ proc'.todo = <<"restoreTemplate", "dropStuck", "awaitRestored", "throw">>
           \/ proc'.todo = <<"restoreTemplate", "dropStuck", "awaitRestored", "throw">> \o Tail(proc.todo)
     \/ /\ At("drop") /\ Kubernetes /\ host.workload # None
        /\ proc'.todo = <<"scaleDown", "awaitGone", "dropSupport", "dropWorkload">> \o Tail(proc.todo)

\* The record of the accepted command was written.
Stored ==
  /\ UNCHANGED <<setup, commands, outcome, host, acted, faults>> /\ proc.todo # <<>>
  /\ \/ At("save") /\ proc' = [Rest EXCEPT !.memory = proc.cur] /\ saved' = proc.cur
     \/ At("forget") /\ proc' = [Rest EXCEPT !.memory = 0] /\ saved' = 0

\* The command in hand is over, one way or another.
Ended ==
  /\ UNCHANGED <<setup, commands, saved, host, acted>> /\ faults' \in 0..MaxFaults
  /\ proc.cur # 0
  /\ \E m \in {None, proc.memory} \cup (IF At("save") THEN {proc.cur} ELSE IF At("forget") THEN {0} ELSE {}):
       proc' = [FreshProcess EXCEPT !.memory = m]
  /\ \/ outcome' = outcome
     \/ \E status \in {"failed"} \cup (IF At("record") THEN {"succeeded"} ELSE {}):
          outcome[proc.cur] = "leased" /\ outcome' = [outcome EXCEPT ![proc.cur] = status]

LEMMA ThrowsEnds ==
  ASSUME Typed, proc.todo # <<>>, Throws
  PROVE  Ended
<1>1. proc.cur # 0 /\ faults' \in 0..MaxFaults
  BY DEF Typed, TypeOK, Throws
<1>2. proc' = [FreshProcess EXCEPT !.memory = proc.memory]
  BY DEF Throws, Idle
<1>3. outcome' = outcome \/ (outcome[proc.cur] = "leased" /\ outcome' = [outcome EXCEPT ![proc.cur] = "failed"])
  <2>1. CASE outcome[proc.cur] = "leased"
    BY <2>1 DEF Throws
  <2>2. CASE outcome[proc.cur] # "leased"
    <3>1. outcome' = [outcome EXCEPT ![proc.cur] = outcome[proc.cur]]
      BY <2>2 DEF Throws
    <3> QED BY <3>1 DEF Typed, TypeOK
  <2> QED BY <2>1, <2>2
<1> QED BY <1>1, <1>2, <1>3 DEF Ended, Throws

LEMMA RecordResultEnds ==
  ASSUME Typed, RecordResult
  PROVE  Ended
<1>1. proc.cur # 0 /\ faults' \in 0..MaxFaults /\ At("record")
  BY DEF Typed, TypeOK, RecordResult, At
<1>2. proc' = [FreshProcess EXCEPT !.memory = proc.memory]
  BY DEF RecordResult, Idle
<1>3. outcome' = outcome \/ (outcome[proc.cur] = "leased" /\ outcome' = [outcome EXCEPT ![proc.cur] = "succeeded"])
  <2>1. CASE outcome[proc.cur] = "leased"
    BY <2>1 DEF RecordResult
  <2>2. CASE outcome[proc.cur] # "leased"
    <3>1. outcome' = [outcome EXCEPT ![proc.cur] = outcome[proc.cur]]
      BY <2>2 DEF RecordResult
    <3> QED BY <3>1 DEF Typed, TypeOK
  <2> QED BY <2>1, <2>2
<1> QED BY <1>1, <1>2, <1>3 DEF Ended, RecordResult

LEMMA FaultEnds ==
  ASSUME Typed, Crash \/ LeaseLost \/ IoError
  PROVE  Ended
<1>1. proc.cur # 0 /\ faults' \in 0..MaxFaults
  <2>1. proc.cur # 0 /\ faults < MaxFaults /\ faults' = faults + 1 /\ faults \in 0..MaxFaults
    BY DEF Typed, TypeOK, Crash, LeaseLost, IoError, Faulty
  <2> QED BY <2>1, RuntimeAssumption
<1>2. \E m \in {None, proc.memory} \cup (IF At("save") THEN {proc.cur} ELSE IF At("forget") THEN {0} ELSE {}):
        proc' = [FreshProcess EXCEPT !.memory = m]
  <2>1. CASE Crash
    <3>1. FreshProcess = [FreshProcess EXCEPT !.memory = None]
      BY DEF FreshProcess
    <3> QED BY <2>1, <3>1 DEF Crash
  <2>2. CASE LeaseLost
    BY <2>2 DEF LeaseLost, Idle
  <2>3. CASE IoError
    <3>1. proc' = [FreshProcess EXCEPT !.memory = IF At("save") THEN proc.cur
                                                  ELSE IF At("forget") THEN 0 ELSE proc.memory]
      BY <2>3 DEF IoError, Idle, FreshProcess
    <3> QED BY <3>1
  <2> QED BY <2>1, <2>2, <2>3
<1>3. outcome' = outcome \/ (outcome[proc.cur] = "leased" /\ outcome' = [outcome EXCEPT ![proc.cur] = "failed"])
  <2>1. CASE Crash \/ LeaseLost
    BY <2>1 DEF Crash, LeaseLost
  <2>2. CASE IoError /\ outcome[proc.cur] = "leased"
    BY <2>2 DEF IoError
  <2>3. CASE IoError /\ outcome[proc.cur] # "leased"
    <3>1. outcome' = [outcome EXCEPT ![proc.cur] = outcome[proc.cur]]
      BY <2>3 DEF IoError
    <3> QED BY <3>1 DEF Typed, TypeOK
  <2> QED BY <2>1, <2>2, <2>3
<1>4. UNCHANGED <<setup, commands, saved, host, acted>>
  BY DEF Crash, LeaseLost, IoError
<1> QED BY <1>1, <1>2, <1>3, <1>4 DEF Ended

LEMMA MarkRestartMarks ==
  ASSUME Typed, MarkRestart
  PROVE  Marked
<1> DEFINE replay == CurrentPod = None \/ CurrentPod.marker = Operation
           calls == IF replay THEN <<"scaleUp", "awaitRunning">>
                    ELSE <<"dropPod", "awaitDropped", "awaitReplaced">>
           seen == IF replay THEN None
                   ELSE [id |-> CurrentPod.id, spec |-> CurrentPod.spec, previous |-> StatefulSet.marker]
           w == [StatefulSet EXCEPT !.marker = Operation]
           ids == IF setup.provider = "napcat" THEN host.ids ELSE host.ids + 1
<1>1. /\ At("mark") /\ Kubernetes /\ host.workload # None
      /\ proc' = [proc EXCEPT !.todo = calls \o Tail(proc.todo), !.seen = seen]
      /\ acted' = proc.cur /\ UNCHANGED <<setup, commands, outcome, saved, faults>>
  BY DEF MarkRestart, Step, StatefulSet
<1>2. host' = [host EXCEPT !.workload = w, !.ids = ids]
  BY DEF MarkRestart
<1>3. /\ host \in Host /\ host.workload \in Workload /\ host.pod \in Pod \cup {None}
      /\ host.ids \in Nat /\ ids \in Nat /\ ids >= host.ids
  BY <1>1, HostFields DEF Typed, TypeOK
<1>4. Operation \in Nat /\ (NapCat => Operation = proc.cur)
  <2>1. proc.cur \in Nat
    BY <1>1, InHand DEF At
  <2> QED BY <1>3, <2>1, RuntimeAssumption DEF Operation, NapCat
<1>5. w \in Workload /\ w # None /\ w.owner = host.workload.owner
  <2>1. w \in Workload /\ w.owner = host.workload.owner
    BY <1>3, <1>4 DEF Workload, StatefulSet
  <2> QED BY <2>1, NoneAssumption
<1> HIDE DEF w, ids
<1>6. host' = [workload |-> w, pod |-> host.pod, data |-> host.data, support |-> host.support,
               registry |-> host.registry, exited |-> host.exited, ids |-> ids]
  BY <1>2, <1>3 DEF Host
<1>7. host' \in Host
  BY <1>3, <1>5, <1>6, HostFields DEF Host
<1>8. proc'.todo = calls \o Tail(proc.todo) /\ proc'.seen = seen
  BY <1>1 DEF Typed, ProcessType
<1>9. CASE replay
  BY <1>1, <1>3, <1>5, <1>6, <1>7, <1>8, <1>9 DEF Marked
<1>10. CASE ~replay
  <2>1. host.pod # None /\ host.pod \in Pod /\ host.pod.marker # Operation
    BY <1>3, <1>10 DEF CurrentPod
  <2>2. seen = [id |-> host.pod.id, spec |-> host.pod.spec, previous |-> host.workload.marker]
    BY <1>10 DEF CurrentPod, StatefulSet
  <2>3. seen \in Seen /\ seen.id = host.pod.id
    BY <1>3, <2>1, <2>2 DEF Seen, Pod, Workload
  <2>4. proc'.todo = <<"dropPod", "awaitDropped", "awaitReplaced">> \o Tail(proc.todo)
    BY <1>8, <1>10
  <2>5. NapCat => host.pod.marker # proc.cur
    BY <1>4, <2>1
  <2> HIDE DEF seen, calls, replay
  <2>6. proc' = [proc EXCEPT !.todo = proc'.todo, !.seen = proc'.seen]
    BY <1>1, <1>8
  <2>7. proc'.seen \in Seen /\ proc'.seen.id = host.pod.id
    BY <1>8, <2>3
  <2> QED BY <1>1, <1>3, <1>5, <1>6, <1>7, <2>1, <2>4, <2>5, <2>6, <2>7 DEF Marked
<1> QED BY <1>9, <1>10

LEMMA AwaitReplacedBecomes ==
  ASSUME Typed, Becomes(Restoring \o <<"throw">>), At("awaitReplaced")
  PROVE  Became
<1>1. Restoring \o <<"throw">> = <<"restoreTemplate", "dropStuck", "awaitRestored", "throw">>
  BY ThreeOne DEF Restoring
<1>2. /\ proc' = [proc EXCEPT !.todo = (<<"restoreTemplate", "dropStuck", "awaitRestored", "throw">>) \o Tail(proc.todo)]
      /\ UNCHANGED <<setup, commands, outcome, saved, host, acted, faults>>
  BY <1>1 DEF Becomes
<1>3. proc'.todo = <<"restoreTemplate", "dropStuck", "awaitRestored", "throw">> \o Tail(proc.todo)
  BY <1>2 DEF Typed, ProcessType
<1>4. proc.todo # <<>> /\ faults' \in 0..MaxFaults
  BY <1>2 DEF At, Typed, TypeOK
<1>5. proc' = [proc EXCEPT !.todo = proc'.todo]
  BY <1>2, <1>3
<1> QED BY <1>2, <1>3, <1>4, <1>5 DEF Became

LEMMA DeleteWorkloadWorks ==
  ASSUME Typed, DeleteWorkload
  PROVE  Worked \/ Became \/ Ended
<1>1. At("drop") /\ Kubernetes /\ proc.todo # <<>>
  BY DEF DeleteWorkload, Step, At
<1>2. CASE host.workload # None
  <2>1. /\ proc' = [proc EXCEPT !.todo = <<"scaleDown", "awaitGone", "dropSupport", "dropWorkload">> \o Tail(proc.todo)]
        /\ UNCHANGED <<setup, commands, outcome, saved, host, acted, faults>>
    BY <1>2 DEF DeleteWorkload, Becomes, StatefulSet
  <2>2. proc'.todo = <<"scaleDown", "awaitGone", "dropSupport", "dropWorkload">> \o Tail(proc.todo)
    BY <2>1 DEF Typed, ProcessType
  <2>3. faults' \in 0..MaxFaults
    BY <2>1 DEF Typed, TypeOK
  <2>4. proc' = [proc EXCEPT !.todo = proc'.todo]
    BY <2>1, <2>2
  <2> QED BY <1>1, <1>2, <2>1, <2>2, <2>3, <2>4 DEF Became
<1>3. CASE host.workload = None
  <2>1. Needs(~host.support, host)
    BY <1>3 DEF DeleteWorkload, StatefulSet
  <2>2. CASE ~host.support /\ Returns(host)
    BY <1>1, <1>3, <2>2, QuietWorks
  <2>3. CASE Throws
    BY <1>1, <2>3, ThrowsEnds
  <2> QED BY <2>1, <2>2, <2>3 DEF Needs
<1> QED BY <1>2, <1>3

LEMMA SaveStores ==
  ASSUME Save \/ Forget
  PROVE  Stored
BY DEF Save, Forget, Stored, At

LEMMA VerifyImageWorks ==
  ASSUME Typed, At("pull"), Kubernetes, Returns(Set("registry", "local"))
  PROVE  Worked
<1> USE DEF Typed, TypeOK
<1>1. host' = [host EXCEPT !.registry = "local"]
  BY DEF Returns, Set
<1>2. Goes
  BY <1>1 DEF Goes, Returns, At, Set
<1>3. host' \in Host
  BY <1>1 DEF Host
<1>4. /\ host'.workload = host.workload /\ host'.pod = host.pod /\ host'.data = host.data
      /\ host'.support = host.support /\ host'.ids = host.ids /\ host'.registry = "local"
      /\ host.ids \in Nat
  BY <1>1 DEF Host
<1>5. MovesData
  BY <1>4 DEF MovesData, At
<1>6. MovesWorkload
  BY <1>4 DEF MovesWorkload, At
<1>7. MovesPod
  BY <1>4 DEF MovesPod, At
<1>8. MovesTrace
  BY DEF MovesTrace
<1> QED BY <1>2, <1>3, <1>5, <1>6, <1>7, <1>8 DEF Worked, Moves

LEMMA DockerCallWorks ==
  ASSUME Typed, DockerCall
  PROVE  Worked \/ Ended
<1>0. proc.todo # <<>> /\ host.workload \in Workload \cup {None}
  <2>1. proc.todo # <<>>
    BY DEF DockerCall, Pull, Remove, RemoveHostEndpoint, PrepareDirectories, Create, Start, StartById,
           Kill, Restart, Stop, VerifyRestart, Docker, At
  <2> QED BY <2>1, HostFields DEF Typed, TypeOK
<1>1. ASSUME NEW on \in BOOLEAN, host.workload # None, Returns(Running(on)),
             Head(proc.todo) \in {"start", "startId", "kill", "restart", "stop"}
      PROVE  Worked
  <2> DEFINE w == [host.workload EXCEPT !.on = on]
  <2>1. w \in Workload /\ w.owner = host.workload.owner
    BY <1>0, <1>1 DEF Workload
  <2> DEFINE e == host.exited /\ ~on
  <2>2. Running(on) = [host EXCEPT !.workload = w, !.exited = e]
    BY DEF Running
  <2>3. e \in BOOLEAN
    BY <1>1
  <2> HIDE DEF w, e
  <2> QED BY <1>0, <1>1, <2>1, <2>2, <2>3, ContainerWorks
<1>2. ASSUME Throws PROVE Ended
  BY <1>0, <1>2, ThrowsEnds
<1>3. CASE Pull
  BY <1>2, <1>3, PullWorks
<1>4. CASE Remove
  BY <1>4, RemoveWorks
<1>5. CASE RemoveHostEndpoint
  BY <1>2, <1>5, RemoveHostEndpointWorks
<1>6. CASE PrepareDirectories
  BY <1>6, PrepareDirectoriesWorks
<1>7. CASE Create
  BY <1>2, <1>7, CreateWorks
<1>8. CASE Start
  BY <1>1, <1>2, <1>8 DEF Start, Needs, Docker, At, Container
<1>9. CASE StartById
  BY <1>1, <1>2, <1>9 DEF StartById, Needs, Docker, At, SameContainer, Container
<1>10. CASE Kill
  BY <1>1, <1>2, <1>10 DEF Kill, Needs, Docker, At, SameContainer, Container
<1>11. CASE Restart
  BY <1>1, <1>2, <1>11 DEF Restart, Needs, Docker, At, Container
<1>12. CASE Stop
  BY <1>1, <1>2, <1>12 DEF Stop, Needs, Docker, At, Container
<1>13. CASE VerifyRestart
  BY <1>0, <1>2, <1>13, QuietWorks DEF VerifyRestart, Needs, Docker, At
<1> QED BY <1>3, <1>4, <1>5, <1>6, <1>7, <1>8, <1>9, <1>10, <1>11, <1>12, <1>13 DEF DockerCall

LEMMA NextCallIsOne ==
  ASSUME Typed, proc.todo # <<>>
  PROVE  /\ proc.todo \in Seq(CallNames) /\ Head(proc.todo) \in Calls(proc.todo)
         /\ Head(proc.todo) \in CallNames
         /\ Tail(proc.todo) \in Seq(CallNames) /\ Calls(Tail(proc.todo)) \subseteq Calls(proc.todo)
<1>1. proc.todo \in Seq(CallNames)
  BY DEF Typed, ProcessType
<1>2. /\ Tail(proc.todo) \in Seq(CallNames) /\ Head(proc.todo) \in Calls(proc.todo)
      /\ Calls(proc.todo) = {Head(proc.todo)} \cup Calls(Tail(proc.todo))
  BY <1>1, CallsOfTail
<1>3. Calls(proc.todo) \subseteq CallNames
  BY <1>1, CallsIn
<1> QED BY <1>1, <1>2, <1>3

LEMMA RestoreTemplateWorks ==
  ASSUME Typed, PlanOK, RestoreTemplate
  PROVE  Worked
<1> DEFINE w == [host.workload EXCEPT !.spec.resources = proc.seen.spec.resources,
                                      !.marker = proc.seen.previous]
<1>1. At("restoreTemplate") /\ proc.todo # <<>> /\ host.workload # None /\ Returns(Set("workload", w))
  BY DEF RestoreTemplate, Step, At, StatefulSet
<1>2. proc.seen \in Seen
  <2>1. "restoreTemplate" \in Calls(proc.todo) /\ "restoreTemplate" \in Chain
    BY <1>1, NextCallIsOne DEF At, Chain
  <2>2. proc.seen # None
    BY <2>1 DEF PlanOK
  <2> QED BY <2>2 DEF Typed, TypeOK
<1>3. host.workload \in Workload
  BY <1>1, HostFields DEF Typed, TypeOK
<1>4. w \in Workload /\ w.owner = host.workload.owner
  <2>1. proc.seen.spec.resources \in {"small", "big"} /\ proc.seen.previous \in Nat
    BY <1>2 DEF Seen, Specs
  <2>2. ASSUME NEW v \in Workload, NEW r \in {"small", "big"}, NEW m \in Nat
        PROVE  /\ [v EXCEPT !.spec.resources = r, !.marker = m] \in Workload
               /\ [v EXCEPT !.spec.resources = r, !.marker = m].owner = v.owner
    <3>1. v.spec \in Specs /\ [v.spec EXCEPT !.resources = r] \in Specs
      BY DEF Workload, Specs
    <3>2. \A spec \in Specs: /\ [v EXCEPT !.spec = spec, !.marker = m] \in Workload
                              /\ [v EXCEPT !.spec = spec, !.marker = m].owner = v.owner
      BY DEF Workload
    <3>3. [v EXCEPT !.spec.resources = r, !.marker = m]
            = [v EXCEPT !.spec = [v.spec EXCEPT !.resources = r], !.marker = m]
      OBVIOUS
    <3> QED BY <3>1, <3>2, <3>3
  <2> QED BY <1>3, <2>1, <2>2
<1> HIDE DEF w
<1> QED BY <1>1, <1>4, WorkloadWorks DEF At

LEMMA KubernetesCallWorks ==
  ASSUME Typed, PlanOK, KubernetesCall
  PROVE  Worked \/ Marked \/ Became \/ Ended
<1>0. proc.todo # <<>> /\ Kubernetes /\ host.workload \in Workload \cup {None}
  <2>1. proc.todo # <<>> /\ Kubernetes
    BY DEF KubernetesCall, EnsureSupport, EnsureClaim, EnsureWorkload, ScaleUp, ScaleDown, AwaitRunning,
           AwaitGone, MarkRestart, DropPod, AwaitDropped, AwaitReplaced, RestoreTemplate, DropStuck,
           AwaitRestored, DeleteWorkload, DropSupport, DropWorkload, DeleteData, VerifyImage,
           ResolveName, Step, At
  <2> QED BY <2>1, HostFields DEF Typed, TypeOK
<1>1. ASSUME NEW on \in BOOLEAN, Scale(on), Head(proc.todo) \in {"scaleUp", "scaleDown"}
      PROVE  Worked \/ Ended
  <2> DEFINE w == [host.workload EXCEPT !.on = on]
  <2>1. CASE Throws
    BY <1>0, <2>1, ThrowsEnds
  <2>2. CASE host.workload # None /\ Returns(Set("workload", w))
    <3>1. w \in Workload /\ w.owner = host.workload.owner
      BY <1>0, <2>2 DEF Workload
    <3> HIDE DEF w
    <3> QED BY <1>0, <1>1, <2>2, <3>1, WorkloadWorks
  <2> QED BY <1>1, <2>1, <2>2 DEF Scale, Needs, StatefulSet
<1>2. ASSUME Throws PROVE Ended
  BY <1>0, <1>2, ThrowsEnds
<1>3. ASSUME Returns(host), \/ Head(proc.todo) \in {"awaitRunning", "awaitGone", "awaitDropped",
                                 "awaitReplaced", "awaitRestored", "resolve"}
                            \/ At("pull")
      PROVE  Worked
  BY <1>0, <1>3, QuietWorks
<1>4. CASE EnsureSupport
  BY <1>4, EnsureSupportWorks
<1>5. CASE EnsureClaim
  BY <1>2, <1>5, EnsureClaimWorks
<1>6. CASE EnsureWorkload
  BY <1>6, EnsureWorkloadWorks
<1>7. CASE ScaleUp \/ ScaleDown
  BY <1>1, <1>7 DEF ScaleUp, ScaleDown, Step, At
<1>8. CASE AwaitRunning
  BY <1>2, <1>3, <1>8 DEF AwaitRunning, Step, At
<1>9. CASE AwaitGone
  BY <1>3, <1>9 DEF AwaitGone, Step, At
<1>10. CASE MarkRestart
  BY <1>10, MarkRestartMarks
<1>11. CASE DropPod
  <2>1. At("dropPod")
    BY <1>11 DEF DropPod, Step
  <2>2. CASE host.pod # None /\ host.pod.id = proc.seen.id
    <3>1. Returns(Terminating(host))
      BY <1>11, <2>2 DEF DropPod, CurrentPod
    <3> QED BY <1>0, <2>1, <2>2, <3>1, TerminatingWorks
  <2>3. CASE ~(host.pod # None /\ host.pod.id = proc.seen.id)
    <3>1. Returns(host)
      BY <1>11, <2>3 DEF DropPod, CurrentPod
    <3> QED BY <1>0, <2>1, <3>1, QuietWorks DEF At
  <2> QED BY <2>2, <2>3
<1>12. CASE AwaitDropped
  BY <1>3, <1>12 DEF AwaitDropped, Step, At
<1>13. CASE AwaitReplaced
  <2>1. CASE Returns(host)
    BY <1>3, <1>13, <2>1 DEF AwaitReplaced, Step, At
  <2>2. CASE Becomes(Restoring \o <<"throw">>)
    BY <1>13, <2>2, AwaitReplacedBecomes DEF AwaitReplaced, Step
  <2> QED BY <1>13, <2>1, <2>2 DEF AwaitReplaced
<1>14. CASE RestoreTemplate
  BY <1>14, RestoreTemplateWorks
<1>15. CASE DropStuck
  BY <1>0, <1>15, TerminatingWorks DEF DropStuck, Step
<1>16. CASE AwaitRestored
  BY <1>3, <1>16 DEF AwaitRestored, Step, At
<1>17. CASE DeleteWorkload
  BY <1>17, DeleteWorkloadWorks
<1>18. CASE DropSupport
  BY <1>18, DropSupportWorks
<1>19. CASE DropWorkload
  BY <1>19, DropWorkloadWorks
<1>20. CASE DeleteData
  BY <1>2, <1>20, DeleteDataWorks
<1>21. CASE VerifyImage
  <2>1. At("pull") /\ Kubernetes
    BY <1>21 DEF VerifyImage, Step
  <2>2. CASE Returns(host)
    BY <1>3, <2>1, <2>2
  <2>3. CASE Returns(Set("registry", "local"))
    BY <2>1, <2>3, VerifyImageWorks
  <2>4. CASE Throws
    BY <1>2, <2>4
  <2> QED BY <1>21, <2>2, <2>3, <2>4 DEF VerifyImage, Needs
<1>22. CASE ResolveName
  BY <1>2, <1>3, <1>22 DEF ResolveName, Needs, Step, At
<1> QED BY <1>4, <1>5, <1>6, <1>7, <1>8, <1>9, <1>10, <1>11, <1>12, <1>13, <1>14, <1>15, <1>16, <1>17,
           <1>18, <1>19, <1>20, <1>21, <1>22 DEF KubernetesCall

\* What the container, the cluster and the registry do by themselves.
Drifted ==
  /\ UNCHANGED <<setup, commands, outcome, proc, saved, acted>> /\ faults' \in 0..MaxFaults
  /\ host' \in Host /\ host'.data = host.data /\ host'.support = host.support
  /\ \/ host'.workload = host.workload
     \/ /\ ~Kubernetes /\ host.workload # None /\ host.workload.on
        /\ host'.workload # None /\ host'.workload.owner = host.workload.owner
  /\ host'.ids >= host.ids
  /\ host.registry = "local" => host'.registry = "local"
  /\ \/ host'.pod = None
     \/ /\ host.pod # None /\ host'.pod # None
        /\ host'.pod.id = host.pod.id /\ host'.pod.marker = host.pod.marker
     \/ host'.pod # None /\ host'.pod.id = host'.ids /\ host'.ids > host.ids
  /\ IsRunning => host'.pod = host.pod

LEMMA WaitTimesOutEnds ==
  ASSUME Typed, WaitTimesOut
  PROVE  Became \/ Ended
<1>1. /\ proc.todo # <<>> /\ proc.cur # 0 /\ faults' \in 0..MaxFaults
      /\ UNCHANGED <<setup, commands, saved, host, acted>>
  <2>1. proc.todo # <<>> /\ proc.cur # 0 /\ faults < MaxFaults /\ faults' = faults + 1 /\ faults \in 0..MaxFaults
    BY DEF Typed, TypeOK, WaitTimesOut
  <2>2. faults' \in 0..MaxFaults
    BY <2>1, RuntimeAssumption
  <2> QED BY <2>1, <2>2 DEF WaitTimesOut
<1>2. CASE /\ Head(proc.todo) = "awaitReplaced"
           /\ proc' = [proc EXCEPT !.todo = Restoring \o <<"throw">>]
           /\ UNCHANGED outcome
  <2>1. Restoring \o <<"throw">> = <<"restoreTemplate", "dropStuck", "awaitRestored", "throw">>
    BY ThreeOne DEF Restoring
  <2>2. proc' = [proc EXCEPT !.todo = <<"restoreTemplate", "dropStuck", "awaitRestored", "throw">>]
    BY <1>2, <2>1
  <2>3. proc'.todo = <<"restoreTemplate", "dropStuck", "awaitRestored", "throw">>
    BY <2>2 DEF Typed, ProcessType
  <2>4. proc' = [proc EXCEPT !.todo = proc'.todo] /\ At("awaitReplaced")
    BY <1>1, <1>2, <2>2, <2>3 DEF At
  <2> QED BY <1>1, <1>2, <2>3, <2>4 DEF Became
<1>3. CASE /\ proc' = Idle
           /\ outcome' = [outcome EXCEPT ![proc.cur] = IF @ = "leased" THEN "failed" ELSE @]
  <2>1. proc' = [FreshProcess EXCEPT !.memory = proc.memory]
    BY <1>3 DEF Idle
  <2>2. outcome' = outcome \/ (outcome[proc.cur] = "leased" /\ outcome' = [outcome EXCEPT ![proc.cur] = "failed"])
    <3>1. CASE outcome[proc.cur] = "leased"
      BY <1>3, <3>1
    <3>2. CASE outcome[proc.cur] # "leased"
      <4>1. outcome' = [outcome EXCEPT ![proc.cur] = outcome[proc.cur]]
        BY <1>3, <3>2
      <4> QED BY <4>1 DEF Typed, TypeOK
    <3> QED BY <3>1, <3>2
  <2> QED BY <1>1, <2>1, <2>2 DEF Ended
<1> QED BY <1>2, <1>3 DEF WaitTimesOut

LEMMA ContainerExitsDrifts ==
  ASSUME Typed, ContainerExits
  PROVE  Drifted
<1> DEFINE w == [host.workload EXCEPT !.on = FALSE]
<1>1. /\ ~Kubernetes /\ host.workload # None /\ host.workload.on
      /\ host' = [host EXCEPT !.workload = w, !.exited = TRUE]
      /\ UNCHANGED <<setup, commands, outcome, proc, saved, acted>>
      /\ faults < MaxFaults /\ faults' = faults + 1 /\ faults \in 0..MaxFaults
  BY DEF ContainerExits, Running, Container, Set, Typed, TypeOK
<1>2. host \in Host /\ host.workload \in Workload /\ host.ids \in Nat /\ host.pod \in Pod \cup {None}
  BY <1>1, HostFields DEF Typed, TypeOK
<1>3. w \in Workload /\ w.owner = host.workload.owner /\ w # None
  <2>1. w \in Workload /\ w.owner = host.workload.owner
    BY <1>2 DEF Workload
  <2> QED BY <2>1, NoneAssumption
<1> HIDE DEF w
<1>4. host' \in Host
  BY <1>1, <1>2, <1>3 DEF Host
<1>5. /\ host'.workload = w /\ host'.pod = host.pod /\ host'.data = host.data
      /\ host'.support = host.support /\ host'.registry = host.registry /\ host'.ids = host.ids
  BY <1>1, <1>2 DEF Host
<1>6. faults' \in 0..MaxFaults
  BY <1>1, RuntimeAssumption
<1>7. host'.ids >= host.ids
  BY <1>2, <1>5
<1> QED BY <1>1, <1>3, <1>4, <1>5, <1>6, <1>7 DEF Drifted

LEMMA RegistryDrifts ==
  ASSUME Typed, RegistryFails \/ RegistryReturns
  PROVE  Drifted
<1>1. PICK r \in {"up", "down"}: host' = [host EXCEPT !.registry = r]
  BY DEF RegistryFails, RegistryReturns, Set
<1>2. host \in Host /\ host.ids \in Nat /\ host.registry # "local"
  BY HostFields DEF Typed, TypeOK, RegistryFails, RegistryReturns
<1>3. host' \in Host
  BY <1>1, <1>2 DEF Host
<1>4. /\ host'.workload = host.workload /\ host'.pod = host.pod /\ host'.data = host.data
      /\ host'.support = host.support /\ host'.ids = host.ids
  BY <1>1, <1>2 DEF Host
<1>5. faults' \in 0..MaxFaults
  <2>1. faults \in 0..MaxFaults /\ (faults' = faults \/ (faults < MaxFaults /\ faults' = faults + 1))
    BY DEF Typed, TypeOK, RegistryFails, RegistryReturns
  <2> QED BY <2>1, RuntimeAssumption
<1>6. UNCHANGED <<setup, commands, outcome, proc, saved, acted>>
  BY DEF RegistryFails, RegistryReturns
<1>7. host'.ids >= host.ids
  BY <1>2, <1>4
<1> QED BY <1>2, <1>3, <1>4, <1>5, <1>6, <1>7 DEF Drifted

LEMMA ClusterStepDrifts ==
  ASSUME Typed, ClusterStep
  PROVE  Drifted
<1>0. /\ host \in Host /\ host.ids \in Nat /\ host.pod \in Pod \cup {None}
      /\ host.workload \in Workload \cup {None} /\ faults \in 0..MaxFaults
  BY HostFields DEF Typed, TypeOK
<1>1. UNCHANGED <<setup, commands, outcome, proc, saved, acted, faults>>
  BY DEF ClusterStep, CreatePod, StartPod, RetirePod, PodEnds, Cluster
<1>2. ASSUME NEW p \in Pod \cup {None}, NEW r \in {"local", host.registry}, NEW n \in Nat, n >= host.ids,
             host' = [host EXCEPT !.pod = p, !.registry = r, !.ids = n],
             \/ p = None
             \/ host.pod # None /\ p # None /\ p.id = host.pod.id /\ p.marker = host.pod.marker
             \/ p # None /\ p.id = n /\ n > host.ids,
             IsRunning => p = host.pod
      PROVE  Drifted
  <2>1. host' = [workload |-> host.workload, pod |-> p, data |-> host.data, support |-> host.support,
                 registry |-> r, exited |-> host.exited, ids |-> n]
    BY <1>0, <1>2 DEF Host
  <2>2. host' \in Host
    BY <1>0, <2>1, HostFields DEF Host
  <2> QED BY <1>0, <1>1, <1>2, <2>1, <2>2 DEF Drifted
<1>3. CASE CreatePod
  <2> DEFINE p == [id |-> host.ids + 1, spec |-> host.workload.spec,
                   marker |-> host.workload.marker, phase |-> "pending"]
  <2>1. /\ host.workload # None /\ host.pod = None
        /\ host' = [host EXCEPT !.ids = host.ids + 1, !.pod = p]
    BY <1>3 DEF CreatePod, Cluster, StatefulSet, CurrentPod
  <2>2. p \in Pod /\ p.id = host.ids + 1
    BY <1>0, <2>1 DEF Pod, Workload
  <2> HIDE DEF p
  <2>3. host' = [host EXCEPT !.pod = p, !.registry = host.registry, !.ids = host.ids + 1]
    BY <1>0, <2>1 DEF Host
  <2>4. ~IsRunning
    BY <2>1 DEF IsRunning, PodRuns, CurrentPod
  <2>5. host.ids + 1 \in Nat /\ host.ids + 1 >= host.ids /\ host.ids + 1 > host.ids /\ p # None
    BY <1>0, <2>2, NoneAssumption
  <2> QED BY <1>2, <2>2, <2>3, <2>4, <2>5
<1>4. ASSUME host.pod # None, NEW phase \in {"running", "terminating"}, NEW r \in {"local", host.registry},
             host' = [host EXCEPT !.pod = [host.pod EXCEPT !.phase = phase], !.registry = r], ~IsRunning
      PROVE  Drifted
  <2> DEFINE p == [host.pod EXCEPT !.phase = phase]
  <2>1. p \in Pod /\ p.id = host.pod.id /\ p.marker = host.pod.marker
    BY <1>0, <1>4 DEF Pod
  <2> HIDE DEF p
  <2>2. host' = [host EXCEPT !.pod = p, !.registry = r, !.ids = host.ids]
    <3>1. host' = [host EXCEPT !.pod = p, !.registry = r]
      BY <1>4 DEF p
    <3> QED BY <1>0, <3>1 DEF Host
  <2>3. p # None /\ host.ids >= host.ids
    BY <1>0, <2>1, NoneAssumption
  <2> QED BY <1>0, <1>2, <1>4, <2>1, <2>2, <2>3
<1>5. CASE StartPod
  <2>1. /\ host.pod # None /\ host.pod.phase = "pending"
        /\ host' = [host EXCEPT !.pod = [host.pod EXCEPT !.phase = "running"], !.registry = "local"]
    BY <1>0, <1>5 DEF StartPod, Cluster, CurrentPod, Host, Pod
  <2>2. ~IsRunning
    BY <2>1 DEF IsRunning, PodRuns, CurrentPod
  <2> QED BY <1>4, <2>1, <2>2
<1>6. CASE RetirePod
  <2>1. /\ host.pod # None /\ (host.workload # None => ~host.workload.on)
        /\ host' = [host EXCEPT !.pod = [host.pod EXCEPT !.phase = "terminating"]]
    BY <1>6 DEF RetirePod, Cluster, CurrentPod, StatefulSet, Terminating
  <2>2. ~IsRunning
    BY <2>1 DEF IsRunning, StatefulSet
  <2>3. host' = [host EXCEPT !.pod = [host.pod EXCEPT !.phase = "terminating"], !.registry = host.registry]
    BY <1>0, <2>1 DEF Host
  <2> QED BY <1>4, <2>1, <2>2, <2>3
<1>7. CASE PodEnds
  <2>1. /\ host.pod # None /\ host.pod.phase = "terminating" /\ host' = [host EXCEPT !.pod = None]
    BY <1>7 DEF PodEnds, Cluster, CurrentPod, Set
  <2>2. ~IsRunning
    BY <2>1 DEF IsRunning, PodRuns, CurrentPod
  <2>3. host' = [host EXCEPT !.pod = None, !.registry = host.registry, !.ids = host.ids]
    BY <1>0, <2>1 DEF Host
  <2>4. host.ids >= host.ids
    BY <1>0
  <2> QED BY <1>0, <1>2, <2>2, <2>3, <2>4
<1> QED BY <1>3, <1>5, <1>6, <1>7 DEF ClusterStep

\* Every step is of one of these kinds.
LEMMA StepKinds ==
  ASSUME Typed, PlanOK, Next
  PROVE  \/ \E c \in CommandInputs: Issue(c)
         \/ \E g \in Generations: ~Deleted /\ Accept(g)
         \/ Worked \/ Marked \/ Became \/ Stored \/ Ended \/ Drifted
<1>1. CASE AgentCall
  <2>1. CASE AskProvider
    BY <2>1, QuietWorks DEF AskProvider, At
  <2>2. CASE ThrowError
    BY <2>2, ThrowsEnds DEF ThrowError, At
  <2> QED BY <1>1, <2>1, <2>2, DockerCallWorks, KubernetesCallWorks, SaveStores, RecordResultEnds
      DEF AgentCall
<1>2. CASE Crash \/ LeaseLost \/ IoError
  BY <1>2, FaultEnds
<1>3. CASE ContainerExits \/ ClusterStep \/ RegistryFails \/ RegistryReturns
  BY <1>3, ContainerExitsDrifts, ClusterStepDrifts, RegistryDrifts
<1>4. CASE WaitTimesOut
  BY <1>4, WaitTimesOutEnds
<1> QED BY <1>1, <1>2, <1>3, <1>4 DEF Next

-----------------------------------------------------------------------------
(* The process and its plan *)

LEMMA NewPlan ==
  ASSUME setup \in Setup, NEW c \in Command, NEW view
  PROVE  /\ Plan(c, view) \in Seq(CallNames) /\ Plan(c, view) # <<>> /\ Closes(Plan(c, view))
         /\ Calls(Plan(c, view)) \cap Chain = {}
         /\ c.action # "delete"
              => /\ Calls(Plan(c, view)) \cap Deleting = {}
                 /\ NapCat => Calls(Plan(c, view)) \cap NotNapCat = {}
                 /\ NapCat => Starts(Plan(c, view), "save")
                 /\ Prepared(Plan(c, view))
                 /\ setup.provider = "snowluma" /\ ~Kubernetes
                      => Starts(Plan(c, view), "pull") \/ "rm" \notin Calls(Plan(c, view))
<1>0. c.action \in AllActions /\ setup.provider \in ProviderNames
  BY DEF Command, Setup
<1>1. CASE c.action # "delete"
  <2>1. /\ Orderly(Plan(c, view)) /\ Plan(c, view) # <<>> /\ Closes(Plan(c, view))
        /\ NapCat => Starts(Plan(c, view), "save")
        /\ setup.provider = "snowluma" /\ ~Kubernetes
             => Starts(Plan(c, view), "pull") \/ "rm" \notin Calls(Plan(c, view))
    BY <1>0, <1>1, PlanToWork
  <2>2. Plan(c, view) \in Seq(Work) /\ Prepared(Plan(c, view))
    BY <2>1 DEF Orderly
  <2>3. Calls(Plan(c, view)) \subseteq Work
    BY <2>2, CallsIn
  <2>4. Plan(c, view) \in Seq(CallNames)
    BY <2>2, WorkCalls, SeqSubset
  <2>5. Calls(Plan(c, view)) \cap Chain = {} /\ Calls(Plan(c, view)) \cap Deleting = {}
        /\ (NapCat => Calls(Plan(c, view)) \cap NotNapCat = {})
    BY <2>3, WorkCalls
  <2> QED BY <2>1, <2>2, <2>4, <2>5
<1>2. CASE c.action = "delete"
  <2> DEFINE D == {"drop", "dropData", "rm", "rmHost", "forget", "record"}
  <2>1. D \subseteq CallNames /\ D \cap Chain = {}
    BY DEF CallNames, Chain
  <2>2. Plan(c, view) \in Seq(D) /\ Plan(c, view) # <<>> /\ Closes(Plan(c, view))
    <3>1. CASE NapCat \/ ~Kubernetes
      <4>1. Plan(c, view) \in {<<"drop", "dropData", "forget", "record">>,
                               <<"rm", "rmHost", "forget", "record">>, <<"rmHost", "forget", "record">>}
        BY <1>2, <3>1, PlanToDelete
      <4>2. /\ <<"drop", "dropData", "forget", "record">> \in Seq(D)
            /\ <<"rm", "rmHost", "forget", "record">> \in Seq(D)
            /\ <<"rmHost", "forget", "record">> \in Seq(D)
        OBVIOUS
      <4>3. /\ Closes(<<"drop", "dropData", "forget", "record">>)
            /\ Closes(<<"rm", "rmHost", "forget", "record">>)
            /\ Closes(<<"rmHost", "forget", "record">>)
        BY DEF Closes
      <4>4. /\ <<"drop", "dropData", "forget", "record">> # <<>>
            /\ <<"rm", "rmHost", "forget", "record">> # <<>> /\ <<"rmHost", "forget", "record">> # <<>>
        OBVIOUS
      <4> HIDE DEF D
      <4> QED BY <4>1, <4>2, <4>3, <4>4
    <3>2. CASE ~NapCat /\ Kubernetes
      <4>1. /\ Plan(c, view) \in Seq({"drop", "dropData", "forget", "record"})
            /\ Plan(c, view) # <<>> /\ Closes(Plan(c, view))
        BY <1>2, <3>2, PlanToDiscard
      <4>2. {"drop", "dropData", "forget", "record"} \subseteq D
        OBVIOUS
      <4> HIDE DEF D
      <4> QED BY <4>1, <4>2, SeqSubset
    <3> QED BY <3>1, <3>2
  <2> HIDE DEF D
  <2>3. Calls(Plan(c, view)) \subseteq D
    BY <2>2, CallsIn
  <2>4. Plan(c, view) \in Seq(CallNames)
    BY <2>1, <2>2, SeqSubset
  <2> QED BY <1>2, <2>1, <2>2, <2>3, <2>4
<1> QED BY <1>1, <1>2

LEMMA GoesFields ==
  ASSUME Typed, Goes
  PROVE  /\ proc'.cur = proc.cur /\ proc'.todo = Tail(proc.todo) /\ proc'.existing = proc.existing
         /\ proc'.seen = proc.seen /\ proc'.memory = proc.memory
         /\ proc.todo # <<>> /\ proc.cur # 0
BY DEF Typed, TypeOK, ProcessType, Goes, Rest

LEMMA StoredFields ==
  ASSUME Typed, Stored
  PROVE  /\ proc'.cur = proc.cur /\ proc'.todo = Tail(proc.todo) /\ proc'.existing = proc.existing
         /\ proc'.seen = proc.seen
         /\ proc.todo # <<>> /\ proc.cur # 0
         /\ \/ At("save") /\ proc'.memory = proc.cur /\ saved' = proc.cur
            \/ At("forget") /\ proc'.memory = 0 /\ saved' = 0
<1>1. (At("save") \/ At("forget")) /\ proc.todo # <<>> /\ proc.cur # 0
  BY DEF Typed, TypeOK, Stored, At
<1>2. CASE At("save") /\ proc' = [Rest EXCEPT !.memory = proc.cur] /\ saved' = proc.cur
  BY <1>1, <1>2 DEF Typed, ProcessType, Rest, At, TypeOK
<1>3. CASE At("forget") /\ proc' = [Rest EXCEPT !.memory = 0] /\ saved' = 0
  BY <1>1, <1>3 DEF Typed, ProcessType, Rest, At, TypeOK
<1> QED BY <1>2, <1>3 DEF Stored

LEMMA EndedFields ==
  ASSUME Ended
  PROVE  /\ proc'.cur = 0 /\ proc'.todo = <<>> /\ proc'.existing = None /\ proc'.seen = None
         /\ proc'.memory \in {None, proc.memory} \cup (IF At("save") THEN {proc.cur} ELSE IF At("forget") THEN {0} ELSE {})
BY DEF Ended, FreshProcess

LEMMA MarkedFields ==
  ASSUME Typed, Marked
  PROVE  /\ proc'.cur = proc.cur /\ proc'.existing = proc.existing /\ proc'.memory = proc.memory
         /\ proc.todo # <<>> /\ proc.cur # 0
<1>1. proc.todo # <<>> /\ proc.cur # 0
  BY DEF Typed, TypeOK, Marked, At
<1>2. proc' = [proc EXCEPT !.todo = proc'.todo, !.seen = proc'.seen]
  BY DEF Marked
<1> QED BY <1>1, <1>2 DEF Typed, ProcessType

LEMMA BecameFields ==
  ASSUME Typed, Became
  PROVE  /\ proc'.cur = proc.cur /\ proc'.existing = proc.existing /\ proc'.memory = proc.memory
         /\ proc'.seen = proc.seen
         /\ proc.todo # <<>> /\ proc.cur # 0
<1>1. proc.todo # <<>> /\ proc.cur # 0
  BY DEF Typed, TypeOK, Became, At
<1>2. proc' = [proc EXCEPT !.todo = proc'.todo]
  BY DEF Became
<1> QED BY <1>1, <1>2 DEF Typed, ProcessType

LEMMA AcceptFields ==
  ASSUME Typed, NEW g, Accept(g)
  PROVE  LET refused == Fenced(LoadCommands, g) \/ ForeignWorkload IN
         /\ proc.cur = 0 /\ proc'.memory = LoadCommands /\ proc'.seen = proc.seen
         /\ refused => proc'.cur = 0 /\ proc'.todo = proc.todo /\ proc'.existing = proc.existing
         /\ ~refused => /\ proc'.cur = g /\ proc'.existing = Inspected
                        /\ proc'.todo = Plan(commands[g], Inspected)
BY DEF Accept, Typed, ProcessType

-----------------------------------------------------------------------------
(* The types *)

LEMMA TypedFrom ==
  ASSUME Typed, UNCHANGED <<setup, commands>>, proc' \in ProcessType,
         proc'.cur \in 0..Len(commands), (proc'.cur = 0) = (proc'.todo = <<>>),
         saved' \in 0..Len(commands), acted' \in 0..Len(commands), host' \in Host,
         outcome' \in [Generations -> {"unsent", "leased", "stale", "late", "succeeded", "failed"}],
         \A g \in Generations: outcome'[g] # "unsent" => outcome[g] # "unsent",
         faults' \in 0..MaxFaults
  PROVE  Typed'
<1>1. /\ proc'.existing \in View \cup {None} /\ proc'.seen \in Seen \cup {None}
      /\ proc'.memory \in (0..MaxCommands) \cup {None}
  BY DEF ProcessType
<1>2. /\ setup' \in Setups /\ commands' \in Seq(Command) /\ Len(commands') <= MaxCommands
      /\ commands' = commands /\ Len(commands) \in Nat
  BY LenProperties DEF Typed, TypeOK
<1>3. saved' \in 0..MaxCommands /\ acted' \in 0..MaxCommands
  BY <1>2, RuntimeAssumption
<1>4. TypeOK'
  BY <1>1, <1>2, <1>3 DEF TypeOK
<1>5. \A g \in Generations: outcome'[g] # "unsent" => g <= Len(commands')
  BY <1>2 DEF Typed
<1>6. saved' <= Len(commands') /\ acted' <= Len(commands')
  BY <1>2
<1> QED BY <1>4, <1>5, <1>6 DEF Typed, ProcessType

LEMMA Bounds ==
  ASSUME Typed
  PROVE  /\ Len(commands) \in Nat /\ saved \in 0..Len(commands) /\ acted \in 0..Len(commands)
         /\ proc.cur \in 0..Len(commands) /\ proc \in ProcessType /\ host \in Host
         /\ faults \in 0..MaxFaults
         /\ outcome \in [Generations -> {"unsent", "leased", "stale", "late", "succeeded", "failed"}]
<1>1. Len(commands) \in Nat
  BY LenProperties DEF Typed, TypeOK
<1> QED BY <1>1 DEF Typed, TypeOK

\* Only a result or an error ends a plan.
LEMMA TailIsLeft ==
  ASSUME Typed, PlanOK, proc.todo # <<>>, ~At("record"), ~At("throw")
  PROVE  Tail(proc.todo) # <<>> /\ Tail(proc.todo) \in Seq(CallNames) /\ Closes(Tail(proc.todo))
<1>1. Tail(proc.todo) \in Seq(CallNames) /\ proc.todo \in Seq(CallNames)
  BY NextCallIsOne DEF Typed, ProcessType
<1>2. Closes(Tail(proc.todo)) /\ (Tail(proc.todo) = <<>> => Head(proc.todo) \in {"record", "throw"})
  BY <1>1, ClosesTail DEF PlanOK
<1> QED BY <1>1, <1>2 DEF At

LEMMA TypedWorked ==
  ASSUME Typed, PlanOK, Worked
  PROVE  Typed'
<1>1. Goes /\ host' \in Host
  BY DEF Worked, Moves
<1>2. Tail(proc.todo) # <<>> /\ Tail(proc.todo) \in Seq(CallNames)
  BY <1>1, TailIsLeft DEF Goes
<1>3. proc' \in ProcessType
  BY <1>1, <1>2, Bounds DEF Goes, Rest, ProcessType
<1>4. proc'.cur = proc.cur /\ proc'.todo = Tail(proc.todo) /\ proc.cur # 0
  BY <1>1, GoesFields
<1>5. acted' \in 0..Len(commands)
  BY <1>1, Bounds DEF Goes
<1>6. UNCHANGED <<setup, commands, outcome, saved, faults>>
  BY <1>1 DEF Goes
<1> QED BY <1>1, <1>2, <1>3, <1>4, <1>5, <1>6, Bounds, TypedFrom

LEMMA TypedMarked ==
  ASSUME Typed, PlanOK, Marked
  PROVE  Typed'
<1>1. proc.todo # <<>> /\ proc.cur # 0 /\ proc'.cur = proc.cur
  BY MarkedFields
<1>2. Tail(proc.todo) # <<>> /\ Tail(proc.todo) \in Seq(CallNames)
  BY <1>1, TailIsLeft DEF Marked, At
<1>3. <<"scaleUp", "awaitRunning">> \in Seq(CallNames)
      /\ <<"dropPod", "awaitDropped", "awaitReplaced">> \in Seq(CallNames)
  BY DEF CallNames, Chain
<1>4. \A s \in Seq(CallNames): s \o Tail(proc.todo) \in Seq(CallNames) /\ s \o Tail(proc.todo) # <<>>
  BY <1>2, ConcatProperties
<1>5. proc'.todo \in Seq(CallNames) /\ proc'.todo # <<>> /\ proc'.seen \in Seen \cup {None}
  BY <1>3, <1>4 DEF Marked
<1>6. proc' \in ProcessType
  <2>1. proc' = [proc EXCEPT !.todo = proc'.todo, !.seen = proc'.seen]
    BY DEF Marked
  <2>2. proc' = [cur |-> proc.cur, todo |-> proc'.todo, existing |-> proc.existing,
                 seen |-> proc'.seen, memory |-> proc.memory]
    BY <2>1, Bounds DEF ProcessType
  <2> QED BY <1>5, <2>2, Bounds DEF ProcessType
<1>7. UNCHANGED <<setup, commands, outcome, saved, faults>> /\ acted' = proc.cur /\ host' \in Host
  BY DEF Marked
<1> QED BY <1>1, <1>5, <1>6, <1>7, Bounds, TypedFrom

LEMMA TypedBecame ==
  ASSUME Typed, PlanOK, Became
  PROVE  Typed'
<1>1. proc.todo # <<>> /\ proc.cur # 0 /\ proc'.cur = proc.cur
  BY BecameFields
<1>2. Tail(proc.todo) \in Seq(CallNames)
  BY <1>1, NextCallIsOne
<1>3. <<"restoreTemplate", "dropStuck", "awaitRestored", "throw">> \in Seq(CallNames)
      /\ <<"scaleDown", "awaitGone", "dropSupport", "dropWorkload">> \in Seq(CallNames)
      /\ <<"restoreTemplate", "dropStuck", "awaitRestored", "throw">> # <<>>
      /\ <<"scaleDown", "awaitGone", "dropSupport", "dropWorkload">> # <<>>
  BY DEF CallNames, Chain
<1>4. \A s \in Seq(CallNames): s # <<>> => s \o Tail(proc.todo) \in Seq(CallNames) /\ s \o Tail(proc.todo) # <<>>
  BY <1>2, ConcatProperties
<1>5. proc'.todo \in Seq(CallNames) /\ proc'.todo # <<>>
  BY <1>3, <1>4 DEF Became
<1>6. proc' \in ProcessType
  BY <1>5, Bounds DEF Became, ProcessType
<1>7. UNCHANGED <<setup, commands, outcome, saved, host, acted>> /\ faults' \in 0..MaxFaults
  BY DEF Became
<1> QED BY <1>1, <1>5, <1>6, <1>7, Bounds, TypedFrom

LEMMA TypedStored ==
  ASSUME Typed, PlanOK, Stored
  PROVE  Typed'
<1>1. /\ proc.todo # <<>> /\ proc.cur # 0 /\ proc'.cur = proc.cur /\ proc'.todo = Tail(proc.todo)
      /\ saved' \in {proc.cur, 0}
  BY StoredFields
<1>2. Tail(proc.todo) # <<>> /\ Tail(proc.todo) \in Seq(CallNames)
  BY <1>1, TailIsLeft DEF Stored, At
<1>3. \E m \in {proc.cur, 0}: proc' = [Rest EXCEPT !.memory = m]
  BY DEF Stored
<1>4. proc.cur \in 0..MaxCommands /\ 0 \in 0..MaxCommands
  BY Bounds, RuntimeAssumption DEF ProcessType
<1>5. proc' \in ProcessType
  <2>1. PICK m \in {proc.cur, 0}: proc' = [Rest EXCEPT !.memory = m]
    BY <1>3
  <2>2. Rest \in ProcessType
    BY <1>2, Bounds DEF Rest, ProcessType
  <2> QED BY <1>4, <2>1, <2>2 DEF ProcessType
<1>6. UNCHANGED <<setup, commands, outcome, host, acted, faults>> /\ saved' \in 0..Len(commands)
  BY <1>1, Bounds DEF Stored
<1> QED BY <1>1, <1>2, <1>5, <1>6, Bounds, TypedFrom

LEMMA TypedEnded ==
  ASSUME Typed, Ended
  PROVE  Typed'
<1>1. proc'.cur = 0 /\ proc'.todo = <<>>
  BY EndedFields
<1>2. proc' \in ProcessType
  <2>1. PICK m \in {None, proc.memory, proc.cur, 0}: proc' = [FreshProcess EXCEPT !.memory = m]
    BY DEF Ended
  <2>2. m \in (0..MaxCommands) \cup {None} /\ 0 \in 0..MaxCommands
    BY <2>1, Bounds, RuntimeAssumption DEF ProcessType
  <2>3. <<>> \in Seq(CallNames)
    OBVIOUS
  <2> QED BY <2>1, <2>2, <2>3 DEF ProcessType, FreshProcess
<1>3. /\ outcome' \in [Generations -> {"unsent", "leased", "stale", "late", "succeeded", "failed"}]
      /\ \A g \in Generations: outcome'[g] # "unsent" => outcome[g] # "unsent"
  <2>1. proc.cur \in Generations
    BY Bounds, RuntimeAssumption DEF Ended, Generations, ProcessType
  <2>2. outcome' = outcome \/ \E status \in {"failed", "succeeded"}:
          outcome[proc.cur] = "leased" /\ outcome' = [outcome EXCEPT ![proc.cur] = status]
    BY DEF Ended
  <2> QED BY <2>1, <2>2, Bounds
<1>4. UNCHANGED <<setup, commands, saved, host, acted>> /\ faults' \in 0..MaxFaults
  BY DEF Ended
<1>5. proc'.cur \in 0..Len(commands)
  BY <1>1, Bounds
<1> QED BY <1>1, <1>2, <1>3, <1>4, <1>5, Bounds, TypedFrom

LEMMA TypedDrifted ==
  ASSUME Typed, Drifted
  PROVE  Typed'
<1>1. UNCHANGED <<setup, commands, outcome, proc, saved, acted>> /\ faults' \in 0..MaxFaults /\ host' \in Host
  BY DEF Drifted
<1>2. (proc.cur = 0) = (proc.todo = <<>>)
  BY DEF Typed, TypeOK
<1> QED BY <1>1, <1>2, Bounds, TypedFrom

LEMMA InspectedType ==
  ASSUME host \in Host
  PROVE  Inspected \in View \cup {None} /\ (Inspected = None) = (host.workload = None)
<1>1. host.workload \in Workload \cup {None} /\ host.pod \in Pod \cup {None}
  BY HostFields
<1>2. CASE host.workload = None
  BY <1>2 DEF Inspected
<1>3. CASE host.workload # None
  <2> DEFINE id == IF host.pod = None THEN host.workload.id ELSE host.pod.id
             running == IF Kubernetes THEN IsRunning ELSE host.workload.on
  <2>1. Inspected = [owner |-> host.workload.owner, spec |-> host.workload.spec, id |-> id, running |-> running]
    BY <1>3 DEF Inspected
  <2>2. id \in Nat
    BY <1>1, <1>3 DEF Workload, Pod
  <2>3. running \in BOOLEAN
    BY <1>1, <1>3 DEF Workload, IsRunning, PodRuns, StatefulSet, CurrentPod
  <2>4. host.workload.owner \in {"ours", "foreign"} /\ host.workload.spec \in Specs
    BY <1>1, <1>3 DEF Workload
  <2> HIDE DEF id, running
  <2>5. Inspected \in View
    BY <2>1, <2>2, <2>3, <2>4 DEF View
  <2> QED BY <1>3, <2>5, NoneAssumption
<1> QED BY <1>2, <1>3

\* A command a process may take up was issued.
LEMMA IssuedCommand ==
  ASSUME Typed, NEW g \in Generations, outcome[g] # "unsent"
  PROVE  g \in 1..Len(commands) /\ commands[g] \in Command
<1>1. g <= Len(commands) /\ Len(commands) \in Nat /\ commands \in Seq(Command)
  BY Bounds DEF Typed, TypeOK
<1>2. g \in 1..Len(commands)
  BY <1>1, RuntimeAssumption DEF Generations
<1> QED BY <1>1, <1>2

LEMMA LoadedCommands ==
  ASSUME Typed
  PROVE  LoadCommands \in 0..MaxCommands
BY DEF LoadCommands, Typed, TypeOK

LEMMA TypedAccept ==
  ASSUME Typed, NEW g \in Generations, Accept(g)
  PROVE  Typed'
<1> DEFINE refused == Fenced(LoadCommands, g) \/ ForeignWorkload
<1>1. outcome[g] # "unsent" /\ UNCHANGED <<setup, commands, saved, host, acted, faults>>
  BY DEF Accept
<1>2. g \in 1..Len(commands) /\ commands[g] \in Command
  BY <1>1, IssuedCommand
<1>3. g # 0 /\ g \in 0..MaxCommands /\ g \in 0..Len(commands)
  BY <1>2, Bounds, RuntimeAssumption DEF Generations
<1>4. Plan(commands[g], Inspected) \in Seq(CallNames) /\ Plan(commands[g], Inspected) # <<>>
  <2>1. setup \in Setup
    BY RuntimeAssumption DEF Typed, TypeOK
  <2> QED BY <1>2, <2>1, NewPlan
<1>5. LoadCommands \in (0..MaxCommands) \cup {None} /\ Inspected \in View \cup {None}
  BY LoadedCommands, InspectedType, Bounds
<1>6. proc' \in ProcessType /\ (proc'.cur = 0) = (proc'.todo = <<>>) /\ proc'.cur \in 0..Len(commands)
  <2>1. CASE refused
    <3>1. proc' = [proc EXCEPT !.memory = LoadCommands]
      BY <2>1 DEF Accept
    <3>2. (proc.cur = 0) = (proc.todo = <<>>)
      BY DEF Typed, TypeOK
    <3> QED BY <1>5, <3>1, <3>2, Bounds DEF ProcessType
  <2>2. CASE ~refused
    <3> DEFINE plan == Plan(commands[g], Inspected)
    <3>1. proc' = [proc EXCEPT !.memory = LoadCommands, !.cur = g, !.existing = Inspected, !.todo = plan]
      BY <2>2 DEF Accept
    <3>2. plan \in Seq(CallNames) /\ plan # <<>>
      BY <1>4
    <3> HIDE DEF plan
    <3>3. proc' = [cur |-> g, todo |-> plan, existing |-> Inspected, seen |-> proc.seen, memory |-> LoadCommands]
      BY <3>1, Bounds DEF ProcessType
    <3>4. proc.seen \in Seen \cup {None}
      BY Bounds DEF ProcessType
    <3> QED BY <1>3, <1>5, <3>2, <3>3, <3>4 DEF ProcessType
  <2> QED BY <2>1, <2>2
<1>7. /\ outcome' \in [Generations -> {"unsent", "leased", "stale", "late", "succeeded", "failed"}]
      /\ \A k \in Generations: outcome'[k] # "unsent" => outcome[k] # "unsent"
  BY <1>1, Bounds DEF Accept
<1> QED BY <1>1, <1>6, <1>7, Bounds, TypedFrom

\* A new command leaves the others as they are.
LEMMA SmallAndBig == Small \in Specs /\ Big \in Specs
BY DEF Small, Big, Specs

LEMMA IssueKeeps ==
  ASSUME Typed, NEW c \in CommandInputs, Issue(c)
  PROVE  /\ commands' \in Seq(Command) /\ Len(commands') = Len(commands) + 1
         /\ Len(commands') \in Nat /\ Len(commands') <= MaxCommands
         /\ \A g \in 1..Len(commands): commands'[g] = commands[g]
         /\ ~Deleted /\ UNCHANGED <<setup, proc, saved, host, acted, faults>>
<1>1. /\ commands' = Append(commands, c) /\ ~Deleted /\ Len(commands) < MaxCommands
      /\ UNCHANGED <<setup, proc, saved, host, acted, faults>>
  BY DEF Issue
<1>2. c \in Command
  BY RuntimeAssumption, SmallAndBig DEF CommandInputs, Command
<1>3. commands \in Seq(Command) /\ Len(commands) \in Nat
  BY Bounds DEF Typed, TypeOK
<1>4. /\ Append(commands, c) \in Seq(Command) /\ Len(Append(commands, c)) = Len(commands) + 1
      /\ \A g \in 1..Len(commands): Append(commands, c)[g] = commands[g]
  BY <1>2, <1>3, AppendProperties
<1>5. Len(commands) + 1 <= MaxCommands
  BY <1>1, <1>3, RuntimeAssumption
<1> QED BY <1>1, <1>3, <1>4, <1>5

LEMMA TypedIssue ==
  ASSUME Typed, NEW c \in CommandInputs, Issue(c)
  PROVE  Typed'
<1>1. /\ commands' \in Seq(Command) /\ Len(commands') = Len(commands) + 1 /\ Len(commands') <= MaxCommands
      /\ UNCHANGED <<setup, proc, saved, host, acted, faults>>
  BY IssueKeeps
<1>2. /\ outcome' \in [Generations -> {"unsent", "leased", "stale", "late", "succeeded", "failed"}]
      /\ \A g \in Generations: outcome'[g] # "unsent" => g <= Len(commands) + 1
  <2>1. outcome' = [g \in Generations |-> IF g = Len(commands) + 1 THEN "leased"
                      ELSE IF g \in {k \in 1..Len(commands): outcome[k] = "leased"} THEN "stale" ELSE outcome[g]]
    BY DEF Issue
  <2>2. outcome \in [Generations -> {"unsent", "leased", "stale", "late", "succeeded", "failed"}]
    BY Bounds
  <2>3. ASSUME NEW g \in Generations, outcome'[g] # "unsent" PROVE g <= Len(commands) + 1
    <3>1. g \in Nat /\ Len(commands) \in Nat
      BY Bounds, RuntimeAssumption DEF Generations
    <3>2. g = Len(commands) + 1 \/ g \in 1..Len(commands) \/ outcome[g] # "unsent"
      BY <2>1, <2>3
    <3> QED BY <3>1, <3>2 DEF Typed
  <2> QED BY <2>1, <2>2, <2>3
<1>3. proc.cur \in 0..Len(commands') /\ saved <= Len(commands') /\ acted <= Len(commands')
  BY <1>1, Bounds
<1>4. TypeOK'
  BY <1>1, <1>2, <1>3 DEF TypeOK, Typed
<1> QED BY <1>1, <1>2, <1>3, <1>4 DEF Typed, ProcessType

LEMMA InitTyped ==
  ASSUME Init
  PROVE  Typed /\ proc.cur = 0 /\ proc.todo = <<>> /\ proc.memory = None /\ saved = 0 /\ acted = 0
         /\ Len(commands) = 0 /\ setup \in Setup
<1>1. /\ setup \in Setup /\ setup \in Setups /\ commands = <<>> /\ saved = 0 /\ acted = 0 /\ faults = 0
      /\ outcome = [g \in Generations |-> "unsent"] /\ proc = FreshProcess
  BY RuntimeAssumption DEF Init
<1>2. /\ proc.cur = 0 /\ proc.todo = <<>> /\ proc.memory = None /\ proc.existing = None /\ proc.seen = None
  BY <1>1 DEF FreshProcess
<1>3. <<>> \in Seq(Command) /\ Len(<<>>) = 0 /\ <<>> \in Seq(CallNames)
  OBVIOUS
<1>4. MaxCommands \in Nat /\ MaxFaults \in Nat /\ 0 \in 0..MaxCommands /\ 0 \in 0..MaxFaults
  BY RuntimeAssumption
<1>5. FreshProcess \in ProcessType
  BY <1>3, <1>4 DEF FreshProcess, ProcessType
<1>6. EmptyHost \in Host
  BY DEF EmptyHost, Host
<1>7. Taken(setup) \subseteq Host
  <2>1. [owner |-> "foreign", spec |-> Small, id |-> 1, on |-> FALSE, marker |-> 0] \in Workload
    BY SmallAndBig DEF Workload
  <2>2. \A w \in Workload: [EmptyHost EXCEPT !.workload = w, !.data = "foreign", !.ids = 1] \in Host
    BY DEF EmptyHost, Host
  <2>3. \A d \in {"foreign", "none"}: [EmptyHost EXCEPT !.data = d] \in Host
    BY DEF EmptyHost, Host
  <2> QED BY <2>1, <2>2, <2>3 DEF Taken
<1>8. \A s \in Setup, on \in BOOLEAN: Provisioned(s, on) \in Host
  <2> TAKE s \in Setup, on \in BOOLEAN
  <2> DEFINE w == [owner |-> "ours", spec |-> Small, id |-> 1, on |-> on, marker |-> 0]
             p == IF s.backend = "kubernetes" /\ on
                  THEN [id |-> 2, spec |-> Small, marker |-> 0, phase |-> "running"] ELSE None
             k == s.backend = "kubernetes"
  <2>1. w \in Workload /\ p \in Pod \cup {None} /\ k \in BOOLEAN
    BY SmallAndBig DEF Workload, Pod
  <2>2. Provisioned(s, on) = [EmptyHost EXCEPT !.workload = w, !.pod = p, !.data = "ours", !.support = k,
                                               !.ids = 2, !.registry = "local"]
    BY DEF Provisioned
  <2> HIDE DEF w, p, k
  <2>3. Provisioned(s, on) = [workload |-> w, pod |-> p, data |-> "ours", support |-> k,
                              registry |-> "local", exited |-> FALSE, ids |-> 2]
    BY <2>2 DEF EmptyHost
  <2> QED BY <2>1, <2>3 DEF Host
<1>9. \A h \in Host: [h EXCEPT !.registry = "up"] \in Host
  BY DEF Host
<1>10. host \in Host
  BY <1>1, <1>6, <1>7, <1>8, <1>9 DEF Init
<1>11. TypeOK
  BY <1>1, <1>2, <1>3, <1>4, <1>10 DEF TypeOK
<1> QED BY <1>1, <1>2, <1>3, <1>5, <1>11 DEF Typed

-----------------------------------------------------------------------------
(* What is left of a plan *)

\* What comes first and holds no `y` may be put in front.
LEMMA PrecedesAfter ==
  ASSUME NEW S, NEW s \in Seq(S), NEW t \in Seq(S), NEW X, NEW y, y \notin Calls(s), Precedes(t, X, y)
  PROVE  Precedes(s \o t, X, y)
<1>1. /\ s \o t \in Seq(S) /\ Len(s) \in Nat /\ Len(t) \in Nat
      /\ DOMAIN s = 1..Len(s) /\ DOMAIN t = 1..Len(t) /\ DOMAIN (s \o t) = 1..(Len(s) + Len(t))
  BY ConcatProperties, LenProperties
<1>2. \A i \in 1..(Len(s) + Len(t)): (s \o t)[i] = IF i <= Len(s) THEN s[i] ELSE t[i - Len(s)]
  BY ConcatProperties
<1> SUFFICES ASSUME NEW i \in 1..(Len(s) + Len(t)), NEW j \in 1..(Len(s) + Len(t)),
                    (s \o t)[i] \in X, (s \o t)[j] = y
             PROVE  i < j
  BY <1>1 DEF Precedes
<1>3. ~(j <= Len(s)) /\ t[j - Len(s)] = y /\ j - Len(s) \in DOMAIN t
  <2>1. CASE j <= Len(s)
    <3>1. j \in DOMAIN s /\ s[j] = y
      BY <1>1, <1>2, <2>1
    <3> QED BY <3>1 DEF Calls
  <2>2. CASE ~(j <= Len(s))
    BY <1>1, <1>2, <2>2
  <2> QED BY <2>1, <2>2
<1>4. CASE i <= Len(s)
  BY <1>1, <1>3, <1>4
<1>5. CASE ~(i <= Len(s))
  <2>1. t[i - Len(s)] \in X /\ i - Len(s) \in DOMAIN t
    BY <1>1, <1>2, <1>5
  <2>2. i - Len(s) < j - Len(s)
    BY <1>3, <2>1 DEF Precedes
  <2> QED BY <1>1, <2>2
<1> QED BY <1>4, <1>5

LEMMA EmptyPlan ==
  ASSUME NEW X, NEW y
  PROVE  Closes(<<>>) /\ Calls(<<>>) = {} /\ Precedes(<<>>, X, y)
<1>1. DOMAIN <<>> = {}
  OBVIOUS
<1>2. Closes(<<>>)
  BY DEF Closes
<1>3. Calls(<<>>) = {}
  BY <1>1 DEF Calls
<1>4. Precedes(<<>>, X, y)
  BY <1>1 DEF Precedes
<1> QED BY <1>2, <1>3, <1>4

LEMMA PlanTail ==
  ASSUME Typed, PlanOK, UNCHANGED <<setup, commands>>, proc.todo # <<>>,
         proc'.cur = proc.cur, proc'.todo = Tail(proc.todo), proc'.seen = proc.seen
  PROVE  PlanOK'
<1>1. proc.todo \in Seq(CallNames) /\ Calls(Tail(proc.todo)) \subseteq Calls(proc.todo)
  BY NextCallIsOne
<1>2. Closes(Tail(proc.todo))
  BY <1>1, ClosesTail DEF PlanOK
<1>3. Precedes(Tail(proc.todo), Chain, "mark")
  <2>1. "mark" \notin Chain
    BY DEF Chain
  <2> QED BY <1>1, <2>1, PrecedesTail DEF PlanOK
<1>4. NapCat' = NapCat /\ Deletes(proc.cur)' = Deletes(proc.cur)
  BY DEF NapCat, Deletes
<1>5. Calls(proc.todo)' = Calls(Tail(proc.todo))
  BY DEF Calls
<1>6. Closes(proc.todo)' /\ Precedes(proc.todo, Chain, "mark")'
  BY <1>2, <1>3 DEF Closes, Precedes, Chain
<1> QED BY <1>1, <1>4, <1>5, <1>6 DEF PlanOK, Chain, Deleting, NotNapCat

\* Calls in front of what is left, none of which a plan must not hold.
LEMMA PlanFront ==
  ASSUME Typed, PlanOK, UNCHANGED <<setup, commands>>, proc.todo # <<>>, ~At("record"), ~At("throw"),
         NEW front \in Seq(CallNames), proc'.cur = proc.cur, proc'.todo = front \o Tail(proc.todo),
         "mark" \notin Calls(front), Calls(front) \cap Deleting = {},
         NapCat /\ ~Deletes(proc.cur) => Calls(front) \cap NotNapCat = {},
         proc'.seen # None \/ (Calls(front) \cap Chain = {} /\ (Calls(Tail(proc.todo)) \cap Chain = {} \/ proc'.seen = proc.seen))
  PROVE  PlanOK' /\ Calls(proc.todo)' = Calls(front) \cup Calls(Tail(proc.todo))
<1>1. /\ proc.todo \in Seq(CallNames) /\ Calls(Tail(proc.todo)) \subseteq Calls(proc.todo)
      /\ Tail(proc.todo) \in Seq(CallNames)
  BY NextCallIsOne
<1>2. Closes(front \o Tail(proc.todo))
  BY TailIsLeft, ClosesConcat
<1>3. Precedes(front \o Tail(proc.todo), Chain, "mark")
  <2>1. "mark" \notin Chain
    BY DEF Chain
  <2>2. Precedes(Tail(proc.todo), Chain, "mark")
    BY <1>1, <2>1, PrecedesTail DEF PlanOK
  <2> QED BY <1>1, <2>2, PrecedesAfter
<1>4. NapCat' = NapCat /\ Deletes(proc.cur)' = Deletes(proc.cur)
  BY DEF NapCat, Deletes
<1>5. Calls(front \o Tail(proc.todo)) = Calls(front) \cup Calls(Tail(proc.todo))
  <2> DEFINE rest == Tail(proc.todo)
  <2>1. rest \in Seq(CallNames) /\ front \in Seq(CallNames)
    BY <1>1
  <2> HIDE DEF rest
  <2>2. Calls(front \o rest) = Calls(front) \cup Calls(rest)
    BY <2>1, CallsOfConcat
  <2> QED BY <2>2 DEF rest
<1>6. Calls(proc.todo)' = Calls(front) \cup Calls(Tail(proc.todo))
  BY <1>5 DEF Calls
<1>7. Closes(proc.todo)' /\ Precedes(proc.todo, Chain, "mark")'
  BY <1>2, <1>3 DEF Closes, Precedes, Chain
<1>8. (Calls(proc.todo) \cap Chain # {} => proc.seen # None)'
  <2>1. (Calls(front) \cup Calls(Tail(proc.todo))) \cap Chain # {} => proc'.seen # None
    BY <1>1 DEF PlanOK
  <2> QED BY <1>6, <2>1 DEF Chain
<1>9. (proc.cur # 0 /\ ~Deletes(proc.cur) => /\ Calls(proc.todo) \cap Deleting = {}
                                             /\ NapCat => Calls(proc.todo) \cap NotNapCat = {})'
  <2>1. proc.cur # 0 /\ ~Deletes(proc.cur)
          => /\ (Calls(front) \cup Calls(Tail(proc.todo))) \cap Deleting = {}
             /\ NapCat => (Calls(front) \cup Calls(Tail(proc.todo))) \cap NotNapCat = {}
    BY <1>1 DEF PlanOK
  <2> QED BY <1>4, <1>6, <2>1 DEF Deleting, NotNapCat
<1> QED BY <1>6, <1>7, <1>8, <1>9 DEF PlanOK

LEMMA PlanWorked ==
  ASSUME Typed, PlanOK, Worked
  PROVE  PlanOK'
BY GoesFields, PlanTail DEF Worked, Goes

LEMMA PlanStored ==
  ASSUME Typed, PlanOK, Stored
  PROVE  PlanOK'
BY StoredFields, PlanTail DEF Stored

LEMMA PlanEnded ==
  ASSUME Typed, PlanOK, Ended
  PROVE  PlanOK'
<1>1. proc'.cur = 0 /\ proc'.todo = <<>>
  BY EndedFields
<1>2. Closes(proc.todo)' /\ Precedes(proc.todo, Chain, "mark")' /\ Calls(proc.todo)' = {}
  BY <1>1, EmptyPlan DEF Closes, Precedes, Calls, Chain
<1> QED BY <1>1, <1>2 DEF PlanOK

LEMMA PlanDrifted ==
  ASSUME PlanOK, Drifted
  PROVE  PlanOK'
BY DEF Drifted, PlanOK, NapCat, Deletes, Closes, Calls, Precedes, Chain, Deleting, NotNapCat

LEMMA PlanIssue ==
  ASSUME Typed, PlanOK, NEW c \in CommandInputs, Issue(c)
  PROVE  PlanOK'
<1>1. UNCHANGED <<setup, proc>> /\ \A g \in 1..Len(commands): commands'[g] = commands[g]
  BY IssueKeeps
<1>2. proc.cur # 0 => commands'[proc.cur] = commands[proc.cur]
  BY <1>1, Bounds
<1>3. Closes(proc.todo)' /\ Precedes(proc.todo, Chain, "mark")' /\ Calls(proc.todo)' = Calls(proc.todo)
  BY <1>1 DEF PlanOK, Closes, Precedes, Calls, Chain
<1>4. NapCat' = NapCat /\ (proc.cur # 0 => Deletes(proc.cur)' = Deletes(proc.cur))
  BY <1>1, <1>2 DEF NapCat, Deletes
<1>5. (proc.cur # 0 /\ ~Deletes(proc.cur) => /\ Calls(proc.todo) \cap Deleting = {}
                                             /\ NapCat => Calls(proc.todo) \cap NotNapCat = {})'
  BY <1>1, <1>3, <1>4 DEF PlanOK, Deleting, NotNapCat
<1>6. (Calls(proc.todo) \cap Chain # {} => proc.seen # None)'
  BY <1>1, <1>3 DEF PlanOK, Chain
<1> QED BY <1>3, <1>5, <1>6 DEF PlanOK

LEMMA PlanAccept ==
  ASSUME Typed, PlanOK, NEW g \in Generations, Accept(g)
  PROVE  PlanOK'
<1> DEFINE refused == Fenced(LoadCommands, g) \/ ForeignWorkload
           plan == Plan(commands[g], Inspected)
<1>1. /\ proc.cur = 0 /\ proc.todo = <<>> /\ proc'.seen = proc.seen
      /\ refused => proc'.cur = 0 /\ proc'.todo = proc.todo
      /\ ~refused => proc'.cur = g /\ proc'.todo = plan
  BY AcceptFields DEF Typed, TypeOK
<1>2. UNCHANGED <<setup, commands>> /\ outcome[g] # "unsent" /\ setup \in Setup
  BY RuntimeAssumption DEF Accept, Typed, TypeOK
<1>3. commands[g] \in Command
  BY <1>2, IssuedCommand
<1>4. CASE refused
  <2>1. proc'.cur = 0 /\ proc'.todo = <<>>
    BY <1>1, <1>4
  <2>2. Closes(proc.todo)' /\ Precedes(proc.todo, Chain, "mark")' /\ Calls(proc.todo)' = {}
    BY <2>1, EmptyPlan DEF Closes, Precedes, Calls, Chain
  <2> QED BY <2>1, <2>2 DEF PlanOK
<1>5. CASE ~refused
  <2>1. /\ Closes(plan) /\ Calls(plan) \cap Chain = {}
        /\ ~Deletes(g) => /\ Calls(plan) \cap Deleting = {}
                          /\ NapCat => Calls(plan) \cap NotNapCat = {}
    BY <1>2, <1>3, NewPlan DEF Deletes
  <2>2. proc'.cur = g /\ proc'.todo = plan
    BY <1>1, <1>5
  <2> HIDE DEF plan, refused
  <2>3. Precedes(plan, Chain, "mark")
    BY <2>1, Unordered
  <2>4. Closes(proc.todo)' /\ Precedes(proc.todo, Chain, "mark")' /\ Calls(proc.todo)' = Calls(plan)
    BY <2>1, <2>2, <2>3 DEF Closes, Precedes, Calls, Chain
  <2>5. NapCat' = NapCat /\ Deletes(proc.cur)' = Deletes(g)
    BY <1>2, <2>2 DEF NapCat, Deletes
  <2>6. (Calls(proc.todo) \cap Chain)' = {}
    BY <2>1, <2>4 DEF Chain
  <2>7. (proc.cur # 0 /\ ~Deletes(proc.cur) => /\ Calls(proc.todo) \cap Deleting = {}
                                               /\ NapCat => Calls(proc.todo) \cap NotNapCat = {})'
    BY <2>1, <2>4, <2>5 DEF Deleting, NotNapCat
  <2> QED BY <2>4, <2>6, <2>7 DEF PlanOK
<1> QED BY <1>4, <1>5

\* The template was marked with the replacement still to be done, or with none.
LEMMA MarkedPlan ==
  ASSUME Typed, PlanOK, Marked
  PROVE  /\ PlanOK'
         /\ \/ Calls(proc.todo)' \cap Chain = {}
            \/ proc'.seen \in Seen /\ host.pod # None /\ proc'.seen.id = host.pod.id
               /\ (NapCat => host.pod.marker # proc.cur)
<1> DEFINE start == <<"scaleUp", "awaitRunning">>
           replace == <<"dropPod", "awaitDropped", "awaitReplaced">>
<1>1. proc.todo # <<>> /\ proc'.cur = proc.cur /\ At("mark") /\ UNCHANGED <<setup, commands>>
  BY MarkedFields DEF Marked
<1>2. ~At("record") /\ ~At("throw")
  BY <1>1 DEF At
<1>3. Calls(Tail(proc.todo)) \cap Chain = {}
  <2>1. proc.todo \in Seq(CallNames) /\ Calls(Tail(proc.todo)) \subseteq Calls(proc.todo)
    BY <1>1, NextCallIsOne
  <2>2. "mark" \notin Chain
    BY DEF Chain
  <2>3. Head(proc.todo) = "mark"
    BY <1>1 DEF At
  <2>4. Calls(proc.todo) \cap Chain = {}
    BY <1>1, <2>1, <2>2, <2>3, PrecedesTail DEF PlanOK
  <2> QED BY <2>1, <2>4
<1>4. Calls(start) = {"scaleUp", "awaitRunning"} /\ Calls(replace) = {"dropPod", "awaitDropped", "awaitReplaced"}
  <2>1. Calls(<<"scaleUp", "awaitRunning">>) = {"scaleUp", "awaitRunning"}
    BY DEF Calls
  <2>2. Calls(<<"dropPod", "awaitDropped", "awaitReplaced">>) = {"dropPod", "awaitDropped", "awaitReplaced"}
    BY DEF Calls
  <2> QED BY <2>1, <2>2
<1>5. start \in Seq(CallNames) /\ replace \in Seq(CallNames)
  BY DEF CallNames, Chain
<1>6. \/ /\ proc'.todo = start \o Tail(proc.todo) /\ proc'.seen = None
      \/ /\ proc'.todo = replace \o Tail(proc.todo)
         /\ proc'.seen \in Seen /\ host.pod # None /\ proc'.seen.id = host.pod.id
         /\ NapCat => host.pod.marker # proc.cur
  BY DEF Marked
<1> HIDE DEF start, replace
<1>7. CASE proc'.todo = start \o Tail(proc.todo) /\ proc'.seen = None
  <2>1. /\ "mark" \notin Calls(start) /\ Calls(start) \cap Deleting = {} /\ Calls(start) \cap NotNapCat = {}
        /\ Calls(start) \cap Chain = {}
    BY <1>4 DEF Deleting, NotNapCat, Chain
  <2>2. PlanOK' /\ Calls(proc.todo)' = Calls(start) \cup Calls(Tail(proc.todo))
    BY <1>1, <1>2, <1>3, <1>5, <1>7, <2>1, PlanFront
  <2>3. (Calls(start) \cup Calls(Tail(proc.todo))) \cap Chain = {}
    BY <1>3, <2>1
  <2> QED BY <2>2, <2>3
<1>8. CASE /\ proc'.todo = replace \o Tail(proc.todo)
           /\ proc'.seen \in Seen /\ host.pod # None /\ proc'.seen.id = host.pod.id
           /\ NapCat => host.pod.marker # proc.cur
  <2>1. /\ "mark" \notin Calls(replace) /\ Calls(replace) \cap Deleting = {} /\ Calls(replace) \cap NotNapCat = {}
    BY <1>4 DEF Deleting, NotNapCat
  <2>2. proc'.seen # None
    BY <1>8, NoneAssumption
  <2>3. PlanOK'
    BY <1>1, <1>2, <1>5, <1>8, <2>1, <2>2, PlanFront
  <2> QED BY <1>8, <2>3
<1> QED BY <1>6, <1>7, <1>8

LEMMA FourCalls ==
  ASSUME NEW a, NEW b, NEW c, NEW d
  PROVE  Calls(<<a, b, c, d>>) = {a, b, c, d}
BY DEF Calls

LEMMA BecamePlan ==
  ASSUME Typed, PlanOK, Became
  PROVE  /\ PlanOK' /\ Calls(proc.todo)' \subseteq Calls(proc.todo) \cup
              {"restoreTemplate", "dropStuck", "awaitRestored", "throw",
               "scaleDown", "awaitGone", "dropSupport", "dropWorkload"}
         /\ At("drop") => Calls(proc.todo)' \cap Chain \subseteq Calls(proc.todo)
<1> DEFINE restore == <<"restoreTemplate", "dropStuck", "awaitRestored", "throw">>
           remove == <<"scaleDown", "awaitGone", "dropSupport", "dropWorkload">>
<1>1. proc.todo # <<>> /\ proc'.cur = proc.cur /\ proc'.seen = proc.seen /\ UNCHANGED <<setup, commands>>
  BY BecameFields DEF Became
<1>2. ~At("record") /\ ~At("throw")
  BY DEF Became, At
<1>3. /\ Calls(restore) = {"restoreTemplate", "dropStuck", "awaitRestored", "throw"}
      /\ Calls(remove) = {"scaleDown", "awaitGone", "dropSupport", "dropWorkload"}
  BY FourCalls
<1>4. restore \in Seq(CallNames) /\ remove \in Seq(CallNames) /\ Closes(restore)
  BY DEF CallNames, Chain, Closes
<1>5. Head(proc.todo) \in Calls(proc.todo) /\ Calls(Tail(proc.todo)) \subseteq Calls(proc.todo)
  BY <1>1, NextCallIsOne
<1>6. \/ At("awaitReplaced") /\ proc'.todo = restore
      \/ At("awaitReplaced") /\ proc'.todo = restore \o Tail(proc.todo)
      \/ At("drop") /\ proc'.todo = remove \o Tail(proc.todo)
  BY DEF Became
<1> HIDE DEF restore, remove
<1>7. /\ "mark" \notin Calls(restore) /\ Calls(restore) \cap Deleting = {} /\ Calls(restore) \cap NotNapCat = {}
      /\ "mark" \notin Calls(remove) /\ Calls(remove) \cap Deleting = {} /\ Calls(remove) \cap Chain = {}
  BY <1>3 DEF Deleting, NotNapCat, Chain
<1>8. At("awaitReplaced") => ~At("drop") /\ proc.seen # None
  BY <1>5 DEF At, PlanOK, Chain
<1>9. CASE At("awaitReplaced") /\ proc'.todo = restore
  <2>1. Closes(proc.todo)' /\ Calls(proc.todo)' = Calls(restore)
    BY <1>4, <1>9 DEF Closes, Calls
  <2>2. Precedes(proc.todo, Chain, "mark")'
    BY <1>7, <1>9, Unordered DEF Precedes, Chain
  <2>3. (proc.cur # 0 /\ ~Deletes(proc.cur) => /\ Calls(proc.todo) \cap Deleting = {}
                                               /\ NapCat => Calls(proc.todo) \cap NotNapCat = {})'
    BY <1>7, <2>1 DEF Deleting, NotNapCat
  <2>4. PlanOK'
    BY <1>1, <1>8, <1>9, <2>1, <2>2, <2>3 DEF PlanOK
  <2> QED BY <1>3, <1>8, <1>9, <2>1, <2>4
<1>10. CASE At("awaitReplaced") /\ proc'.todo = restore \o Tail(proc.todo)
  <2>1. PlanOK' /\ Calls(proc.todo)' = Calls(restore) \cup Calls(Tail(proc.todo))
    BY <1>1, <1>2, <1>4, <1>7, <1>8, <1>10, PlanFront
  <2> QED BY <1>3, <1>5, <1>8, <1>10, <2>1
<1>11. CASE At("drop") /\ proc'.todo = remove \o Tail(proc.todo)
  <2>1. NapCat /\ ~Deletes(proc.cur) => Calls(remove) \cap NotNapCat = {}
    BY <1>1, <1>5, <1>11 DEF At, PlanOK, NotNapCat, Typed, TypeOK
  <2>2. PlanOK' /\ Calls(proc.todo)' = Calls(remove) \cup Calls(Tail(proc.todo))
    BY <1>1, <1>2, <1>4, <1>7, <1>11, <2>1, PlanFront
  <2> QED BY <1>3, <1>5, <1>7, <2>2
<1> QED BY <1>6, <1>9, <1>10, <1>11

-----------------------------------------------------------------------------
(* The host, the pod a restart replaces, and the image of a replacement *)

Steps ==
  \/ \E c \in CommandInputs: Issue(c)
  \/ \E g \in Generations: ~Deleted /\ Accept(g)
  \/ Worked \/ Marked \/ Became \/ Stored \/ Ended \/ Drifted

LEMMA AcceptCases ==
  ASSUME Typed, NEW g \in Generations, Accept(g)
  PROVE  /\ UNCHANGED <<setup, commands, saved, host, acted, faults>> /\ setup \in Setup
         /\ g \in 1..Len(commands) /\ commands[g] \in Command
         /\ proc.cur = 0 /\ proc.todo = <<>> /\ proc'.memory = LoadCommands
         /\ \/ proc'.cur = 0 /\ proc'.todo = <<>>
            \/ /\ ~Fenced(LoadCommands, g) /\ ~Foreign
               /\ proc'.cur = g /\ proc'.todo = Plan(commands[g], Inspected)
<1> DEFINE refused == Fenced(LoadCommands, g) \/ ForeignWorkload
<1>1. outcome[g] # "unsent" /\ UNCHANGED <<setup, commands, saved, host, acted, faults>> /\ setup \in Setup
  BY RuntimeAssumption DEF Accept, Typed, TypeOK
<1>2. g \in 1..Len(commands) /\ commands[g] \in Command
  BY <1>1, IssuedCommand
<1>3. /\ proc.cur = 0 /\ proc.todo = <<>> /\ proc'.memory = LoadCommands
      /\ refused => proc'.cur = 0 /\ proc'.todo = proc.todo
      /\ ~refused => proc'.cur = g /\ proc'.todo = Plan(commands[g], Inspected)
  BY AcceptFields DEF Typed, TypeOK
<1>4. Foreign => ForeignWorkload
  BY DEF Foreign, ForeignWorkload
<1> QED BY <1>1, <1>2, <1>3, <1>4

LEMMA HostIsKept ==
  ASSUME Typed, HostOK, UNCHANGED <<setup, host>>, Foreign => proc'.cur = 0
  PROVE  HostOK'
BY DEF HostOK, Foreign, Kubernetes

LEMMA HostStep ==
  ASSUME Typed, HostOK, Steps
  PROVE  HostOK'
<1>0. /\ host.workload \in Workload \cup {None} /\ host.pod \in Pod \cup {None} /\ host.ids \in Nat
      /\ host.data \in {"none", "ours", "foreign"} /\ host.support \in BOOLEAN
  BY Bounds, HostFields
<1>1. CASE \E c \in CommandInputs: Issue(c)
  BY <1>1, IssueKeeps, HostIsKept DEF HostOK
<1>2. CASE \E g \in Generations: ~Deleted /\ Accept(g)
  <2>1. PICK g \in Generations: Accept(g)
    BY <1>2
  <2>2. UNCHANGED <<setup, host>> /\ (Foreign => proc'.cur = 0)
    BY <2>1, AcceptFields DEF Accept, ForeignWorkload, Foreign
  <2> QED BY <2>2, HostIsKept
<1>3. CASE Worked
  <2>1. /\ Goes /\ host' \in Host /\ MovesData /\ MovesWorkload /\ MovesPod /\ setup' = setup
        /\ proc.cur # 0
    BY <1>3, GoesFields DEF Worked, Moves, Goes
  <2>2. /\ host'.ids \in Nat /\ host'.pod \in Pod \cup {None}
    BY <2>1 DEF Host
  <2>3. ~Foreign'
    BY <2>1 DEF HostOK, Foreign, MovesWorkload
  <2>4. ~Kubernetes => ~host'.support /\ host'.data # "foreign"
    <3>1. ~Kubernetes => ~host.support /\ host.data # "foreign"
      BY <2>1 DEF HostOK
    <3>2. ~Kubernetes => host'.support = host.support
      BY <2>1 DEF MovesData
    <3>3. host'.data # host.data => host'.data # "foreign"
      BY <2>1 DEF MovesData
    <3> QED BY <3>1, <3>2, <3>3
  <2>5. host'.pod # None => host'.pod.id <= host'.ids
    <3>1. host'.pod # None => host.pod # None /\ host'.pod.id = host.pod.id /\ host'.ids >= host.ids
      BY <2>1 DEF MovesPod
    <3>2. host.pod # None => host.pod.id <= host.ids /\ host.pod.id \in Nat
      BY <1>0 DEF HostOK, Pod
    <3> QED BY <1>0, <2>2, <3>1, <3>2
  <2> QED BY <2>1, <2>3, <2>4, <2>5 DEF HostOK, Kubernetes
<1>4. CASE Marked
  <2>1. /\ Kubernetes /\ setup' = setup /\ host'.pod = host.pod /\ host'.ids >= host.ids /\ host' \in Host
        /\ host.workload # None /\ host'.workload # None /\ host'.workload.owner = host.workload.owner
        /\ proc.cur # 0
    BY <1>4, MarkedFields DEF Marked
  <2>2. host'.ids \in Nat
    BY <2>1 DEF Host
  <2>3. ~Foreign'
    BY <2>1 DEF HostOK, Foreign
  <2>4. host'.pod # None => host'.pod.id <= host'.ids
    <3>1. host.pod # None => host.pod.id <= host.ids /\ host.pod.id \in Nat
      BY <1>0 DEF HostOK, Pod
    <3> QED BY <1>0, <2>1, <2>2, <3>1
  <2> QED BY <2>1, <2>3, <2>4 DEF HostOK, Kubernetes
<1>5. CASE Became
  BY <1>5, BecameFields, HostIsKept DEF Became, HostOK
<1>6. CASE Stored
  BY <1>6, StoredFields, HostIsKept DEF Stored, HostOK
<1>7. CASE Ended
  BY <1>7, EndedFields, HostIsKept DEF Ended, HostOK
<1>8. CASE Drifted
  <2>1. /\ UNCHANGED <<setup, proc>> /\ host'.data = host.data /\ host'.support = host.support
        /\ host' \in Host /\ host'.ids >= host.ids
        /\ \/ host'.workload = host.workload
           \/ /\ ~Kubernetes /\ host.workload # None /\ host.workload.on
              /\ host'.workload # None /\ host'.workload.owner = host.workload.owner
    BY <1>8 DEF Drifted
  <2>2. Foreign' => ~host'.workload.on /\ proc'.cur = 0
    BY <2>1 DEF HostOK, Foreign
  <2>3. Foreign => Foreign'
    BY <2>1 DEF Foreign
  <2>4. host'.pod # None => host'.pod.id <= host'.ids
    <3>1. host.pod # None => host.pod.id <= host.ids /\ host.pod.id \in Nat
      BY <1>0 DEF HostOK, Pod
    <3>2. host'.ids \in Nat
      BY <2>1 DEF Host
    <3>3. \/ host'.pod = None
          \/ host.pod # None /\ host'.pod.id = host.pod.id
          \/ host'.pod.id = host'.ids
      BY <1>8 DEF Drifted
    <3> QED BY <1>0, <2>1, <3>1, <3>2, <3>3
  <2> QED BY <2>1, <2>2, <2>3, <2>4 DEF HostOK, Kubernetes
<1> QED BY <1>1, <1>2, <1>3, <1>4, <1>5, <1>6, <1>7, <1>8 DEF Steps

\* A pod that is there stays the one it was, or has a new id.
LEMMA PodIsKept ==
  ASSUME Typed, PlanOK, PodOK, UNCHANGED setup, proc'.cur = proc.cur, proc'.seen = proc.seen,
         "dropPod" \in Calls(proc.todo)' => "dropPod" \in Calls(proc.todo),
         host' \in Host, host'.ids >= host.ids,
         \/ host'.pod = None
         \/ host.pod # None /\ host'.pod.id = host.pod.id /\ host'.pod.marker = host.pod.marker
         \/ host'.pod.id = host'.ids /\ host'.ids > host.ids
  PROVE  PodOK'
<1> SUFFICES ASSUME "dropPod" \in Calls(proc.todo)'
             PROVE  /\ proc'.seen.id <= host'.ids
                    /\ NapCat' /\ host'.pod # None /\ host'.pod.id = proc'.seen.id => host'.pod.marker # proc'.cur
  BY DEF PodOK
<1>1. "dropPod" \in Calls(proc.todo) /\ "dropPod" \in Chain
  BY DEF Chain
<1>2. proc.seen \in Seen
  BY <1>1, Bounds DEF PlanOK, ProcessType
<1>3. proc.seen.id \in Nat /\ host.ids \in Nat /\ host'.ids \in Nat
  BY <1>2, Bounds DEF Seen, Host
<1>4. proc.seen.id <= host.ids /\ (NapCat /\ host.pod # None /\ host.pod.id = proc.seen.id => host.pod.marker # proc.cur)
  BY <1>1 DEF PodOK
<1>5. proc'.seen.id <= host'.ids
  BY <1>3, <1>4
<1>6. NapCat' = NapCat
  BY DEF NapCat
<1>7. ASSUME NapCat, host'.pod # None, host'.pod.id = proc.seen.id PROVE host'.pod.marker # proc.cur
  <2>1. ~(host'.pod.id = host'.ids /\ host'.ids > host.ids)
    BY <1>3, <1>4, <1>7
  <2> QED BY <1>4, <1>7, <2>1
<1> QED BY <1>5, <1>6, <1>7

LEMMA NothingToDrop ==
  ASSUME "dropPod" \notin Calls(proc.todo)'
  PROVE  PodOK'
BY DEF PodOK

LEMMA SamePod ==
  ASSUME Typed, host' = host
  PROVE  /\ host' \in Host /\ host'.ids >= host.ids
         /\ \/ host'.pod = None
            \/ host.pod # None /\ host'.pod.id = host.pod.id /\ host'.pod.marker = host.pod.marker
<1>1. host.ids \in Nat /\ host \in Host
  BY Bounds, HostFields
<1> QED BY <1>1

LEMMA PodStep ==
  ASSUME Typed, PlanOK, HostOK, PodOK, Steps
  PROVE  PodOK'
<1>0. Calls(proc.todo)' = Calls(proc'.todo) /\ Calls(<<>>) = {}
  BY EmptyPlan DEF Calls
<1>1. CASE \E c \in CommandInputs: Issue(c)
  <2>1. UNCHANGED <<setup, proc, host>>
    BY <1>1, IssueKeeps
  <2> QED BY <2>1, SamePod, PodIsKept DEF Calls
<1>2. CASE \E g \in Generations: ~Deleted /\ Accept(g)
  <2>1. PICK g \in Generations: Accept(g)
    BY <1>2
  <2>2. outcome[g] # "unsent" /\ setup \in Setup
    BY <2>1, RuntimeAssumption DEF Accept, Typed, TypeOK
  <2>3. commands[g] \in Command
    BY <2>2, IssuedCommand
  <2>4. proc'.todo = <<>> \/ proc'.todo = Plan(commands[g], Inspected)
    BY <2>1, AcceptFields DEF Typed, TypeOK
  <2>5. "dropPod" \notin Calls(Plan(commands[g], Inspected))
    BY <2>2, <2>3, NewPlan DEF Chain
  <2> QED BY <1>0, <2>4, <2>5, NothingToDrop
<1>3. CASE Worked
  <2>1. /\ proc'.cur = proc.cur /\ proc'.seen = proc.seen /\ proc'.todo = Tail(proc.todo) /\ proc.todo # <<>>
        /\ setup' = setup /\ host' \in Host /\ MovesPod
    BY <1>3, GoesFields DEF Worked, Moves, Goes
  <2>2. Calls(Tail(proc.todo)) \subseteq Calls(proc.todo)
    BY <2>1, NextCallIsOne
  <2>3. /\ host'.ids >= host.ids
        /\ \/ host'.pod = None
           \/ host.pod # None /\ host'.pod.id = host.pod.id /\ host'.pod.marker = host.pod.marker
    BY <2>1 DEF MovesPod
  <2> QED BY <1>0, <2>1, <2>2, <2>3, PodIsKept
<1>4. CASE Marked
  <2>1. \/ Calls(proc.todo)' \cap Chain = {}
        \/ proc'.seen \in Seen /\ host.pod # None /\ proc'.seen.id = host.pod.id
           /\ (NapCat => host.pod.marker # proc.cur)
    BY <1>4, MarkedPlan
  <2>2. proc'.cur = proc.cur /\ setup' = setup /\ host'.pod = host.pod /\ host'.ids >= host.ids /\ host' \in Host
    BY <1>4, MarkedFields DEF Marked
  <2>3. CASE Calls(proc.todo)' \cap Chain = {}
    BY <2>3, NothingToDrop DEF Chain
  <2>4. CASE proc'.seen \in Seen /\ host.pod # None /\ proc'.seen.id = host.pod.id
             /\ (NapCat => host.pod.marker # proc.cur)
    <3>1. host.pod.id <= host.ids /\ host.pod.id \in Nat /\ host.ids \in Nat /\ host'.ids \in Nat
      BY <2>2, <2>4, Bounds, HostFields DEF HostOK, Pod, Host
    <3>2. proc'.seen.id <= host'.ids
      BY <2>2, <2>4, <3>1
    <3> QED BY <2>2, <2>4, <3>2 DEF PodOK, NapCat
  <2> QED BY <2>1, <2>3, <2>4
<1>5. CASE Became
  <2>1. proc'.cur = proc.cur /\ proc'.seen = proc.seen /\ UNCHANGED <<setup, host>>
    BY <1>5, BecameFields DEF Became
  <2>2. "dropPod" \in Calls(proc.todo)' => "dropPod" \in Calls(proc.todo)
    BY <1>5, BecamePlan
  <2> QED BY <2>1, <2>2, SamePod, PodIsKept
<1>6. CASE Stored
  <2>1. /\ proc'.cur = proc.cur /\ proc'.seen = proc.seen /\ proc'.todo = Tail(proc.todo) /\ proc.todo # <<>>
        /\ UNCHANGED <<setup, host>>
    BY <1>6, StoredFields DEF Stored
  <2>2. Calls(Tail(proc.todo)) \subseteq Calls(proc.todo)
    BY <2>1, NextCallIsOne
  <2> QED BY <1>0, <2>1, <2>2, SamePod, PodIsKept
<1>7. CASE Ended
  BY <1>0, <1>7, EndedFields, NothingToDrop
<1>8. CASE Drifted
  <2>1. /\ UNCHANGED <<setup, proc>> /\ host' \in Host /\ host'.ids >= host.ids
        /\ \/ host'.pod = None
           \/ host.pod # None /\ host'.pod.id = host.pod.id /\ host'.pod.marker = host.pod.marker
           \/ host'.pod.id = host'.ids /\ host'.ids > host.ids
    BY <1>8 DEF Drifted
  <2> QED BY <2>1, PodIsKept DEF Calls
<1> QED BY <1>1, <1>2, <1>3, <1>4, <1>5, <1>6, <1>7, <1>8 DEF Steps

LEMMA ImageStep ==
  ASSUME Typed, PlanOK, ImageOK, Steps
  PROVE  ImageOK'
<1>0. Calls(proc.todo)' = Calls(proc'.todo) /\ Calls(<<>>) = {}
  BY EmptyPlan DEF Calls
<1>1. CASE \E c \in CommandInputs: Issue(c)
  <2>1. UNCHANGED <<setup, proc, host>> /\ \A g \in 1..Len(commands): commands'[g] = commands[g]
    BY <1>1, IssueKeeps
  <2>2. proc.cur # 0 => commands'[proc.cur] = commands[proc.cur]
    BY <2>1, Bounds
  <2>3. (proc.cur # 0 => Deletes(proc.cur)' = Deletes(proc.cur)) /\ At("pull")' = At("pull")
    BY <2>1, <2>2 DEF Deletes, At
  <2>4. Calls(proc.todo)' = Calls(proc.todo) /\ Kubernetes' = Kubernetes
    BY <2>1 DEF Calls, Kubernetes
  <2> QED BY <2>1, <2>3, <2>4 DEF ImageOK
<1>2. CASE \E g \in Generations: ~Deleted /\ Accept(g)
  <2>1. PICK g \in Generations: Accept(g)
    BY <1>2
  <2>2. outcome[g] # "unsent" /\ setup \in Setup /\ UNCHANGED <<setup, commands, host>>
    BY <2>1, RuntimeAssumption DEF Accept, Typed, TypeOK
  <2>3. commands[g] \in Command
    BY <2>2, IssuedCommand
  <2>4. proc'.cur = 0 \/ (proc'.cur = g /\ proc'.todo = Plan(commands[g], Inspected))
    BY <2>1, AcceptCases
  <2>5. commands[g].action # "delete" /\ setup.provider = "snowluma" /\ ~Kubernetes
          => Starts(Plan(commands[g], Inspected), "pull") \/ "rm" \notin Calls(Plan(commands[g], Inspected))
    BY <2>2, <2>3, NewPlan
  <2> QED BY <1>0, <2>2, <2>4, <2>5 DEF ImageOK, Deletes, Kubernetes, At, Starts
<1>3. ASSUME UNCHANGED <<setup, commands>>, proc'.cur = proc.cur,
             "rm" \in Calls(proc.todo)' => "rm" \in Calls(proc.todo),
             host.registry = "local" \/ (At("pull") /\ ~Kubernetes) => host'.registry = "local"
      PROVE  ImageOK'
  BY <1>3 DEF ImageOK, Deletes, Kubernetes
<1>4. CASE Worked
  <2>1. /\ proc'.cur = proc.cur /\ proc'.todo = Tail(proc.todo) /\ proc.todo # <<>>
        /\ UNCHANGED <<setup, commands>> /\ MovesPod
    BY <1>4, GoesFields DEF Worked, Moves, Goes
  <2>2. Calls(Tail(proc.todo)) \subseteq Calls(proc.todo)
    BY <2>1, NextCallIsOne
  <2>3. host.registry = "local" \/ (At("pull") /\ ~Kubernetes) => host'.registry = "local"
    BY <2>1 DEF MovesPod
  <2> QED BY <1>0, <1>3, <2>1, <2>2, <2>3
<1>5. CASE Marked
  BY <1>5 DEF Marked, ImageOK, Kubernetes
<1>6. CASE Became
  <2>1. proc'.cur = proc.cur /\ UNCHANGED <<setup, commands, host>> /\ ~At("pull")
    BY <1>6, BecameFields DEF Became, At
  <2>2. "rm" \in Calls(proc.todo)' => "rm" \in Calls(proc.todo)
    BY <1>6, BecamePlan
  <2> QED BY <1>3, <2>1, <2>2
<1>7. CASE Stored
  <2>1. /\ proc'.cur = proc.cur /\ proc'.todo = Tail(proc.todo) /\ proc.todo # <<>>
        /\ UNCHANGED <<setup, commands, host>> /\ ~At("pull")
    BY <1>7, StoredFields DEF Stored, At
  <2>2. Calls(Tail(proc.todo)) \subseteq Calls(proc.todo)
    BY <2>1, NextCallIsOne
  <2> QED BY <1>0, <1>3, <2>1, <2>2
<1>8. CASE Ended
  BY <1>8, EndedFields DEF ImageOK
<1>9. CASE Drifted
  <2>1. UNCHANGED <<setup, commands, proc>> /\ (host.registry = "local" => host'.registry = "local")
    BY <1>9 DEF Drifted
  <2>2. Calls(proc.todo)' = Calls(proc.todo) /\ Kubernetes' = Kubernetes /\ At("pull")' = At("pull")
        /\ Deletes(proc.cur)' = Deletes(proc.cur)
    BY <2>1 DEF Calls, Kubernetes, At, Deletes
  <2> QED BY <2>1, <2>2 DEF ImageOK
<1> QED BY <1>1, <1>2, <1>4, <1>5, <1>6, <1>7, <1>8, <1>9 DEF Steps

-----------------------------------------------------------------------------
(* A deletion *)

DeletionOfCluster ==
  \/ proc.todo \in {<<"drop", "dropData", "forget", "record">>,
       <<"scaleDown", "awaitGone", "dropSupport", "dropWorkload", "dropData", "forget", "record">>,
       <<"awaitGone", "dropSupport", "dropWorkload", "dropData", "forget", "record">>,
       <<"dropSupport", "dropWorkload", "dropData", "forget", "record">>}
  \/ ~host.support
     /\ \/ proc.todo = <<"dropWorkload", "dropData", "forget", "record">>
        \/ host.workload = None
           /\ \/ proc.todo = <<"dropData", "forget", "record">>
              \/ host.data # "ours"
                 /\ \/ proc.todo = <<"forget", "record">>
                    \/ saved = 0 /\ proc.todo = <<"record">>

DeletionOfHost ==
  \/ proc.todo = <<"rm", "rmHost", "forget", "record">>
  \/ host.workload = None
     /\ \/ proc.todo = <<"rmHost", "forget", "record">>
        \/ host.data # "ours"
           /\ \/ proc.todo = <<"forget", "record">>
              \/ saved = 0 /\ proc.todo = <<"record">>

LEMMA Deletion ==
  DeletionOK <=> ((NapCat \/ ~Kubernetes) /\ proc.cur # 0 /\ Deletes(proc.cur)
                    => IF Kubernetes THEN DeletionOfCluster ELSE DeletionOfHost)
BY DEF DeletionOK, DeletionOfCluster, DeletionOfHost

\* The next call of a deletion.
LEMMA DeletionCalls ==
  ASSUME DeletionOK, NapCat \/ ~Kubernetes, proc.cur # 0, Deletes(proc.cur)
  PROVE  /\ IF Kubernetes
            THEN Head(proc.todo) \in {"drop", "scaleDown", "awaitGone", "dropSupport", "dropWorkload",
                                      "dropData", "forget", "record"}
            ELSE Head(proc.todo) \in {"rm", "rmHost", "forget", "record"}
         /\ At("rmHost") \/ At("dropData") => host.workload = None
         /\ At("forget") => host.data # "ours" /\ host.workload = None /\ (Kubernetes => ~host.support)
         /\ At("record") => /\ host.data # "ours" /\ host.workload = None /\ (Kubernetes => ~host.support)
                            /\ saved = 0
<1>1. CASE Kubernetes
  <2>1. DeletionOfCluster
    BY <1>1, Deletion
  <2> QED BY <1>1, <2>1 DEF DeletionOfCluster, At
<1>2. CASE ~Kubernetes
  <2>1. DeletionOfHost
    BY <1>2, Deletion
  <2> QED BY <1>2, <2>1 DEF DeletionOfHost, At
<1> QED BY <1>1, <1>2

LEMMA DeletionWorked ==
  ASSUME Typed, DeletionOK, Worked
  PROVE  DeletionOK'
<1>1. /\ UNCHANGED <<setup, commands, saved>> /\ proc'.cur = proc.cur /\ proc.cur # 0
      /\ proc'.todo = Tail(proc.todo) /\ Goes /\ MovesData /\ MovesWorkload
  BY GoesFields DEF Worked, Moves, Goes
<1>2. NapCat' = NapCat /\ Kubernetes' = Kubernetes /\ Deletes(proc.cur)' = Deletes(proc.cur)
  BY <1>1 DEF NapCat, Kubernetes, Deletes
<1> SUFFICES ASSUME NapCat \/ ~Kubernetes, Deletes(proc.cur)
             PROVE  IF Kubernetes THEN DeletionOfCluster' ELSE DeletionOfHost'
  <2>1. DeletionOK' <=> ((NapCat' \/ ~Kubernetes') /\ proc'.cur # 0 /\ Deletes(proc.cur)'
                           => IF Kubernetes' THEN DeletionOfCluster' ELSE DeletionOfHost')
    BY DEF DeletionOK, DeletionOfCluster, DeletionOfHost
  <2> QED BY <1>1, <1>2, <2>1
<1>3. ~At("forget") /\ ~At("record")
  BY <1>1 DEF Goes
<1>4. CASE Kubernetes
  <2>1. DeletionOfCluster
    BY <1>1, <1>4, Deletion
  <2>2. CASE proc.todo = <<"drop", "dropData", "forget", "record">>
    <3>1. At("drop") /\ Tail(proc.todo) = <<"dropData", "forget", "record">>
      BY <2>2 DEF At
    <3>2. host'.workload = None /\ ~host'.support
      BY <1>1, <3>1 DEF MovesWorkload
    <3> QED BY <1>1, <1>4, <3>1, <3>2 DEF DeletionOfCluster
  <2>3. CASE proc.todo = <<"scaleDown", "awaitGone", "dropSupport", "dropWorkload", "dropData", "forget", "record">>
    <3>1. Tail(proc.todo) = <<"awaitGone", "dropSupport", "dropWorkload", "dropData", "forget", "record">>
      BY <2>3
    <3> QED BY <1>1, <1>4, <3>1 DEF DeletionOfCluster
  <2>4. CASE proc.todo = <<"awaitGone", "dropSupport", "dropWorkload", "dropData", "forget", "record">>
    <3>1. Tail(proc.todo) = <<"dropSupport", "dropWorkload", "dropData", "forget", "record">>
      BY <2>4
    <3> QED BY <1>1, <1>4, <3>1 DEF DeletionOfCluster
  <2>5. CASE proc.todo = <<"dropSupport", "dropWorkload", "dropData", "forget", "record">>
    <3>1. At("dropSupport") /\ Tail(proc.todo) = <<"dropWorkload", "dropData", "forget", "record">>
      BY <2>5 DEF At
    <3>2. ~host'.support
      BY <1>1, <3>1 DEF MovesData
    <3> QED BY <1>1, <1>4, <3>1, <3>2 DEF DeletionOfCluster
  <2>6. CASE ~host.support /\ proc.todo = <<"dropWorkload", "dropData", "forget", "record">>
    <3>1. At("dropWorkload") /\ ~At("support") /\ Tail(proc.todo) = <<"dropData", "forget", "record">>
      BY <2>6 DEF At
    <3>2. ~host'.support /\ host'.workload = None
      BY <1>1, <2>6, <3>1 DEF MovesData, MovesWorkload
    <3> QED BY <1>1, <1>4, <3>1, <3>2 DEF DeletionOfCluster
  <2>7. CASE ~host.support /\ host.workload = None /\ proc.todo = <<"dropData", "forget", "record">>
    <3>1. /\ At("dropData") /\ ~At("support") /\ ~At("create") /\ ~At("workload")
          /\ Tail(proc.todo) = <<"forget", "record">>
      BY <2>7 DEF At
    <3>2. ~host'.support /\ host'.workload = None /\ host'.data # "ours"
      BY <1>1, <2>7, <3>1 DEF MovesData, MovesWorkload
    <3> QED BY <1>1, <1>4, <3>1, <3>2 DEF DeletionOfCluster
  <2>8. proc.todo # <<"forget", "record">> /\ proc.todo # <<"record">>
    BY <1>3 DEF At
  <2> QED BY <2>1, <2>2, <2>3, <2>4, <2>5, <2>6, <2>7, <2>8 DEF DeletionOfCluster
<1>5. CASE ~Kubernetes
  <2>1. DeletionOfHost
    BY <1>1, <1>5, Deletion
  <2>2. CASE proc.todo = <<"rm", "rmHost", "forget", "record">>
    <3>1. At("rm") /\ Tail(proc.todo) = <<"rmHost", "forget", "record">>
      BY <2>2 DEF At
    <3>2. host'.workload = None
      BY <1>1, <3>1 DEF MovesWorkload
    <3> QED BY <1>1, <1>5, <3>1, <3>2 DEF DeletionOfHost
  <2>3. CASE host.workload = None /\ proc.todo = <<"rmHost", "forget", "record">>
    <3>1. At("rmHost") /\ ~At("create") /\ ~At("workload") /\ Tail(proc.todo) = <<"forget", "record">>
      BY <2>3 DEF At
    <3>2. host'.workload = None /\ host'.data # "ours"
      BY <1>1, <2>3, <3>1 DEF MovesData, MovesWorkload
    <3> QED BY <1>1, <1>5, <3>1, <3>2 DEF DeletionOfHost
  <2>4. proc.todo # <<"forget", "record">> /\ proc.todo # <<"record">>
    BY <1>3 DEF At
  <2> QED BY <2>1, <2>2, <2>3, <2>4 DEF DeletionOfHost
<1> QED BY <1>4, <1>5

LEMMA DeletionBecame ==
  ASSUME Typed, DeletionOK, Became
  PROVE  DeletionOK'
<1>1. /\ UNCHANGED <<setup, commands, saved, host>> /\ proc'.cur = proc.cur /\ proc.cur # 0
  BY BecameFields DEF Became
<1>2. NapCat' = NapCat /\ Kubernetes' = Kubernetes /\ Deletes(proc.cur)' = Deletes(proc.cur)
  BY <1>1 DEF NapCat, Kubernetes, Deletes
<1> SUFFICES ASSUME NapCat \/ ~Kubernetes, Deletes(proc.cur)
             PROVE  IF Kubernetes THEN DeletionOfCluster' ELSE DeletionOfHost'
  <2>1. DeletionOK' <=> ((NapCat' \/ ~Kubernetes') /\ proc'.cur # 0 /\ Deletes(proc.cur)'
                           => IF Kubernetes' THEN DeletionOfCluster' ELSE DeletionOfHost')
    BY DEF DeletionOK, DeletionOfCluster, DeletionOfHost
  <2> QED BY <1>1, <1>2, <2>1
<1>3. ~At("awaitReplaced")
  BY <1>1, DeletionCalls DEF At
<1>4. At("drop") /\ Kubernetes
      /\ proc'.todo = <<"scaleDown", "awaitGone", "dropSupport", "dropWorkload">> \o Tail(proc.todo)
  BY <1>3 DEF Became
<1>5. proc.todo = <<"drop", "dropData", "forget", "record">>
  <2>1. DeletionOfCluster
    BY <1>1, <1>4, Deletion
  <2> QED BY <1>4, <2>1 DEF DeletionOfCluster, At
<1>6. Tail(proc.todo) = <<"dropData", "forget", "record">>
  BY <1>5
<1>7. proc'.todo = <<"scaleDown", "awaitGone", "dropSupport", "dropWorkload", "dropData", "forget", "record">>
  <2>1. <<"scaleDown", "awaitGone", "dropSupport", "dropWorkload">> \o <<"dropData", "forget", "record">>
          = <<"scaleDown", "awaitGone", "dropSupport", "dropWorkload", "dropData", "forget", "record">>
    BY FourThree
  <2> QED BY <1>4, <1>6, <2>1
<1> QED BY <1>4, <1>7 DEF DeletionOfCluster

LEMMA DeletionStored ==
  ASSUME Typed, DeletionOK, Stored
  PROVE  DeletionOK'
<1>1. /\ UNCHANGED <<setup, commands, host>> /\ proc'.cur = proc.cur /\ proc.cur # 0
      /\ proc'.todo = Tail(proc.todo)
      /\ At("save") \/ (At("forget") /\ saved' = 0)
  BY StoredFields DEF Stored
<1>2. NapCat' = NapCat /\ Kubernetes' = Kubernetes /\ Deletes(proc.cur)' = Deletes(proc.cur)
  BY <1>1 DEF NapCat, Kubernetes, Deletes
<1> SUFFICES ASSUME NapCat \/ ~Kubernetes, Deletes(proc.cur)
             PROVE  IF Kubernetes THEN DeletionOfCluster' ELSE DeletionOfHost'
  <2>1. DeletionOK' <=> ((NapCat' \/ ~Kubernetes') /\ proc'.cur # 0 /\ Deletes(proc.cur)'
                           => IF Kubernetes' THEN DeletionOfCluster' ELSE DeletionOfHost')
    BY DEF DeletionOK, DeletionOfCluster, DeletionOfHost
  <2> QED BY <1>1, <1>2, <2>1
<1>3. ~At("save")
  BY <1>1, DeletionCalls DEF At
<1>4. At("forget") /\ saved' = 0
  BY <1>1, <1>3
<1>5. CASE Kubernetes
  <2>1. DeletionOfCluster
    BY <1>1, <1>5, Deletion
  <2>2. proc.todo = <<"forget", "record">> /\ ~host.support /\ host.workload = None /\ host.data # "ours"
    BY <1>4, <2>1 DEF DeletionOfCluster, At
  <2>3. Tail(proc.todo) = <<"record">>
    BY <2>2
  <2> QED BY <1>1, <1>4, <1>5, <2>2, <2>3 DEF DeletionOfCluster
<1>6. CASE ~Kubernetes
  <2>1. DeletionOfHost
    BY <1>1, <1>6, Deletion
  <2>2. proc.todo = <<"forget", "record">> /\ host.workload = None /\ host.data # "ours"
    BY <1>4, <2>1 DEF DeletionOfHost, At
  <2>3. Tail(proc.todo) = <<"record">>
    BY <2>2
  <2> QED BY <1>1, <1>4, <1>6, <2>2, <2>3 DEF DeletionOfHost
<1> QED BY <1>5, <1>6

LEMMA DeletionStep ==
  ASSUME Typed, DeletionOK, Steps
  PROVE  DeletionOK'
<1>1. CASE \E c \in CommandInputs: Issue(c)
  <2>1. UNCHANGED <<setup, proc, saved, host>> /\ \A g \in 1..Len(commands): commands'[g] = commands[g]
    BY <1>1, IssueKeeps
  <2>2. proc.cur # 0 => commands'[proc.cur] = commands[proc.cur]
    BY <2>1, Bounds
  <2>3. proc.cur # 0 => Deletes(proc.cur)' = Deletes(proc.cur)
    BY <2>1, <2>2 DEF Deletes
  <2>4. NapCat' = NapCat /\ Kubernetes' = Kubernetes
    BY <2>1 DEF NapCat, Kubernetes
  <2> QED BY <2>1, <2>3, <2>4 DEF DeletionOK
<1>2. CASE \E g \in Generations: ~Deleted /\ Accept(g)
  <2>1. PICK g \in Generations: Accept(g)
    BY <1>2
  <2>2. /\ UNCHANGED <<setup, commands, saved, host>>
        /\ proc'.cur = 0 \/ (proc'.cur = g /\ proc'.todo = Plan(commands[g], Inspected))
    BY <2>1, AcceptCases
  <2>3. CASE proc'.cur = 0
    BY <2>3 DEF DeletionOK
  <2>4. CASE proc'.cur = g /\ proc'.todo = Plan(commands[g], Inspected)
    <3>1. ASSUME NapCat \/ ~Kubernetes, Deletes(g)
          PROVE  IF Kubernetes THEN Plan(commands[g], Inspected) = <<"drop", "dropData", "forget", "record">>
                 ELSE \/ Plan(commands[g], Inspected) = <<"rm", "rmHost", "forget", "record">>
                      \/ /\ host.workload = None
                         /\ Plan(commands[g], Inspected) = <<"rmHost", "forget", "record">>
      BY <3>1, PlanToDelete, InspectedType, Bounds DEF Deletes
    <3>2. NapCat' = NapCat /\ Kubernetes' = Kubernetes /\ Deletes(proc.cur)' = Deletes(g)
      BY <2>2, <2>4 DEF NapCat, Kubernetes, Deletes
    <3> QED BY <2>2, <2>4, <3>1, <3>2 DEF DeletionOK
  <2> QED BY <2>2, <2>3, <2>4
<1>3. CASE Worked
  BY <1>3, DeletionWorked
<1>4. CASE Marked
  <2>1. /\ Kubernetes /\ At("mark") /\ UNCHANGED <<setup, commands>> /\ proc'.cur = proc.cur /\ proc.cur # 0
    BY <1>4, MarkedFields DEF Marked
  <2>2. ~(NapCat /\ Deletes(proc.cur))
    BY <2>1, DeletionCalls DEF At
  <2>3. NapCat' = NapCat /\ Kubernetes' = Kubernetes /\ Deletes(proc.cur)' = Deletes(proc.cur)
    BY <2>1 DEF NapCat, Kubernetes, Deletes
  <2> QED BY <2>1, <2>2, <2>3 DEF DeletionOK
<1>5. CASE Became
  BY <1>5, DeletionBecame
<1>6. CASE Stored
  BY <1>6, DeletionStored
<1>7. CASE Ended
  BY <1>7, EndedFields DEF DeletionOK
<1>8. CASE Drifted
  <2>1. /\ UNCHANGED <<setup, commands, proc, saved>> /\ host'.data = host.data /\ host'.support = host.support
        /\ host.workload = None => host'.workload = None
    BY <1>8 DEF Drifted
  <2>2. NapCat' = NapCat /\ Kubernetes' = Kubernetes /\ Deletes(proc.cur)' = Deletes(proc.cur)
    BY <2>1 DEF NapCat, Kubernetes, Deletes
  <2>3. DeletionOfCluster => DeletionOfCluster'
    BY <2>1 DEF DeletionOfCluster
  <2>4. DeletionOfHost => DeletionOfHost'
    BY <2>1 DEF DeletionOfHost
  <2>5. DeletionOK' <=> ((NapCat' \/ ~Kubernetes') /\ proc'.cur # 0 /\ Deletes(proc.cur)'
                           => IF Kubernetes' THEN DeletionOfCluster' ELSE DeletionOfHost')
    BY DEF DeletionOK, DeletionOfCluster, DeletionOfHost
  <2> QED BY <2>1, <2>2, <2>3, <2>4, <2>5, Deletion
<1> QED BY <1>1, <1>2, <1>3, <1>4, <1>5, <1>6, <1>7, <1>8 DEF Steps

\* Nothing but its own result makes a deletion a done one.
LEMMA GoneStep ==
  ASSUME Typed, HostOK, DeletionOK, GoneOK, Steps
  PROVE  GoneOK'
<1>1. CASE \E c \in CommandInputs: Issue(c)
  <2>1. PICK c \in CommandInputs: Issue(c)
    BY <1>1
  <2>2. /\ ~Deleted /\ Len(commands') = Len(commands) + 1 /\ Len(commands) \in Nat
        /\ \A g \in 1..Len(commands): commands'[g] = commands[g]
        /\ Len(commands') <= MaxCommands
    BY <2>1, IssueKeeps, Bounds
  <2>3. ASSUME NEW g \in 1..Len(commands'), outcome'[g] = "succeeded", commands'[g].action = "delete"
        PROVE  FALSE
    <3>1. g \in Generations
      BY <2>2, RuntimeAssumption DEF Generations
    <3>2. outcome'[g] = IF g = Len(commands) + 1 THEN "leased"
                        ELSE IF g \in {k \in 1..Len(commands): outcome[k] = "leased"} THEN "stale" ELSE outcome[g]
      BY <2>1, <3>1 DEF Issue
    <3>3. g # Len(commands) + 1 /\ outcome[g] = "succeeded"
      BY <2>3, <3>2
    <3>4. g \in 1..Len(commands)
      BY <2>2, <3>3
    <3> QED BY <2>2, <2>3, <3>3, <3>4 DEF Deleted
  <2>4. ~Deleted'
    BY <2>3 DEF Deleted
  <2> QED BY <2>4 DEF GoneOK
<1>2. CASE \E g \in Generations: ~Deleted /\ Accept(g)
  <2>1. PICK g \in Generations: ~Deleted /\ Accept(g)
    BY <1>2
  <2>2. /\ commands' = commands /\ \A k \in Generations: outcome'[k] = "succeeded" => outcome[k] = "succeeded"
    BY <2>1, Bounds DEF Accept
  <2>3. 1..Len(commands) \subseteq Generations
    BY RuntimeAssumption, Bounds DEF Generations, Typed, TypeOK
  <2>4. ~Deleted'
    BY <2>1, <2>2, <2>3 DEF Deleted
  <2> QED BY <2>4 DEF GoneOK
<1>3. CASE Worked \/ Marked \/ Became \/ Stored
  <2>1. proc.cur # 0 /\ UNCHANGED <<commands, outcome>>
    BY <1>3, GoesFields, MarkedFields, BecameFields, StoredFields DEF Worked, Goes, Marked, Became, Stored
  <2> QED BY <2>1 DEF GoneOK, Deleted
<1>4. CASE Ended
  <2>0. proc.cur # 0 /\ proc.cur \in 0..MaxCommands
    BY <1>4, Bounds DEF Ended, ProcessType
  <2>1. /\ UNCHANGED <<setup, commands, saved, host>> /\ proc.cur # 0 /\ proc'.cur = 0 /\ proc.cur \in Generations
    <3>1. proc.cur \in Generations
      BY <2>0, RuntimeAssumption DEF Generations
    <3>2. proc'.cur = 0
      BY <1>4, EndedFields
    <3> QED BY <1>4, <2>0, <3>1, <3>2 DEF Ended
  <2>2. ~Deleted
    BY <2>1 DEF GoneOK
  <2>3. 1..Len(commands) \subseteq Generations
    BY RuntimeAssumption, Bounds DEF Generations, Typed, TypeOK
  <2>4. ASSUME Deleted' PROVE At("record") /\ Deletes(proc.cur)
    <3>1. PICK g \in 1..Len(commands): commands[g].action = "delete" /\ outcome'[g] = "succeeded"
      BY <2>1, <2>4 DEF Deleted
    <3>2. outcome[g] # "succeeded" /\ g \in Generations
      BY <2>2, <2>3, <3>1 DEF Deleted
    <3>3. PICK status \in {"failed"} \cup (IF At("record") THEN {"succeeded"} ELSE {}):
            outcome' = [outcome EXCEPT ![proc.cur] = status]
      BY <1>4, <3>1, <3>2 DEF Ended
    <3>4. g = proc.cur /\ status = "succeeded"
      BY <2>1, <3>1, <3>2, <3>3, Bounds
    <3> QED BY <3>1, <3>3, <3>4 DEF Deletes
  <2>5. ASSUME Deleted', setup.provider = "napcat" \/ ~Kubernetes
        PROVE  host.workload = None /\ host.data # "ours" /\ ~host.support /\ saved = 0
    <3>1. At("record") /\ Deletes(proc.cur) /\ (NapCat \/ ~Kubernetes)
      BY <2>4, <2>5 DEF NapCat
    <3>2. host.data # "ours" /\ host.workload = None /\ (Kubernetes => ~host.support) /\ saved = 0
      BY <2>1, <3>1, DeletionCalls
    <3> QED BY <3>2 DEF HostOK
  <2> QED BY <2>1, <2>5 DEF GoneOK, DeletedMeansGone, Kubernetes
<1>5. CASE Drifted
  <2>1. /\ UNCHANGED <<setup, commands, outcome, proc, saved>>
        /\ host'.data = host.data /\ host'.support = host.support
        /\ host.workload = None => host'.workload = None
    BY <1>5 DEF Drifted
  <2>2. Deleted' = Deleted /\ Kubernetes' = Kubernetes
    BY <2>1 DEF Deleted, Kubernetes
  <2> QED BY <2>1, <2>2 DEF GoneOK, DeletedMeansGone
<1> QED BY <1>1, <1>2, <1>3, <1>4, <1>5 DEF Steps

-----------------------------------------------------------------------------
(* The fence, and what effects leave behind *)

\* An effect of the command in hand, or none.
LEMMA DeletionBefore ==
  ASSUME Typed, proc.cur # 0, NoDeletion(proc.cur)
  PROVE  ~Deletes(proc.cur)
<1>1. proc.cur \in 1..proc.cur
  BY Bounds
<1> QED BY <1>1 DEF NoDeletion

\* The history does not change.
LEMMA SameHistory ==
  ASSUME Typed, UNCHANGED acted, \A g \in 1..Len(commands): commands'[g] = commands[g]
  PROVE  NoDeletion(acted)' <=> NoDeletion(acted)
<1>1. acted \in 0..Len(commands) /\ Len(commands) \in Nat
  BY Bounds
<1>2. \A g \in 1..acted: commands'[g] = commands[g]
  BY <1>1
<1> QED BY <1>2 DEF NoDeletion, Deletes

LEMMA SameCommand ==
  ASSUME Typed, UNCHANGED proc, \A g \in 1..Len(commands): commands'[g] = commands[g]
  PROVE  proc.cur # 0 => Deletes(proc.cur)' = Deletes(proc.cur)
<1>1. proc.cur # 0 => proc.cur \in 1..Len(commands)
  BY Bounds
<1> QED BY <1>1 DEF Deletes

\* What is left to show when the command in hand may have an effect.
LEMMA FenceOfEffect ==
  ASSUME Typed, FenceOK, NapCat, proc.cur # 0, ~At("save"), UNCHANGED <<commands, saved>>,
         acted' \in {acted, proc.cur}
  PROVE  NoDeletion(acted)'
           => acted' <= saved /\ acted' <= proc.cur /\ (proc.memory # None => acted' <= proc.memory)
<1>1. CASE acted' = acted
  BY <1>1, SameHistory DEF FenceOK
<1>2. CASE acted' = proc.cur
  <2> SUFFICES ASSUME NoDeletion(acted)' PROVE proc.cur <= saved /\ proc.cur <= proc.memory
    BY <1>2, Bounds
  <2>1. NoDeletion(proc.cur)
    BY <1>2 DEF NoDeletion, Deletes
  <2>2. saved = proc.cur /\ proc.memory = proc.cur
    BY <2>1, DeletionBefore DEF FenceOK
  <2> QED BY <2>2, Bounds
<1> QED BY <1>1, <1>2

\* When a deletion drops the fence, no effect of another command is left to guard.
LEMMA ForgetIsLast ==
  ASSUME Typed, PlanOK, DeletionOK, HostOK, TraceOK, NapCat, At("forget")
  PROVE  Deletes(proc.cur) /\ (NoDeletion(acted) => acted <= 0)
<1>1. proc.todo # <<>> /\ proc.cur # 0 /\ acted \in Nat
  BY Bounds DEF At, Typed, TypeOK
<1>2. "forget" \in Calls(proc.todo) /\ "forget" \in Deleting
  BY <1>1, NextCallIsOne DEF At, Deleting
<1>3. Deletes(proc.cur)
  BY <1>1, <1>2 DEF PlanOK
<1>4. host.data # "ours" /\ ~host.support
  BY <1>1, <1>3, DeletionCalls DEF HostOK
<1>5. ~(acted > 0 /\ NoDeletion(acted))
  BY <1>4 DEF TraceOK
<1> QED BY <1>1, <1>3, <1>5

LEMMA FenceStored ==
  ASSUME Typed, PlanOK, DeletionOK, HostOK, FenceOK, TraceOK, NapCat, Stored
  PROVE  FenceOK'
<1>1. /\ UNCHANGED <<setup, commands, host, acted>> /\ proc'.cur = proc.cur /\ proc.cur # 0
      /\ proc'.todo = Tail(proc.todo) /\ proc.todo # <<>>
      /\ \/ At("save") /\ proc'.memory = proc.cur /\ saved' = proc.cur
         \/ At("forget") /\ proc'.memory = 0 /\ saved' = 0
  BY StoredFields DEF Stored
<1>2. NapCat' = NapCat /\ Deletes(proc.cur)' = Deletes(proc.cur) /\ (NoDeletion(acted)' <=> NoDeletion(acted))
  BY <1>1, SameHistory DEF NapCat, Deletes
<1>3. proc.cur \in Nat /\ acted \in Nat /\ (NoDeletion(acted) => acted <= proc.cur)
  BY <1>1, Bounds DEF FenceOK
<1>4. CASE At("save") /\ proc'.memory = proc.cur /\ saved' = proc.cur
  BY <1>1, <1>2, <1>3, <1>4 DEF FenceOK
<1>5. CASE At("forget") /\ proc'.memory = 0 /\ saved' = 0
  <2>1. Deletes(proc.cur) /\ (NoDeletion(acted) => acted <= 0)
    BY <1>5, ForgetIsLast
  <2> QED BY <1>1, <1>2, <1>3, <1>5, <2>1 DEF FenceOK
<1> QED BY <1>1, <1>4, <1>5

LEMMA FenceStep ==
  ASSUME Typed, PlanOK, DeletionOK, HostOK, FenceOK, TraceOK, Steps
  PROVE  FenceOK'
<1>0. setup' = setup
  BY IssueKeeps, AcceptCases DEF Steps, Worked, Goes, Marked, Became, Stored, Ended, Drifted
<1> SUFFICES ASSUME NapCat PROVE FenceOK'
  BY <1>0 DEF FenceOK, NapCat
<1>1. CASE \E c \in CommandInputs: Issue(c)
  <2>1. UNCHANGED <<proc, saved, acted>> /\ \A g \in 1..Len(commands): commands'[g] = commands[g]
    BY <1>1, IssueKeeps
  <2>2. (proc.cur # 0 => Deletes(proc.cur)' = Deletes(proc.cur)) /\ (NoDeletion(acted)' <=> NoDeletion(acted))
    BY <2>1, SameCommand, SameHistory
  <2>3. At("save")' = At("save")
    BY <2>1 DEF At
  <2> QED BY <2>1, <2>2, <2>3 DEF FenceOK
<1>2. CASE \E g \in Generations: ~Deleted /\ Accept(g)
  <2>1. PICK g \in Generations: Accept(g)
    BY <1>2
  <2>2. /\ UNCHANGED <<setup, commands, saved, host, acted>> /\ setup \in Setup
        /\ commands[g] \in Command /\ proc'.memory = LoadCommands
        /\ \/ proc'.cur = 0
           \/ /\ ~Fenced(LoadCommands, g)
              /\ proc'.cur = g /\ proc'.todo = Plan(commands[g], Inspected)
    BY <2>1, AcceptCases
  <2>3. /\ LoadCommands \in Nat /\ acted \in Nat
        /\ NoDeletion(acted) => acted <= saved /\ acted <= LoadCommands
    BY LoadedCommands, Bounds DEF LoadCommands, FenceOK
  <2>4. NoDeletion(acted)' <=> NoDeletion(acted)
    BY <2>2, SameHistory
  <2>5. CASE proc'.cur = 0
    BY <2>2, <2>3, <2>4, <2>5 DEF FenceOK
  <2>6. CASE ~Fenced(LoadCommands, g) /\ proc'.cur = g /\ proc'.todo = Plan(commands[g], Inspected)
    <3>1. ~Deletes(g) => Starts(Plan(commands[g], Inspected), "save")
      BY <2>2, NewPlan DEF Deletes
    <3>2. g \in Nat /\ (NoDeletion(acted) => acted <= g)
      <4>1. g \in Nat
        BY DEF Generations
      <4> QED BY <2>3, <2>6, <4>1 DEF Fenced
    <3>3. Deletes(proc.cur)' = Deletes(g)
      BY <2>2, <2>6 DEF Deletes
    <3>4. ~Deletes(g) => At("save")'
      BY <2>6, <3>1 DEF At, Starts
    <3> QED BY <2>2, <2>3, <2>4, <2>6, <3>2, <3>3, <3>4 DEF FenceOK
  <2> QED BY <2>2, <2>5, <2>6
<1>3. ASSUME UNCHANGED <<commands, saved>>, proc.cur # 0, ~At("save"), acted' \in {acted, proc.cur},
             proc'.cur = proc.cur, proc'.memory = proc.memory
      PROVE  FenceOK'
  <2>1. NoDeletion(acted)'
          => acted' <= saved /\ acted' <= proc.cur /\ (proc.memory # None => acted' <= proc.memory)
    BY <1>3, FenceOfEffect
  <2>2. Deletes(proc.cur)' = Deletes(proc.cur)
    BY <1>3 DEF Deletes
  <2> QED BY <1>3, <2>1, <2>2 DEF FenceOK
<1>4. CASE Worked
  <2>1. /\ UNCHANGED <<commands, saved>> /\ acted' \in {acted, proc.cur} /\ ~At("save")
        /\ proc.cur # 0 /\ proc'.cur = proc.cur /\ proc'.memory = proc.memory
    BY <1>4, GoesFields DEF Worked, Goes
  <2> QED BY <1>3, <2>1
<1>5. CASE Marked
  <2>1. /\ UNCHANGED <<commands, saved>> /\ acted' = proc.cur /\ ~At("save")
        /\ proc.cur # 0 /\ proc'.cur = proc.cur /\ proc'.memory = proc.memory
    BY <1>5, MarkedFields DEF Marked, At
  <2> QED BY <1>3, <2>1
<1>6. CASE Became
  <2>1. /\ UNCHANGED <<commands, saved, acted>> /\ ~At("save")
        /\ proc.cur # 0 /\ proc'.cur = proc.cur /\ proc'.memory = proc.memory
    BY <1>6, BecameFields DEF Became, At
  <2> QED BY <1>3, <2>1
<1>7. CASE Stored
  BY <1>7, FenceStored
<1>8. CASE Ended
  <2>1. /\ UNCHANGED <<commands, saved, acted>> /\ proc.cur # 0 /\ proc'.cur = 0
        /\ proc'.memory \in {None, proc.memory, proc.cur} \/ (At("forget") /\ proc'.memory = 0)
    BY <1>8, EndedFields DEF Ended
  <2>2. NoDeletion(acted) /\ proc'.memory # None => acted <= proc'.memory
    BY <2>1, ForgetIsLast DEF FenceOK
  <2>3. NoDeletion(acted)' <=> NoDeletion(acted)
    BY <2>1, SameHistory
  <2> QED BY <2>1, <2>2, <2>3 DEF FenceOK
<1>9. CASE Drifted
  <2>1. UNCHANGED <<commands, proc, saved, acted>>
    BY <1>9 DEF Drifted
  <2>2. Deletes(proc.cur)' = Deletes(proc.cur) /\ (NoDeletion(acted)' <=> NoDeletion(acted)) /\ At("save")' = At("save")
    BY <2>1, SameHistory DEF Deletes, At
  <2> QED BY <2>1, <2>2 DEF FenceOK
<1> QED BY <1>1, <1>2, <1>4, <1>5, <1>6, <1>7, <1>8, <1>9 DEF Steps

\* The next call of a command that does not delete.
LEMMA NextIsNoDeletion ==
  ASSUME Typed, PlanOK, proc.todo # <<>>, proc.cur # 0, ~Deletes(proc.cur)
  PROVE  /\ ~At("rmHost") /\ ~At("dropData")
         /\ NapCat => ~At("pull") /\ ~At("drop") /\ ~At("dropSupport") /\ ~At("dropWorkload")
<1>1. Head(proc.todo) \in Calls(proc.todo)
  BY NextCallIsOne
<1> QED BY <1>1 DEF PlanOK, Deleting, NotNapCat, At

\* A NapCat workload of this endpoint has its login state next to it.
LEMMA DataBesideWorkload ==
  ASSUME Typed, HostOK, TraceOK, NapCat, proc.cur # 0
  PROVE  host.workload # None => host.data = "ours"
BY DEF HostOK, TraceOK

\* Directories and claims that are there go only with a deletion, which has
\* given the workload up.
LEMMA DataStays ==
  ASSUME Typed, PlanOK, HostOK, TraceOK, DeletionOK, NapCat, Worked, host.data = "ours",
         host'.data # "ours"
  PROVE  Deletes(proc.cur) /\ host.workload = None /\ (At("rmHost") \/ At("dropData"))
<1>1. proc.todo # <<>> /\ proc.cur # 0 /\ MovesData
  BY GoesFields DEF Worked, Moves
<1>2. At("rmHost") \/ At("dropData")
  BY <1>1 DEF MovesData
<1>3. Deletes(proc.cur)
  BY <1>1, <1>2, NextIsNoDeletion
<1>4. host.workload = None
  BY <1>1, <1>2, <1>3, DeletionCalls
<1> QED BY <1>2, <1>3, <1>4

\* Without them nothing creates a workload.
LEMMA NothingCreated ==
  ASSUME Typed, PlanOK, HostOK, TraceOK, DeletionOK, NapCat, Worked, At("create") \/ At("workload")
  PROVE  host.data = "ours" /\ host'.data = "ours" /\ ~Deletes(proc.cur)
<1>1. proc.todo # <<>> /\ proc.cur # 0 /\ MovesData
  BY GoesFields DEF Worked, Moves
<1>2. ~Deletes(proc.cur)
  BY <1>1, DeletionCalls DEF At
<1>3. host.data = "ours"
  <2> SUFFICES ASSUME host.data # "ours" PROVE FALSE
    OBVIOUS
  <2>1. Prepared(proc.todo)
    BY <1>1, <1>2 DEF TraceOK
  <2>2. proc.todo \in Seq(CallNames)
    BY <1>1, NextCallIsOne
  <2>3. Guarded(proc.todo, "workload", "claim") /\ Guarded(proc.todo, "create", "dirs")
    BY <2>1 DEF Prepared
  <2>4. Head(proc.todo) # "workload"
    BY <1>1, <2>2, <2>3, GuardedTail
  <2>5. Head(proc.todo) # "create"
    BY <1>1, <2>2, <2>3, GuardedTail
  <2> QED BY <2>4, <2>5 DEF At
<1>4. ~At("dirs") /\ ~At("claim") /\ ~At("rmHost") /\ ~At("dropData")
  BY DEF At
<1>5. host'.data = host.data
  BY <1>1, <1>4 DEF MovesData
<1> QED BY <1>2, <1>3, <1>5

LEMMA PreparedTail ==
  ASSUME Typed, proc.todo # <<>>, Prepared(proc.todo), ~At("claim"), ~At("dirs")
  PROVE  Prepared(Tail(proc.todo))
<1>1. proc.todo \in Seq(CallNames)
  BY NextCallIsOne
<1>2. Guarded(proc.todo, "workload", "claim") /\ Guarded(proc.todo, "create", "dirs")
  BY DEF Prepared
<1>3. Head(proc.todo) # "claim" /\ Head(proc.todo) # "dirs"
  BY DEF At
<1>4. Guarded(Tail(proc.todo), "workload", "claim")
  BY <1>1, <1>2, <1>3, GuardedTail
<1>5. Guarded(Tail(proc.todo), "create", "dirs")
  BY <1>1, <1>2, <1>3, GuardedTail
<1> QED BY <1>4, <1>5 DEF Prepared

LEMMA TraceWorked ==
  ASSUME Typed, PlanOK, HostOK, TraceOK, DeletionOK, NapCat, Worked
  PROVE  TraceOK'
<1>1. /\ Goes /\ MovesData /\ MovesWorkload /\ MovesTrace /\ UNCHANGED <<setup, commands>>
      /\ proc.todo # <<>> /\ proc.cur # 0 /\ proc'.cur = proc.cur /\ proc'.todo = Tail(proc.todo)
      /\ acted' = IF host' = host THEN acted ELSE proc.cur
  BY GoesFields DEF Worked, Moves, Goes
<1>2. Deletes(proc.cur)' = Deletes(proc.cur) /\ Calls(proc.todo)' = Calls(Tail(proc.todo))
      /\ Prepared(proc.todo)' = Prepared(Tail(proc.todo))
  BY <1>1 DEF Deletes, Calls, Prepared, Guarded
<1>3. Head(proc.todo) \in Calls(proc.todo) /\ Calls(Tail(proc.todo)) \subseteq Calls(proc.todo)
  BY <1>1, NextCallIsOne
<1>4. host.data = "ours" /\ ~Deletes(proc.cur) => host'.data = "ours"
  BY DataStays
<1>5. (host.workload # None /\ ~Foreign => host.data = "ours")'
  <2> SUFFICES ASSUME host'.workload # None PROVE host'.data = "ours"
    OBVIOUS
  <2>1. CASE host.workload # None
    <3>1. host.data = "ours"
      BY <1>1, <2>1, DataBesideWorkload
    <3> QED BY <2>1, <3>1, DataStays
  <2>2. CASE host.workload = None
    <3>1. At("create") \/ At("workload")
      BY <1>1, <2>2 DEF MovesWorkload
    <3> QED BY <3>1, NothingCreated
  <2> QED BY <2>1, <2>2
<1>6. (acted > 0 /\ NoDeletion(acted) => host.data = "ours" \/ host.support)'
  <2>1. CASE host' = host
    <3>1. acted' = acted /\ (NoDeletion(acted)' <=> NoDeletion(acted))
      BY <1>1, <2>1, SameHistory
    <3> QED BY <2>1, <3>1 DEF TraceOK
  <2>2. CASE host' # host
    <3> SUFFICES ASSUME NoDeletion(acted)' PROVE host'.data = "ours" \/ host'.support
      OBVIOUS
    <3>1. NoDeletion(proc.cur)
      BY <1>1, <2>2 DEF NoDeletion, Deletes
    <3>2. ~Deletes(proc.cur)
      BY <1>1, <3>1, DeletionBefore
    <3>3. CASE host.workload # None
      BY <1>1, <1>4, <3>2, <3>3, DataBesideWorkload
    <3>4. CASE At("dropPod") \/ At("dropStuck")
      <4>1. Calls(proc.todo) \cap Chain # {}
        BY <1>3, <3>4 DEF At, Chain
      <4> QED BY <1>4, <3>2, <4>1 DEF TraceOK
    <3>5. CASE At("create") \/ At("workload")
      BY <3>5, NothingCreated
    <3>6. ~At("rmHost") /\ ~At("dropData") /\ ~At("dropSupport") /\ ~At("pull")
      BY <1>1, <3>2, NextIsNoDeletion
    <3> QED BY <1>1, <2>2, <3>3, <3>4, <3>5, <3>6 DEF MovesTrace
  <2> QED BY <2>1, <2>2
<1>7. Calls(Tail(proc.todo)) \cap Chain # {} => host'.data = "ours" /\ ~Deletes(proc.cur)
  BY <1>3, <1>4 DEF TraceOK
<1>8. ~Deletes(proc.cur) /\ host'.data # "ours" => Prepared(Tail(proc.todo))
  <2> SUFFICES ASSUME ~Deletes(proc.cur), host'.data # "ours" PROVE Prepared(Tail(proc.todo))
    OBVIOUS
  <2>1. Prepared(proc.todo)
    BY <1>1, <1>4 DEF TraceOK
  <2>2. ~At("claim") /\ ~At("dirs")
    BY <1>1 DEF MovesData
  <2> QED BY <1>1, <2>1, <2>2, PreparedTail
<1>9. (Calls(proc.todo) \cap Chain # {} => host.data = "ours" /\ ~Deletes(proc.cur))'
  BY <1>2, <1>7 DEF Chain
<1>10. (proc.cur # 0 /\ ~Deletes(proc.cur) /\ host.data # "ours" => Prepared(proc.todo))'
  BY <1>2, <1>8
<1> QED BY <1>5, <1>6, <1>9, <1>10 DEF TraceOK

\* The host and its history are as they were.
LEMMA TraceKept ==
  ASSUME Typed, TraceOK, UNCHANGED <<host, acted>>, \A g \in 1..Len(commands): commands'[g] = commands[g], NapCat,
         (Calls(proc.todo) \cap Chain # {} => host.data = "ours" /\ ~Deletes(proc.cur))',
         (proc.cur # 0 /\ ~Deletes(proc.cur) /\ host.data # "ours" => Prepared(proc.todo))'
  PROVE  TraceOK'
<1>1. NoDeletion(acted)' <=> NoDeletion(acted)
  BY SameHistory
<1>2. Foreign' = Foreign
  BY DEF Foreign
<1> QED BY <1>1, <1>2 DEF TraceOK

LEMMA TraceStep ==
  ASSUME Typed, PlanOK, HostOK, TraceOK, DeletionOK, Steps
  PROVE  TraceOK'
<1>0. setup' = setup
  BY IssueKeeps, AcceptCases DEF Steps, Worked, Goes, Marked, Became, Stored, Ended, Drifted
<1> SUFFICES ASSUME NapCat PROVE TraceOK'
  BY <1>0 DEF TraceOK, NapCat
<1>1. CASE \E c \in CommandInputs: Issue(c)
  <2>1. UNCHANGED <<proc, host, acted>> /\ \A g \in 1..Len(commands): commands'[g] = commands[g]
    BY <1>1, IssueKeeps
  <2>2. proc.cur # 0 => Deletes(proc.cur)' = Deletes(proc.cur)
    BY <2>1, SameCommand
  <2>3. Calls(proc.todo)' = Calls(proc.todo) /\ Prepared(proc.todo)' = Prepared(proc.todo)
    BY <2>1 DEF Calls, Prepared, Guarded
  <2>4. proc.cur = 0 => Calls(proc.todo) = {}
    BY EmptyPlan DEF Typed, TypeOK
  <2>5. (Calls(proc.todo) \cap Chain # {} => host.data = "ours" /\ ~Deletes(proc.cur))'
    BY <2>1, <2>2, <2>3, <2>4 DEF TraceOK, Chain
  <2>6. (proc.cur # 0 /\ ~Deletes(proc.cur) /\ host.data # "ours" => Prepared(proc.todo))'
    BY <2>1, <2>2, <2>3 DEF TraceOK
  <2> QED BY <2>1, <2>5, <2>6, TraceKept
<1>2. CASE \E g \in Generations: ~Deleted /\ Accept(g)
  <2>1. PICK g \in Generations: Accept(g)
    BY <1>2
  <2>2. /\ UNCHANGED <<setup, commands, host, acted>> /\ setup \in Setup /\ commands[g] \in Command
        /\ \/ proc'.cur = 0 /\ proc'.todo = <<>>
           \/ proc'.cur = g /\ proc'.todo = Plan(commands[g], Inspected)
    BY <2>1, AcceptCases
  <2>3. Calls(proc.todo)' = Calls(proc'.todo) /\ Prepared(proc.todo)' = Prepared(proc'.todo)
    BY DEF Calls, Prepared, Guarded
  <2>4. CASE proc'.cur = 0 /\ proc'.todo = <<>>
    <3>1. Calls(proc.todo)' = {}
      BY <2>3, <2>4, EmptyPlan
    <3> QED BY <2>2, <2>4, <3>1, TraceKept
  <2>5. CASE proc'.cur = g /\ proc'.todo = Plan(commands[g], Inspected)
    <3>1. /\ Calls(Plan(commands[g], Inspected)) \cap Chain = {}
          /\ ~Deletes(g) => Prepared(Plan(commands[g], Inspected))
      BY <2>2, NewPlan DEF Deletes
    <3>2. Deletes(proc.cur)' = Deletes(g)
      BY <2>2, <2>5 DEF Deletes
    <3>3. (Calls(proc.todo) \cap Chain)' = {}
      BY <2>3, <2>5, <3>1 DEF Chain
    <3>4. (proc.cur # 0 /\ ~Deletes(proc.cur) /\ host.data # "ours" => Prepared(proc.todo))'
      BY <2>3, <2>5, <3>1, <3>2
    <3> QED BY <2>2, <3>3, <3>4, TraceKept
  <2> QED BY <2>2, <2>4, <2>5
<1>3. CASE Worked
  BY <1>3, TraceWorked
<1>4. CASE Marked
  <2>1. /\ UNCHANGED <<setup, commands>> /\ At("mark") /\ proc.cur # 0 /\ proc'.cur = proc.cur
        /\ host.workload # None /\ host'.data = host.data /\ Kubernetes
    BY <1>4, MarkedFields DEF Marked
  <2>2. host'.data = "ours"
    BY <2>1, DataBesideWorkload
  <2>3. ~Deletes(proc.cur)
    BY <2>1, DeletionCalls DEF At
  <2>4. ~Deletes(proc.cur)'
    BY <2>1, <2>3 DEF Deletes
  <2> QED BY <2>2, <2>4 DEF TraceOK
<1>5. CASE Became
  <2>1. /\ UNCHANGED <<setup, commands, host, acted>> /\ proc.todo # <<>> /\ proc.cur # 0 /\ proc'.cur = proc.cur
        /\ At("awaitReplaced") \/ At("drop")
    BY <1>5, BecameFields DEF Became
  <2>2. Deletes(proc.cur)' = Deletes(proc.cur)
    BY <2>1 DEF Deletes
  <2>3. Head(proc.todo) \in Calls(proc.todo)
    BY <2>1, NextCallIsOne
  <2>4. CASE At("awaitReplaced")
    <3>1. Calls(proc.todo) \cap Chain # {}
      BY <2>3, <2>4 DEF At, Chain
    <3>2. host.data = "ours" /\ ~Deletes(proc.cur)
      BY <3>1 DEF TraceOK
    <3> QED BY <2>1, <2>2, <3>2, TraceKept
  <2>5. CASE At("drop")
    <3>1. Deletes(proc.cur)
      BY <2>1, <2>5, NextIsNoDeletion
    <3>2. Calls(proc.todo) \cap Chain = {}
      BY <3>1 DEF TraceOK
    <3>3. (Calls(proc.todo) \cap Chain)' = {}
      <4>1. Calls(proc.todo)' \cap Chain \subseteq Calls(proc.todo)
        BY <1>5, <2>5, BecamePlan
      <4> QED BY <3>2, <4>1 DEF Chain
    <3> QED BY <2>1, <2>2, <3>1, <3>3, TraceKept
  <2> QED BY <2>1, <2>4, <2>5
<1>6. CASE Stored
  <2>1. /\ UNCHANGED <<setup, commands, host, acted>> /\ proc.todo # <<>> /\ proc.cur # 0 /\ proc'.cur = proc.cur
        /\ proc'.todo = Tail(proc.todo) /\ ~At("claim") /\ ~At("dirs")
    BY <1>6, StoredFields DEF Stored, At
  <2>2. Deletes(proc.cur)' = Deletes(proc.cur) /\ Calls(proc.todo)' = Calls(Tail(proc.todo))
        /\ Prepared(proc.todo)' = Prepared(Tail(proc.todo))
    BY <2>1 DEF Deletes, Calls, Prepared, Guarded
  <2>3. Calls(Tail(proc.todo)) \subseteq Calls(proc.todo)
    BY <2>1, NextCallIsOne
  <2>4. (Calls(proc.todo) \cap Chain # {} => host.data = "ours" /\ ~Deletes(proc.cur))'
    BY <2>1, <2>2, <2>3 DEF TraceOK, Chain
  <2>5. (proc.cur # 0 /\ ~Deletes(proc.cur) /\ host.data # "ours" => Prepared(proc.todo))'
    BY <2>1, <2>2, PreparedTail DEF TraceOK
  <2> QED BY <2>1, <2>4, <2>5, TraceKept
<1>7. CASE Ended
  <2>1. UNCHANGED <<commands, host, acted>> /\ proc'.cur = 0 /\ proc'.todo = <<>>
    BY <1>7, EndedFields DEF Ended
  <2>2. Calls(proc.todo)' = {}
    BY <2>1, EmptyPlan DEF Calls
  <2> QED BY <2>1, <2>2, TraceKept
<1>8. CASE Drifted
  <2>1. /\ UNCHANGED <<commands, proc, acted>> /\ host'.data = host.data /\ host'.support = host.support
        /\ \/ host'.workload = host.workload
           \/ /\ host.workload # None /\ host'.workload # None
              /\ host'.workload.owner = host.workload.owner
    BY <1>8 DEF Drifted
  <2>2. /\ Deletes(proc.cur)' = Deletes(proc.cur) /\ (NoDeletion(acted)' <=> NoDeletion(acted))
        /\ Calls(proc.todo)' = Calls(proc.todo) /\ Prepared(proc.todo)' = Prepared(proc.todo)
    BY <2>1, SameHistory DEF Deletes, Calls, Prepared, Guarded
  <2>3. (host.workload # None /\ ~Foreign)' => host.workload # None /\ ~Foreign
    BY <2>1 DEF Foreign
  <2> QED BY <2>1, <2>2, <2>3 DEF TraceOK, Chain
<1> QED BY <1>1, <1>2, <1>3, <1>4, <1>5, <1>6, <1>7, <1>8 DEF Steps

-----------------------------------------------------------------------------
(* The invariant holds *)

LEMMA InitHost ==
  ASSUME Init
  PROVE  /\ Foreign => ~host.workload.on
         /\ ~Kubernetes => ~host.support /\ (host.data = "foreign" => Foreign)
         /\ host.pod # None => host.pod.id <= host.ids
         /\ host.workload # None /\ ~Foreign => host.data = "ours"
<1>1. CASE host = EmptyHost
  BY <1>1 DEF EmptyHost, Foreign
<1>2. CASE host \in Taken(setup)
  <2> DEFINE w == [owner |-> "foreign", spec |-> Small, id |-> 1, on |-> FALSE, marker |-> 0]
  <2>1. w # None /\ w.owner = "foreign" /\ ~w.on
    <3>1. w \in Workload
      BY SmallAndBig DEF Workload
    <3>2. ~w.on
      OBVIOUS
    <3> QED BY <3>1, <3>2, NoneAssumption
  <2>2. host = [EmptyHost EXCEPT !.workload = w, !.data = "foreign", !.ids = 1]
        \/ host = [EmptyHost EXCEPT !.data = IF setup.backend = "kubernetes" THEN "foreign" ELSE "none"]
    BY <1>2 DEF Taken
  <2> HIDE DEF w
  <2>3. CASE host = [EmptyHost EXCEPT !.workload = w, !.data = "foreign", !.ids = 1]
    BY <2>1, <2>3 DEF EmptyHost, Foreign
  <2>4. CASE host = [EmptyHost EXCEPT !.data = IF setup.backend = "kubernetes" THEN "foreign" ELSE "none"]
    BY <2>4 DEF EmptyHost, Foreign, Kubernetes
  <2> QED BY <2>2, <2>3, <2>4
<1>3. ASSUME NEW on \in BOOLEAN,
             \/ host = Provisioned(setup, on)
             \/ host = [Provisioned(setup, on) EXCEPT !.registry = "up"]
      PROVE  /\ host.workload # None /\ host.workload.owner = "ours" /\ host.data = "ours"
             /\ ~Kubernetes => ~host.support
             /\ host.pod # None => host.pod.id <= host.ids
  <2> DEFINE w == [owner |-> "ours", spec |-> Small, id |-> 1, on |-> on, marker |-> 0]
             p == IF setup.backend = "kubernetes" /\ on
                  THEN [id |-> 2, spec |-> Small, marker |-> 0, phase |-> "running"] ELSE None
             k == setup.backend = "kubernetes"
  <2>1. w # None /\ w.owner = "ours" /\ (p # None => p.id = 2) /\ (~Kubernetes => ~k)
    <3>1. w \in Workload
      BY SmallAndBig DEF Workload
    <3>2. p # None => p.id = 2
      OBVIOUS
    <3>3. ~Kubernetes => ~k
      BY DEF Kubernetes
    <3> QED BY <3>1, <3>2, <3>3, NoneAssumption
  <2>2. Provisioned(setup, on) = [EmptyHost EXCEPT !.workload = w, !.pod = p, !.data = "ours", !.support = k,
                                                   !.ids = 2, !.registry = "local"]
    BY DEF Provisioned
  <2> HIDE DEF w, p, k
  <2>3. Provisioned(setup, on) = [workload |-> w, pod |-> p, data |-> "ours", support |-> k,
                                  registry |-> "local", exited |-> FALSE, ids |-> 2]
    BY <2>2 DEF EmptyHost
  <2>4. \/ host = [workload |-> w, pod |-> p, data |-> "ours", support |-> k,
                   registry |-> "local", exited |-> FALSE, ids |-> 2]
        \/ host = [workload |-> w, pod |-> p, data |-> "ours", support |-> k,
                   registry |-> "up", exited |-> FALSE, ids |-> 2]
    BY <1>3, <2>3
  <2> QED BY <2>1, <2>4
<1>4. \/ host = EmptyHost \/ host \in Taken(setup)
      \/ \E on \in BOOLEAN: host = Provisioned(setup, on)
      \/ host = [Provisioned(setup, TRUE) EXCEPT !.registry = "up"]
  BY DEF Init
<1> QED BY <1>1, <1>2, <1>3, <1>4 DEF Foreign

LEMMA InitInvariant ==
  ASSUME Init
  PROVE  IInv
<1>1. /\ Typed /\ proc.cur = 0 /\ proc.todo = <<>> /\ proc.memory = None /\ saved = 0 /\ acted = 0
      /\ Len(commands) = 0
  BY InitTyped
<1>2. Calls(proc.todo) = {} /\ Closes(proc.todo) /\ Precedes(proc.todo, Chain, "mark")
  BY <1>1, EmptyPlan
<1>3. PlanOK /\ PodOK /\ ImageOK /\ DeletionOK
  BY <1>1, <1>2 DEF PlanOK, PodOK, ImageOK, DeletionOK
<1>4. HostOK
  BY <1>1, InitHost DEF HostOK
<1>5. GoneOK
  BY <1>1 DEF GoneOK, Deleted
<1>6. FenceOK
  BY <1>1 DEF FenceOK
<1>7. TraceOK
  BY <1>1, <1>2, InitHost DEF TraceOK
<1> QED BY <1>1, <1>3, <1>4, <1>5, <1>6, <1>7 DEF IInv

LEMMA NextSteps ==
  ASSUME Typed, PlanOK, Next
  PROVE  Steps
BY StepKinds DEF Steps

LEMMA TypedStep ==
  ASSUME Typed, PlanOK, Steps
  PROVE  Typed' /\ PlanOK'
<1>1. CASE \E c \in CommandInputs: Issue(c)
  BY <1>1, TypedIssue, PlanIssue
<1>2. CASE \E g \in Generations: ~Deleted /\ Accept(g)
  BY <1>2, TypedAccept, PlanAccept
<1>3. CASE Worked
  BY <1>3, TypedWorked, PlanWorked
<1>4. CASE Marked
  BY <1>4, TypedMarked, MarkedPlan
<1>5. CASE Became
  BY <1>5, TypedBecame, BecamePlan
<1>6. CASE Stored
  BY <1>6, TypedStored, PlanStored
<1>7. CASE Ended
  BY <1>7, TypedEnded, PlanEnded
<1>8. CASE Drifted
  BY <1>8, TypedDrifted, PlanDrifted
<1> QED BY <1>1, <1>2, <1>3, <1>4, <1>5, <1>6, <1>7, <1>8 DEF Steps

LEMMA Invariant ==
  Spec => []IInv
<1>1. Init => IInv
  BY InitInvariant
<1>2. IInv /\ [Next]_vars => IInv'
  <2> SUFFICES ASSUME IInv, [Next]_vars PROVE IInv'
    OBVIOUS
  <2>1. CASE Next
    <3>1. Typed /\ PlanOK /\ HostOK /\ PodOK /\ ImageOK /\ DeletionOK /\ GoneOK /\ FenceOK /\ TraceOK
      BY DEF IInv
    <3>2. Steps
      BY <2>1, <3>1, NextSteps
    <3>3. Typed' /\ PlanOK'
      BY <3>1, <3>2, TypedStep
    <3>4. HostOK'
      BY <3>1, <3>2, HostStep
    <3>5. PodOK'
      BY <3>1, <3>2, PodStep
    <3>6. ImageOK'
      BY <3>1, <3>2, ImageStep
    <3>7. DeletionOK'
      BY <3>1, <3>2, DeletionStep
    <3>8. GoneOK'
      BY <3>1, <3>2, GoneStep
    <3>9. FenceOK'
      BY <3>1, <3>2, FenceStep
    <3>10. TraceOK'
      BY <3>1, <3>2, TraceStep
    <3> QED BY <3>3, <3>4, <3>5, <3>6, <3>7, <3>8, <3>9, <3>10 DEF IInv
  <2>2. CASE UNCHANGED vars
    <3>1. UNCHANGED <<setup, commands, outcome, proc, saved, host, acted, faults>>
      BY <2>2 DEF vars
    <3>2. Typed'
      BY <3>1 DEF IInv, Typed, TypeOK, ProcessType
    <3>3. PlanOK'
      BY <3>1 DEF IInv, PlanOK, NapCat, Deletes, Closes, Calls, Precedes, Chain, Deleting, NotNapCat
    <3>4. HostOK' /\ PodOK' /\ ImageOK'
      BY <3>1 DEF IInv, HostOK, PodOK, ImageOK, Foreign, Kubernetes, NapCat, Calls, At, Deletes
    <3>5. DeletionOK'
      BY <3>1 DEF IInv, DeletionOK, Kubernetes, NapCat, Deletes
    <3>6. GoneOK'
      BY <3>1 DEF IInv, GoneOK, Deleted, DeletedMeansGone, Kubernetes
    <3>7. FenceOK'
      BY <3>1 DEF IInv, FenceOK, NapCat, Deletes, At, NoDeletion
    <3>8. TraceOK'
      BY <3>1 DEF IInv, TraceOK, NapCat, Deletes, Foreign, NoDeletion, Calls, Chain, Prepared, Guarded
    <3> QED BY <3>2, <3>3, <3>4, <3>5, <3>6, <3>7, <3>8 DEF IInv
  <2> QED BY <2>1, <2>2
<1> QED BY <1>1, <1>2, PTL DEF Spec

\* TypeOK: the agent, the plan and the host keep their types, and a command is in
\* hand exactly while calls of its plan are left (RuntimeState).
THEOREM TypeCorrect == Spec => []TypeOK
<1>1. IInv => TypeOK
  BY DEF IInv, Typed
<1> QED BY <1>1, Invariant, PTL

\* DeletedMeansGone: a deletion that NapCat, or any provider on Docker, reports as
\* done leaves neither workload nor data, supporting objects nor saved command
\* behind, whatever faults and replays came before.
THEOREM DeletionsLeaveNothing == Spec => []DeletedMeansGone
<1>1. IInv => DeletedMeansGone
  BY DEF IInv, GoneOK, DeletedMeansGone
<1> QED BY <1>1, Invariant, PTL

\* DataKept: only a command to delete the endpoint gives its login state up, and
\* what belongs to another endpoint stays as it is.
THEOREM DataIsKept == Spec => DataKept
<1>1. ASSUME IInv, [Next]_vars
      PROVE  [/\ host.data = "ours" /\ host'.data = "none" => Cmd.action = "delete"
              /\ host.data = "foreign" => host'.data = "foreign"
              /\ (host.workload # None /\ host.workload.owner = "foreign") => host'.workload = host.workload]_vars
  <2>1. Typed /\ PlanOK /\ HostOK
    BY <1>1 DEF IInv
  <2>2. CASE UNCHANGED vars
    BY <2>2
  <2>3. CASE Next
    <3>1. Steps
      BY <2>1, <2>3, NextSteps
    <3>2. CASE Worked
      <4>1. proc.todo # <<>> /\ proc.cur # 0 /\ MovesData
        BY <2>1, <3>2, GoesFields DEF Worked, Moves
      <4>2. ASSUME host.data = "ours", host'.data = "none" PROVE Cmd.action = "delete"
        <5>1. At("rmHost") \/ At("dropData")
          BY <4>1, <4>2 DEF MovesData
        <5>2. Deletes(proc.cur)
          BY <2>1, <4>1, <5>1, NextIsNoDeletion
        <5> QED BY <5>2 DEF Deletes, Cmd
      <4>3. ASSUME host.data = "foreign" PROVE host'.data = "foreign"
        BY <2>1, <4>1, <4>3 DEF MovesData, HostOK
      <4> QED BY <2>1, <4>1, <4>2, <4>3 DEF HostOK, Foreign
    <3>3. CASE Marked
      <4>1. proc.cur # 0 /\ host'.data = host.data
        BY <2>1, <3>3, MarkedFields DEF Marked
      <4> QED BY <2>1, <4>1 DEF HostOK, Foreign
    <3>4. CASE Drifted
      <4>1. /\ host'.data = host.data
            /\ host'.workload = host.workload \/ host.workload.on
        BY <3>4 DEF Drifted
      <4> QED BY <2>1, <4>1 DEF HostOK, Foreign
    <3>5. CASE host' = host
      BY <3>5
    <3>6. Became \/ Stored \/ Ended \/ (\E c \in CommandInputs: Issue(c))
          \/ (\E g \in Generations: ~Deleted /\ Accept(g)) => host' = host
      BY DEF Became, Stored, Ended, Issue, Accept
    <3> QED BY <3>1, <3>2, <3>3, <3>4, <3>5, <3>6 DEF Steps
  <2> QED BY <1>1, <2>2, <2>3
<1> QED BY <1>1, Invariant, PTL DEF Spec, DataKept

\* FencedEffects: once a newer command of NapCat had an effect, an older one that
\* turns up again has none; only a deletion drops the fence.
THEOREM OldCommandsAreFenced == Spec => FencedEffects
<1>1. ASSUME IInv, [Next]_vars
      PROVE  [setup.provider = "napcat" /\ acted' < acted
                => \E g \in 1..acted: commands[g].action = "delete"]_vars
  <2>1. Typed /\ PlanOK /\ FenceOK
    BY <1>1 DEF IInv
  <2>2. CASE UNCHANGED vars
    BY <2>2
  <2>3. CASE Next
    <3> SUFFICES ASSUME setup.provider = "napcat", acted' < acted, NoDeletion(acted) PROVE FALSE
      BY DEF NoDeletion, Deletes
    <3>1. Steps
      BY <2>1, <2>3, NextSteps
    <3>2. acted \in Nat /\ proc.cur \in Nat /\ saved \in Nat
      BY <2>1, Bounds
    <3>3. proc.cur # 0 => acted <= proc.cur
      BY <2>1 DEF FenceOK, NapCat
    <3>4. CASE Worked \/ Marked
      <4>1. proc.cur # 0 /\ acted' \in {acted, proc.cur}
        BY <2>1, <3>4, GoesFields, MarkedFields DEF Worked, Goes, Marked
      <4> QED BY <3>2, <3>3, <4>1
    <3>5. Became \/ Stored \/ Ended \/ Drifted \/ (\E c \in CommandInputs: Issue(c))
          \/ (\E g \in Generations: ~Deleted /\ Accept(g)) => acted' = acted
      BY DEF Became, Stored, Ended, Drifted, Issue, Accept
    <3> QED BY <3>1, <3>2, <3>4, <3>5 DEF Steps
  <2> QED BY <1>1, <2>2, <2>3
<1> QED BY <1>1, Invariant, PTL DEF Spec, FencedEffects

\* ReplayKeepsReplacement: a replay of a NapCat restart keeps the pod that its
\* first attempt brought up.
THEOREM ReplaysKeepReplacement == Spec => ReplayKeepsReplacement
<1>1. ASSUME IInv, [Next]_vars
      PROVE  [/\ setup.provider = "napcat" /\ IsRunning
              /\ proc.cur # 0 /\ host.pod.marker = proc.cur /\ ~At("dropStuck")
              => PodRuns(host'.pod)]_vars
  <2>1. Typed /\ PlanOK /\ PodOK
    BY <1>1 DEF IInv
  <2>2. CASE UNCHANGED vars
    BY <2>2 DEF vars, IsRunning, CurrentPod
  <2>3. CASE Next
    <3> SUFFICES ASSUME setup.provider = "napcat", IsRunning, proc.cur # 0, host.pod.marker = proc.cur,
                        ~At("dropStuck")
                 PROVE  host'.pod = host.pod
      BY DEF IsRunning, CurrentPod, PodRuns
    <3>1. Steps
      BY <2>1, <2>3, NextSteps
    <3>2. CASE Worked
      <4>1. proc.todo # <<>> /\ MovesPod
        BY <2>1, <3>2, GoesFields DEF Worked, Moves
      <4>2. At("dropPod") => "dropPod" \in Calls(proc.todo)
        BY <2>1, <4>1, NextCallIsOne DEF At
      <4> QED BY <2>1, <4>1, <4>2 DEF MovesPod, PodOK, NapCat
    <3>3. CASE Marked
      BY <3>3 DEF Marked
    <3>4. CASE Drifted
      BY <3>4 DEF Drifted
    <3>5. Became \/ Stored \/ Ended \/ (\E c \in CommandInputs: Issue(c))
          \/ (\E g \in Generations: ~Deleted /\ Accept(g)) => host' = host
      BY DEF Became, Stored, Ended, Issue, Accept
    <3> QED BY <3>1, <3>2, <3>3, <3>4, <3>5 DEF Steps
  <2> QED BY <1>1, <2>2, <2>3
<1> QED BY <1>1, Invariant, PTL DEF Spec, ReplayKeepsReplacement

\* OutageKeepsRuntime: SnowLuma gives a container up for a replacement only once
\* the image of the replacement is on the node.
THEOREM OutagesKeepRuntime == Spec => OutageKeepsRuntime
<1>1. ASSUME IInv, [Next]_vars
      PROVE  [setup.provider = "snowluma" /\ ~Kubernetes
              /\ host.workload # None /\ host'.workload = None
              => Cmd.action = "delete" \/ host.registry = "local"]_vars
  <2>1. Typed /\ PlanOK /\ ImageOK
    BY <1>1 DEF IInv
  <2>2. CASE UNCHANGED vars
    BY <2>2
  <2>3. CASE Next
    <3> SUFFICES ASSUME setup.provider = "snowluma", ~Kubernetes, host.workload # None, host'.workload = None
                 PROVE  Cmd.action = "delete" \/ host.registry = "local"
      OBVIOUS
    <3>1. Steps
      BY <2>1, <2>3, NextSteps
    <3>2. CASE Worked
      <4>1. proc.todo # <<>> /\ proc.cur # 0 /\ MovesWorkload
        BY <2>1, <3>2, GoesFields DEF Worked, Moves
      <4>2. At("rm")
        BY <4>1 DEF MovesWorkload
      <4>3. "rm" \in Calls(proc.todo) /\ ~At("pull")
        BY <2>1, <4>1, <4>2, NextCallIsOne DEF At
      <4> QED BY <2>1, <4>1, <4>3 DEF ImageOK, Deletes, Cmd
    <3>3. CASE Marked
      BY <3>3 DEF Marked
    <3>4. CASE Drifted
      BY <3>4 DEF Drifted
    <3>5. Became \/ Stored \/ Ended \/ (\E c \in CommandInputs: Issue(c))
          \/ (\E g \in Generations: ~Deleted /\ Accept(g)) => host' = host
      BY DEF Became, Stored, Ended, Issue, Accept
    <3> QED BY <3>1, <3>2, <3>3, <3>4, <3>5 DEF Steps
  <2> QED BY <1>1, <2>2, <2>3
<1> QED BY <1>1, Invariant, PTL DEF Spec, OutageKeepsRuntime
=============================================================================
