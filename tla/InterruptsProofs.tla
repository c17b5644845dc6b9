--------------------------- MODULE InterruptsProofs ---------------------------
(***************************************************************************)
(* Proofs about Interrupts, for any jobs, tasks and threads and any of the *)
(* asynchronous classes, which interrupt any step of any handler.  What    *)
(* holds depends on what they have overwritten so far (harmed).            *)
(***************************************************************************)
EXTENDS Interrupts, FiniteSetTheorems, SequenceFacts

----------------------------------------------------------------------------
(* The definition of Under is recursive: it stands for some function that  *)
(* satisfies the recursion, so one must be shown to exist.                 *)

N == Cardinality(Classes)

UnderIs(p, o, m, u) ==
  u = [n \in 0 .. m |-> IF n = 0 THEN p
                        ELSE IF u[n - 1].class = "thread" THEN u[n - 1]
                        ELSE o[u[n - 1].class]]

UnderOf(p, o) == CHOOSE u : UnderIs(p, o, N, u)

\* What the definition of Under stands for, before a step.
LEMMA UnderMeans == Under = UnderOf(psw, oldPsw)
  BY DEF Under, UnderOf, UnderIs, N

\* The same after a step.
LEMMA UnderMeansAfter == Under' = UnderOf(psw', oldPsw')
  BY DEF Under, UnderOf, UnderIs, N

\* There are at most five classes of interruption, and a thread is none of them.
LEMMA FewClasses ==
  IsFiniteSet(Classes) /\ N \in Nat /\ "thread" \notin Classes /\ {"svc", "pc"} \subseteq Classes
<1>1. IsFiniteSet({"ext", "mc", "io"})
  <2>1. IsFiniteSet({})
    BY FS_EmptySet
  <2>2. IsFiniteSet({} \cup {"ext"})
    BY <2>1, FS_AddElement
  <2>3. IsFiniteSet(({} \cup {"ext"}) \cup {"mc"})
    BY <2>2, FS_AddElement
  <2>4. IsFiniteSet((({} \cup {"ext"}) \cup {"mc"}) \cup {"io"})
    BY <2>3, FS_AddElement
  <2>5. (({} \cup {"ext"}) \cup {"mc"}) \cup {"io"} = {"ext", "mc", "io"}
    OBVIOUS
  <2>6. QED
    BY <2>4, <2>5
<1>2. IsFiniteSet(Asynchronous)
  BY <1>1, FS_Subset, InterruptsAssumption
<1>3. IsFiniteSet((Asynchronous \cup {"svc"}) \cup {"pc"})
  <2>1. IsFiniteSet(Asynchronous \cup {"svc"})
    BY <1>2, FS_AddElement
  <2>2. QED
    BY <2>1, FS_AddElement
<1>4. Classes = (Asynchronous \cup {"svc"}) \cup {"pc"}
  BY DEF Classes
<1>5. IsFiniteSet(Classes)
  BY <1>3, <1>4
<1>6. QED
  BY <1>5, FS_CardinalityType, InterruptsAssumption DEF Classes, N

\* Some function follows the old PSWs down from the processor's.
LEMMA UnderExists ==
  ASSUME NEW p, NEW o, NEW n \in Nat
  PROVE  \E u : UnderIs(p, o, n, u)
<1> DEFINE T == {m \in Nat : ~\E u : UnderIs(p, o, m, u)}
<1> SUFFICES ASSUME T # {} PROVE FALSE
  OBVIOUS
<1>1. PICK m \in T : \A k \in T : m <= k
  BY LeastExists
<1>2. m \in Nat /\ ~\E u : UnderIs(p, o, m, u)
  OBVIOUS
<1>3. CASE m = 0
  <2> DEFINE u == [i \in 0 .. 0 |-> p]
  <2>1. UnderIs(p, o, 0, u)
    BY DEF UnderIs
  <2>2. QED
    BY <1>2, <1>3, <2>1
<1>4. CASE m # 0
  <2>1. m - 1 \in Nat /\ m - 1 \notin T
    BY <1>1, <1>2, <1>4
  <2>2. PICK v : UnderIs(p, o, m - 1, v)
    BY <2>1
  <2> DEFINE x == IF v[m - 1].class = "thread" THEN v[m - 1] ELSE o[v[m - 1].class]
             u == [i \in 0 .. m |-> IF i = m THEN x ELSE v[i]]
             w == [i \in 0 .. m |-> IF i = 0 THEN p
                                    ELSE IF u[i - 1].class = "thread" THEN u[i - 1]
                                    ELSE o[u[i - 1].class]]
  <2>3. ASSUME NEW i \in 0 .. m PROVE u[i] = w[i]
    <3>1. CASE i = m
      <4>1. i # 0 /\ i - 1 = m - 1 /\ i - 1 \in 0 .. m /\ i - 1 # m
        BY <1>2, <1>4, <3>1
      <4>2. u[i - 1] = v[m - 1] /\ u[i] = x
        BY <3>1, <4>1
      <4>3. w[i] = IF u[i - 1].class = "thread" THEN u[i - 1] ELSE o[u[i - 1].class]
        BY <4>1
      <4>4. QED
        BY <4>2, <4>3
    <3>2. CASE i # m
      <4>1. i \in 0 .. m - 1
        BY <1>2, <3>2
      <4>2. v[i] = IF i = 0 THEN p ELSE IF v[i - 1].class = "thread" THEN v[i - 1]
                   ELSE o[v[i - 1].class]
        BY <2>2, <4>1 DEF UnderIs
      <4>3. i # 0 => i - 1 \in 0 .. m /\ i - 1 # m
        BY <1>2, <4>1
      <4>4. i # 0 => u[i - 1] = v[i - 1]
        BY <4>3
      <4>5. u[i] = v[i]
        BY <3>2
      <4>6. w[i] = IF i = 0 THEN p ELSE IF u[i - 1].class = "thread" THEN u[i - 1]
                   ELSE o[u[i - 1].class]
        OBVIOUS
      <4>7. QED
        BY <4>2, <4>4, <4>5, <4>6
    <3>3. QED
      BY <3>1, <3>2
  <2>4. u = w
    <3>1. u = [i \in 0 .. m |-> u[i]]
      <4> HIDE DEF x
      <4>1. QED
        OBVIOUS
    <3> HIDE DEF u
    <3>2. w = [i \in 0 .. m |-> w[i]]
      OBVIOUS
    <3> HIDE DEF w
    <3>3. [i \in 0 .. m |-> u[i]] = [i \in 0 .. m |-> w[i]]
      BY <2>3
    <3>4. QED
      BY <3>1, <3>2, <3>3, Zenon
  <2>5. UnderIs(p, o, m, u)
    BY <2>4 DEF UnderIs
  <2>6. QED
    BY <1>2, <2>5
<1>5. QED
  BY <1>3, <1>4

\* What runs comes first, then what it interrupted, down to a thread, which stays.
LEMMA UnderUnfolds ==
  ASSUME NEW p, NEW o
  PROVE  LET u == UnderOf(p, o) IN
         /\ DOMAIN u = 0 .. N /\ u[0] = p
         /\ \A n \in 1 .. N : u[n] = IF u[n - 1].class = "thread" THEN u[n - 1]
                                     ELSE o[u[n - 1].class]
<1> DEFINE u == UnderOf(p, o)
<1>1. UnderIs(p, o, N, u)
  BY UnderExists, FewClasses DEF UnderOf
<1> HIDE DEF u
<1>2. \A n \in 1 .. N : n \in 0 .. N /\ n # 0
  BY FewClasses
<1>3. 0 \in 0 .. N
  BY FewClasses
<1>4. QED
  BY <1>1, <1>2, <1>3 DEF UnderIs, u

----------------------------------------------------------------------------
(* A chain s of k handlers in progress above a thread, for a PSW p and old *)
(* PSWs o: classes occur once, supervisor calls and program checks come    *)
(* from the thread, and what was interrupted was at none of the steps      *)
(* called busy.                                                            *)

Chain(p, o, k, s, busy) ==
  /\ s[0] = p
  /\ s[k].class = "thread" /\ s[k].at = "run"
  /\ \A n \in 0 .. k - 1 : s[n].class \in Classes /\ s[n + 1] = o[s[n].class]
  /\ \A m, n \in 0 .. k - 1 : s[m].class = s[n].class => m = n
  /\ \A n \in 1 .. k - 1 : s[n].at \notin busy
  /\ \A n \in 0 .. k - 1 : s[n].class \in {"svc", "pc"} => n = k - 1

Nested(p, o, b, busy) == \E k \in Nat : \E s : Chain(p, o, k, s, busy) /\ s[k] = b

\* Under is the chain, so its last element is the thread's PSW.
LEMMA ChainIsUnder ==
  ASSUME NEW p, NEW o, NEW busy, NEW k \in Nat, NEW s, Chain(p, o, k, s, busy)
  PROVE  /\ k <= N /\ UnderOf(p, o)[N] = s[k]
         /\ \A n \in 0 .. k : UnderOf(p, o)[n] = s[n]
<1> DEFINE u == UnderOf(p, o)
           f == [n \in 1 .. k |-> s[n - 1].class]
           T == {n \in Nat : n <= N /\ u[n] # (IF n < k THEN s[n] ELSE s[k])}
<1>1. k <= N
  <2>1. f \in [1 .. k -> Classes]
    <3>1. \A n \in 1 .. k : n - 1 \in 0 .. k - 1
      OBVIOUS
    <3>2. \A n \in 1 .. k : s[n - 1].class \in Classes
      BY <3>1 DEF Chain
    <3>3. QED
      BY <3>2
  <2>2. \A m, n \in 1 .. k : f[m] = f[n] => m = n
    <3> SUFFICES ASSUME NEW m \in 1 .. k, NEW n \in 1 .. k, f[m] = f[n] PROVE m = n
      OBVIOUS
    <3>1. m - 1 \in 0 .. k - 1 /\ n - 1 \in 0 .. k - 1
      OBVIOUS
    <3>2. m - 1 = n - 1
      BY <3>1 DEF Chain
    <3>3. QED
      BY <3>2
  <2>3. f \in Injection(1 .. k, Classes)
    BY <2>1, <2>2 DEF Injection, IsInjective
  <2> HIDE DEF f
  <2>4. Cardinality(1 .. k) <= N
    BY <2>3, FewClasses, FS_Injection DEF N
  <2>5. Cardinality(1 .. k) = k
    <3>1. Cardinality(1 .. k) = IF 1 > k THEN 0 ELSE k - 1 + 1
      BY FS_Interval
    <3>2. QED
      BY <3>1
  <2>6. QED
    BY <2>4, <2>5
<1>2. /\ N \in Nat /\ u[0] = p
      /\ \A n \in 1 .. N : u[n] = IF u[n - 1].class = "thread" THEN u[n - 1]
                                  ELSE o[u[n - 1].class]
  BY UnderUnfolds, FewClasses
<1> HIDE DEF u
<1>3. T = {}
  <2> SUFFICES ASSUME T # {} PROVE FALSE
    OBVIOUS
  <2>1. PICK n \in T : \A j \in T : n <= j
    BY LeastExists
  <2>2. n \in Nat /\ n <= N /\ u[n] # (IF n < k THEN s[n] ELSE s[k])
    OBVIOUS
  <2>3. n # 0
    BY <1>2, <2>2 DEF Chain
  <2>4. n - 1 \in Nat /\ n - 1 \notin T /\ n - 1 <= N /\ n \in 1 .. N
    BY <1>2, <2>1, <2>2, <2>3
  <2>5. u[n - 1] = IF n - 1 < k THEN s[n - 1] ELSE s[k]
    BY <2>4
  <2>6. u[n] = IF u[n - 1].class = "thread" THEN u[n - 1] ELSE o[u[n - 1].class]
    BY <1>2, <2>4
  <2>7. CASE n - 1 < k
    <3>1. n - 1 \in 0 .. k - 1 /\ (n - 1) + 1 = n /\ n <= k
      BY <2>2, <2>4, <2>7
    <3>2. s[n - 1].class \in Classes /\ s[n] = o[s[n - 1].class]
      BY <3>1 DEF Chain
    <3>3. u[n] = s[n]
      BY <2>5, <2>6, <2>7, <3>2, FewClasses
    <3>4. n < k \/ n = k
      BY <3>1
    <3>5. QED
      BY <2>2, <3>3, <3>4
  <2>8. CASE ~(n - 1 < k)
    <3>1. u[n - 1] = s[k] /\ s[k].class = "thread" /\ ~(n < k)
      BY <2>2, <2>5, <2>8 DEF Chain
    <3>2. QED
      BY <2>2, <2>6, <3>1
  <2>9. QED
    BY <2>7, <2>8
<1>4. \A n \in 0 .. N : u[n] = IF n < k THEN s[n] ELSE s[k]
  BY <1>2, <1>3
<1>5. u[N] = s[k]
  <2>1. N \in 0 .. N /\ (N < k \/ N = k \/ N > k) /\ ~(N < k)
    BY <1>1, <1>2
  <2>2. QED
    BY <1>4, <2>1
<1>6. \A n \in 0 .. k : u[n] = s[n]
  <2> TAKE n \in 0 .. k
  <2>1. n \in 0 .. N /\ (n < k \/ n = k)
    BY <1>1, <1>2
  <2>2. QED
    BY <1>4, <2>1
<1>7. QED
  BY <1>1, <1>5, <1>6 DEF u

\* Under follows handlers that nest down to the thread below them.
LEMMA NestedBottom ==
  ASSUME NEW p, NEW o, NEW busy, NEW b, Nested(p, o, b, busy)
  PROVE  UnderOf(p, o)[N] = b /\ b.class = "thread" /\ b.at = "run"
<1>1. PICK k \in Nat : \E s : Chain(p, o, k, s, busy) /\ s[k] = b
  BY DEF Nested
<1>2. PICK s : Chain(p, o, k, s, busy) /\ s[k] = b
  BY <1>1
<1>3. UnderOf(p, o)[N] = s[k]
  BY <1>2, ChainIsUnder
<1>4. s[k].class = "thread" /\ s[k].at = "run"
  BY <1>2 DEF Chain
<1>5. QED
  BY <1>2, <1>3, <1>4

\* Outside of all handlers the thread itself runs.
LEMMA NestedThread ==
  ASSUME NEW p, NEW o, NEW busy, NEW b, Nested(p, o, b, busy), p.class = "thread"
  PROVE  b = p
<1>1. PICK k \in Nat : \E s : Chain(p, o, k, s, busy) /\ s[k] = b
  BY DEF Nested
<1>2. PICK s : Chain(p, o, k, s, busy) /\ s[k] = b
  BY <1>1
<1>3. k # 0 => 0 \in 0 .. k - 1
  OBVIOUS
<1>4. k = 0
  BY <1>2, <1>3, FewClasses DEF Chain
<1>5. QED
  BY <1>2, <1>4 DEF Chain

\* An interruption by a class that is not active adds one handler.
LEMMA NestedPush ==
  ASSUME NEW p, NEW o, NEW busy, DOMAIN o = Classes, NEW b, Nested(p, o, b, busy), NEW class \in Classes,
         \A n \in 0 .. N : UnderOf(p, o)[n].class # class,
         p.class = "thread" \/ (p.at \notin busy /\ class \notin {"svc", "pc"}),
         NEW q, q.class = class
  PROVE  Nested(q, [o EXCEPT ![class] = p], b, busy)
<1>1. PICK k \in Nat : \E s : Chain(p, o, k, s, busy) /\ s[k] = b
  BY DEF Nested
<1>2. PICK s : Chain(p, o, k, s, busy) /\ s[k] = b
  BY <1>1
<1> DEFINE o2 == [o EXCEPT ![class] = p]
           s2 == [n \in 0 .. k + 1 |-> IF n = 0 THEN q ELSE s[n - 1]]
<1>3. /\ s[0] = p /\ s[k].class = "thread" /\ s[k].at = "run"
      /\ \A n \in 0 .. k - 1 : s[n].class \in Classes /\ s[n + 1] = o[s[n].class]
      /\ \A m, n \in 0 .. k - 1 : s[m].class = s[n].class => m = n
      /\ \A n \in 1 .. k - 1 : s[n].at \notin busy
      /\ \A n \in 0 .. k - 1 : s[n].class \in {"svc", "pc"} => n = k - 1
  BY <1>2 DEF Chain
<1>4. \A n \in 0 .. k - 1 : s[n].class # class
  <2> TAKE n \in 0 .. k - 1
  <2>1. n \in 0 .. k /\ n \in 0 .. N /\ UnderOf(p, o)[n] = s[n]
    <3>1. k <= N /\ N \in Nat /\ \A i \in 0 .. k : UnderOf(p, o)[i] = s[i]
      BY <1>2, ChainIsUnder, FewClasses
    <3>2. n \in 0 .. k /\ n \in 0 .. N
      BY <3>1
    <3>3. QED
      BY <3>1, <3>2
  <2>2. QED
    BY <2>1
<1>5. \A c \in Classes : c # class => o2[c] = o[c]
  OBVIOUS
<1>6. o2[class] = p
  OBVIOUS
<1> HIDE DEF o2
<1>7. /\ s2[0] = q /\ s2[k + 1] = s[k]
      /\ \A n \in 1 .. k : s2[n] = s[n - 1] /\ n - 1 \in 0 .. k - 1
  OBVIOUS
<1> HIDE DEF s2
<1>8. Chain(q, o2, k + 1, s2, busy)
  <2>1. \A n \in 0 .. k : s2[n].class \in Classes /\ s2[n + 1] = o2[s2[n].class]
    <3> TAKE n \in 0 .. k
    <3>1. CASE n = 0
      <4>1. s2[0 + 1] = s[0]
        <5>1. CASE k = 0
          BY <1>7, <5>1
        <5>2. CASE k # 0
          <6>1. 1 \in 1 .. k /\ 1 - 1 = 0
            BY <5>2
          <6>2. QED
            BY <1>7, <6>1
        <5>3. QED
          BY <5>1, <5>2
      <4>2. QED
        BY <1>3, <1>6, <1>7, <3>1, <4>1
    <3>2. CASE n # 0
      <4>1. n \in 1 .. k /\ (n - 1) + 1 = n /\ n - 1 \in 0 .. k - 1
        BY <3>2
      <4>2. s2[n] = s[n - 1] /\ s[n - 1].class \in Classes /\ s[n] = o[s[n - 1].class]
            /\ s[n - 1].class # class
        BY <1>3, <1>4, <1>7, <4>1
      <4>3. s2[n + 1] = s[n]
        <5>1. CASE n = k
          BY <1>7, <5>1
        <5>2. CASE n # k
          <6>1. n + 1 \in 1 .. k /\ (n + 1) - 1 = n
            BY <4>1, <5>2
          <6>2. QED
            BY <1>7, <6>1
        <5>3. QED
          BY <5>1, <5>2
      <4>4. QED
        BY <1>5, <4>2, <4>3
    <3>3. QED
      BY <3>1, <3>2
  <2>2. \A m, n \in 0 .. k : s2[m].class = s2[n].class => m = n
    <3> SUFFICES ASSUME NEW m \in 0 .. k, NEW n \in 0 .. k, s2[m].class = s2[n].class
                 PROVE  m = n
      OBVIOUS
    <3>1. CASE m = 0 /\ n # 0
      <4>1. n \in 1 .. k
        BY <3>1
      <4>2. QED
        BY <1>4, <1>7, <3>1, <4>1
    <3>2. CASE m # 0 /\ n = 0
      <4>1. m \in 1 .. k
        BY <3>2
      <4>2. QED
        BY <1>4, <1>7, <3>2, <4>1
    <3>3. CASE m # 0 /\ n # 0
      <4>1. m \in 1 .. k /\ n \in 1 .. k
        BY <3>3
      <4>2. m - 1 = n - 1
        BY <1>3, <1>7, <4>1
      <4>3. QED
        BY <4>2
    <3>4. QED
      BY <3>1, <3>2, <3>3
  <2>3. \A n \in 1 .. k : s2[n].at \notin busy
    <3> TAKE n \in 1 .. k
    <3>1. s2[n] = s[n - 1] /\ n - 1 \in 0 .. k - 1
      BY <1>7
    <3>2. CASE n = 1
      <4>1. s[0] = p /\ s[0].class \in Classes /\ n - 1 = 0
        BY <1>3, <3>1, <3>2
      <4>2. p.at \notin busy
        BY <4>1, FewClasses
      <4>3. QED
        BY <3>1, <4>1, <4>2
    <3>3. CASE n # 1
      <4>1. n - 1 \in 1 .. k - 1
        BY <3>3
      <4>2. QED
        BY <1>3, <3>1, <4>1
    <3>4. QED
      BY <3>2, <3>3
  <2>4. \A n \in 0 .. k : s2[n].class \in {"svc", "pc"} => n = k
    <3> SUFFICES ASSUME NEW n \in 0 .. k, s2[n].class \in {"svc", "pc"} PROVE n = k
      OBVIOUS
    <3>1. CASE n = 0
      <4>1. p.class = "thread"
        BY <1>7, <3>1
      <4>2. k # 0 => 0 \in 0 .. k - 1
        OBVIOUS
      <4>3. QED
        BY <1>3, <3>1, <4>1, <4>2, FewClasses
    <3>2. CASE n # 0
      <4>1. n \in 1 .. k
        BY <3>2
      <4>2. n - 1 = k - 1
        BY <1>3, <1>7, <4>1
      <4>3. QED
        BY <4>2
    <3>3. QED
      BY <3>1, <3>2
  <2>5. (k + 1) - 1 = k
    OBVIOUS
  <2>6. s2[0] = q /\ s2[k + 1].class = "thread" /\ s2[k + 1].at = "run"
    BY <1>3, <1>7
  <2>7. QED
    BY <2>1, <2>2, <2>3, <2>4, <2>5, <2>6 DEF Chain
<1>9. s2[k + 1] = b /\ k + 1 \in Nat
  BY <1>2, <1>7
<1>10. QED
  BY <1>8, <1>9 DEF Nested, o2

\* A handler that goes on stays above what it interrupted.
LEMMA NestedTop ==
  ASSUME NEW p, NEW o, NEW busy, NEW b, Nested(p, o, b, busy), p.class # "thread",
         NEW q, q.class = p.class
  PROVE  Nested(q, o, b, busy)
<1>1. PICK k \in Nat : \E s : Chain(p, o, k, s, busy) /\ s[k] = b
  BY DEF Nested
<1>2. PICK s : Chain(p, o, k, s, busy) /\ s[k] = b
  BY <1>1
<1>3. k # 0
  BY <1>2 DEF Chain
<1> DEFINE s2 == [n \in 0 .. k |-> IF n = 0 THEN q ELSE s[n]]
<1>4. /\ s2[0] = q /\ s2[k] = s[k] /\ \A n \in 1 .. k : s2[n] = s[n]
      /\ \A n \in 0 .. k - 1 : s2[n].class = s[n].class /\ s2[n + 1] = s[n + 1]
  <2>1. s[0] = p
    BY <1>2 DEF Chain
  <2>2. \A n \in 0 .. k - 1 : n \in 0 .. k /\ n + 1 \in 0 .. k /\ n + 1 # 0
    OBVIOUS
  <2>3. QED
    BY <1>3, <2>1, <2>2
<1> HIDE DEF s2
<1>5. \A n \in 1 .. k - 1 : n \in 1 .. k
  OBVIOUS
<1>6. Chain(q, o, k, s2, busy)
  BY <1>2, <1>4, <1>5 DEF Chain
<1>7. QED
  BY <1>2, <1>4, <1>6 DEF Nested

\* A handler that resumes leaves the chain below it.
LEMMA NestedPop ==
  ASSUME NEW p, NEW o, NEW busy, NEW b, Nested(p, o, b, busy), p.class # "thread"
  PROVE  /\ Nested(o[p.class], o, b, busy)
         /\ o[p.class].at = "run" \/ o[p.class].at \notin busy
         /\ p.class \in Classes
         /\ p.class \in {"svc", "pc"} => o[p.class] = b
<1>1. PICK k \in Nat : \E s : Chain(p, o, k, s, busy) /\ s[k] = b
  BY DEF Nested
<1>2. PICK s : Chain(p, o, k, s, busy) /\ s[k] = b
  BY <1>1
<1>3. /\ s[0] = p /\ s[k].class = "thread" /\ s[k].at = "run"
      /\ \A n \in 0 .. k - 1 : s[n].class \in Classes /\ s[n + 1] = o[s[n].class]
      /\ \A m, n \in 0 .. k - 1 : s[m].class = s[n].class => m = n
      /\ \A n \in 1 .. k - 1 : s[n].at \notin busy
      /\ \A n \in 0 .. k - 1 : s[n].class \in {"svc", "pc"} => n = k - 1
  BY <1>2 DEF Chain
<1>4. k # 0
  BY <1>3
<1>5. 0 \in 0 .. k - 1 /\ 0 + 1 = 1
  BY <1>4
<1>6. s[1] = o[p.class] /\ p.class \in Classes
  BY <1>3, <1>5
<1> DEFINE s2 == [n \in 0 .. k - 1 |-> s[n + 1]]
           i == k - 1
<1>7. i \in Nat /\ i + 1 = k
  BY <1>4
<1>8. \A n \in 0 .. i : s2[n] = s[n + 1]
  OBVIOUS
<1> HIDE DEF s2, i
<1>9. Chain(s[1], o, i, s2, busy)
  <2>1. s2[0] = s[1] /\ s2[i] = s[k]
    BY <1>7, <1>8
  <2>2. \A n \in 0 .. i - 1 : n \in 0 .. i /\ n + 1 \in 0 .. k - 1 /\ n + 1 \in 0 .. i
    BY <1>7
  <2>3. \A n \in 0 .. i - 1 : s2[n].class \in Classes /\ s2[n + 1] = o[s2[n].class]
    BY <1>3, <1>8, <2>2
  <2>4. \A m, n \in 0 .. i - 1 : s2[m].class = s2[n].class => m = n
    <3> SUFFICES ASSUME NEW m \in 0 .. i - 1, NEW n \in 0 .. i - 1, s2[m].class = s2[n].class
                 PROVE  m = n
      OBVIOUS
    <3>1. m + 1 = n + 1
      BY <1>3, <1>8, <2>2
    <3>2. QED
      BY <1>7, <3>1
  <2>5. \A n \in 1 .. i - 1 : s2[n].at \notin busy
    <3> TAKE n \in 1 .. i - 1
    <3>1. n \in 0 .. i /\ n + 1 \in 1 .. k - 1
      BY <1>7
    <3>2. QED
      BY <1>3, <1>8, <3>1
  <2>6. \A n \in 0 .. i - 1 : s2[n].class \in {"svc", "pc"} => n = i - 1
    <3> SUFFICES ASSUME NEW n \in 0 .. i - 1, s2[n].class \in {"svc", "pc"} PROVE n = i - 1
      OBVIOUS
    <3>1. n + 1 = k - 1
      BY <1>3, <1>8, <2>2
    <3>2. QED
      BY <1>7, <3>1
  <2>7. QED
    BY <1>3, <2>1, <2>3, <2>4, <2>5, <2>6 DEF Chain
<1>10. s2[i] = b
  BY <1>2, <1>7, <1>8
<1>11. Nested(s[1], o, b, busy)
  BY <1>7, <1>9, <1>10 DEF Nested
<1>12. s[1].at = "run" \/ s[1].at \notin busy
  <2>1. k = 1 \/ 1 \in 1 .. k - 1
    BY <1>4
  <2>2. QED
    BY <1>3, <2>1
<1>13. p.class \in {"svc", "pc"} => s[1] = b
  <2> SUFFICES ASSUME p.class \in {"svc", "pc"} PROVE s[1] = b
    OBVIOUS
  <2>1. 0 = k - 1
    BY <1>3, <1>5
  <2>2. QED
    BY <1>2, <2>1
<1>14. QED
  BY <1>6, <1>11, <1>12, <1>13

\* Above a thread alone, a supervisor call may go on with another one.
LEMMA NestedSwitch ==
  ASSUME NEW o, NEW busy, "svc" \in DOMAIN o, NEW b, b.class = "thread", b.at = "run",
         NEW q, q.class = "svc"
  PROVE  Nested(q, [o EXCEPT !["svc"] = b], b, busy)
<1> DEFINE o2 == [o EXCEPT !["svc"] = b]
           s == [n \in 0 .. 1 |-> IF n = 0 THEN q ELSE b]
<1>1. o2["svc"] = b /\ s[0] = q /\ s[1] = b /\ 1 \in Nat
  OBVIOUS
<1> HIDE DEF o2, s
<1>2. \A n \in 0 .. 1 - 1 : n = 0
  OBVIOUS
<1>3. \A n \in 1 .. 1 - 1 : FALSE
  OBVIOUS
<1>4. 0 + 1 = 1 /\ 1 - 1 = 0
  OBVIOUS
<1>5. Chain(q, o2, 1, s, busy)
  BY <1>1, <1>2, <1>3, <1>4, FewClasses DEF Chain
<1>6. QED
  BY <1>1, <1>5 DEF Nested, o2

----------------------------------------------------------------------------
(* The invariant.  Until an interruption has overwritten more than         *)
(* registers, classes nest, and while a handler's C function runs, the     *)
(* frame on @FLSTACK is its own.  Until then too, where the processor has  *)
(* the interrupted registers, FLCGRSAV has them as soon as they are stored *)
(* and until they are back.                                                *)

OldPswShape == oldPsw = [c \in Classes |-> oldPsw[c]]
Sound(busy) == Nested(psw, oldPsw, Bottom, busy)
FrameIsOwn == psw.at = "body" => flstack = psw.class
SavedOnce == psw.at \in {"load", "return"} => grsave = regs
IInv ==
  /\ OldPswShape
  /\ harmed \subseteq {"registers"} => Sound({"body"}) /\ FrameIsOwn
  /\ harmed = {} => Sound(OwnRegisters) /\ SavedOnce

\* Initially the thread runs, with no handler above it.
LEMMA InitSound ==
  ASSUME NEW busy, Init
  PROVE  Sound(busy) /\ Bottom = psw /\ psw.at = "run"
<1> DEFINE s == [n \in 0 .. 0 |-> psw]
<1>1. psw.class = "thread" /\ psw.at = "run"
  BY DEF Init, Running
<1>2. s[0] = psw
  OBVIOUS
<1> HIDE DEF s
<1>3. \A n \in 0 .. 0 - 1 : FALSE
  OBVIOUS
<1>4. \A n \in 1 .. 0 - 1 : FALSE
  OBVIOUS
<1>5. Chain(psw, oldPsw, 0, s, busy)
  BY <1>1, <1>2, <1>3, <1>4 DEF Chain
<1>6. Nested(psw, oldPsw, psw, busy)
  BY <1>2, <1>5 DEF Nested
<1>7. Bottom = psw
  BY <1>6, NestedBottom, UnderMeans DEF Bottom, N
<1>8. QED
  BY <1>1, <1>6, <1>7 DEF Sound

\* The invariant holds in the initial states.
LEMMA InitIInv == Init => IInv
<1> SUFFICES ASSUME Init PROVE IInv
  OBVIOUS
<1>1. psw.at = "run" /\ Sound({"body"}) /\ Sound(OwnRegisters)
  BY InitSound
<1>2. OldPswShape
  BY DEF Init, OldPswShape
<1>3. QED
  BY <1>1, <1>2 DEF IInv, FrameIsOwn, SavedOnce

\* What is below the handlers is what the chain ends in.
LEMMA BottomAfter ==
  ASSUME NEW b, NEW busy, Nested(psw', oldPsw', b, busy)
  PROVE  Bottom' = b /\ Sound(busy)'
<1>1. UnderOf(psw', oldPsw')[N] = b
  BY NestedBottom
<1>2. Bottom' = Under'[N]
  BY DEF Bottom, N
<1>3. Bottom' = b
  BY <1>1, <1>2, UnderMeansAfter
<1>4. QED
  BY <1>3 DEF Sound

\* Where the PSWs stay, so do the handlers.
LEMMA HandlersStay ==
  ASSUME NEW busy, Sound(busy), psw' = psw, oldPsw' = oldPsw
  PROVE  Sound(busy)' /\ Bottom' = Bottom
<1>1. Nested(psw', oldPsw', Bottom, busy)
  BY DEF Sound
<1>2. QED
  BY <1>1, BottomAfter

\* A handler that goes on one step leaves the old PSWs, hence the thread below.
LEMMA HandlerGoesOn ==
  ASSUME NEW busy, Sound(busy), psw.class # "thread", NEW step,
         psw' = Handling(psw.class, step), oldPsw' = oldPsw
  PROVE  Sound(busy)' /\ Bottom' = Bottom
<1>1. psw'.class = psw.class
  BY DEF Handling
<1>2. Nested(psw', oldPsw, Bottom, busy)
  BY <1>1, NestedTop DEF Sound
<1>3. Nested(psw', oldPsw', Bottom, busy)
  BY <1>2
<1>4. QED
  BY <1>3, BottomAfter

\* An interruption of a step that is not busy adds a handler above the same thread.
LEMMA HandlerStarts ==
  ASSUME NEW busy, OldPswShape, Sound(busy), NEW class \in Classes, Interruption(class),
         \A n \in 0 .. N : Under[n].class # class,
         psw.class = "thread" \/ (psw.at \notin busy /\ class \notin {"svc", "pc"})
  PROVE  Sound(busy)' /\ Bottom' = Bottom
<1>1. /\ oldPsw' = [oldPsw EXCEPT ![class] = psw]
      /\ psw' = Handling(class, "store")
  BY DEF Interruption
<1>2. DOMAIN oldPsw = Classes /\ Nested(psw, oldPsw, Bottom, busy)
  BY DEF Sound, OldPswShape
<1>3. psw'.class = class
  BY <1>1 DEF Handling
<1>4. \A n \in 0 .. N : UnderOf(psw, oldPsw)[n].class # class
  BY UnderMeans
<1>5. Nested(psw', oldPsw', Bottom, busy)
  BY <1>1, <1>2, <1>3, <1>4, NestedPush
<1>6. QED
  BY <1>5, BottomAfter

\* Under a thread there is only the thread, so any class may interrupt it.
LEMMA ThreadInterrupted ==
  ASSUME NEW busy, OldPswShape, Sound(busy), InThread, NEW class \in Classes, Interruption(class)
  PROVE  Sound(busy)' /\ Bottom' = Bottom /\ psw.at = "run"
<1>1. psw.class = "thread" /\ Bottom = psw
  BY NestedThread DEF InThread, Sound
<1>2. psw.at = "run"
  BY <1>1, NestedBottom DEF Sound
<1>3. /\ Under[0] = psw
      /\ \A i \in 1 .. N : Under[i] = IF Under[i - 1].class = "thread" THEN Under[i - 1]
                                       ELSE oldPsw[Under[i - 1].class]
  BY UnderMeans, UnderUnfolds
<1> DEFINE T == {n \in Nat : n <= N /\ Under[n] # psw}
<1>4. T = {}
  <2> SUFFICES ASSUME T # {} PROVE FALSE
    OBVIOUS
  <2>1. PICK n \in T : \A j \in T : n <= j
    BY LeastExists
  <2>2. n # 0 /\ n \in 1 .. N /\ n - 1 \in Nat /\ n - 1 <= N /\ n - 1 \notin T
    BY <1>3, <2>1, FewClasses
  <2>3. Under[n - 1] = psw
    BY <2>2
  <2>4. QED
    BY <1>1, <1>3, <2>2, <2>3
<1>5. \A n \in 0 .. N : Under[n] = psw
  BY <1>4, FewClasses
<1>6. \A n \in 0 .. N : Under[n].class # class
  BY <1>1, <1>5, FewClasses
<1>7. QED
  BY <1>1, <1>2, <1>6, HandlerStarts

\* A handler that is not busy is interrupted by a class that is not active.
LEMMA HandlerInterrupted ==
  ASSUME NEW busy, OldPswShape, Sound(busy), NEW class \in Classes, Interruption(class),
         class \notin {"svc", "pc"}, class \notin Active, psw.at \notin busy
  PROVE  Sound(busy)' /\ Bottom' = Bottom
<1>1. DOMAIN Under = 0 .. N
  BY UnderMeans, UnderUnfolds
<1>2. \A n \in 0 .. N : Under[n].class # class
  BY <1>1 DEF Active
<1>3. QED
  BY <1>2, HandlerStarts

\* A handler that resumes what it interrupted leaves the rest of the chain.
LEMMA HandlerResumes ==
  ASSUME NEW busy, Sound(busy), Resume
  PROVE  Sound(busy)' /\ Bottom' = Bottom /\ (psw'.at = "run" \/ psw'.at \notin busy)
<1>1. psw.class # "thread" /\ psw' = oldPsw[psw.class] /\ oldPsw' = oldPsw
  BY DEF Resume, At
<1>2. Nested(psw', oldPsw, Bottom, busy) /\ (psw'.at = "run" \/ psw'.at \notin busy)
  BY <1>1, NestedPop DEF Sound
<1>3. Nested(psw', oldPsw', Bottom, busy)
  BY <1>1, <1>2
<1>4. QED
  BY <1>2, <1>3, BottomAfter

\* SVC 50 changes the thread below its handler, which is the only one.
LEMMA HandlerSwitches ==
  ASSUME NEW busy, OldPswShape, Sound(busy), FrameIsOwn, Schedule
  PROVE  /\ Bottom = oldPsw["svc"] /\ flstack = "svc"
         /\ Sound(busy)'
         /\ Bottom' = Running(Caller!Switched.psw)
<1> DEFINE b == Running(Caller!Switched.psw)
<1>1. /\ psw.class = "svc" /\ psw.at = "body" /\ psw' = Handling(flstack, "reload")
      /\ oldPsw' = [oldPsw EXCEPT !["svc"] = b]
  BY DEF Schedule, At, Leave
<1>2. DOMAIN oldPsw = Classes /\ Nested(psw, oldPsw, Bottom, busy) /\ flstack = "svc"
  BY <1>1 DEF OldPswShape, Sound, FrameIsOwn
<1>3. Bottom = oldPsw["svc"]
  BY <1>1, <1>2, NestedPop
<1>4. b.class = "thread" /\ b.at = "run" /\ psw'.class = "svc"
  BY <1>1, <1>2 DEF Running, Handling
<1> HIDE DEF b
<1>5. Nested(psw', oldPsw', b, busy)
  BY <1>1, <1>2, <1>4, NestedSwitch, FewClasses
<1>6. Bottom' = b /\ Sound(busy)'
  BY <1>5, BottomAfter
<1>7. QED
  BY <1>2, <1>3, <1>6 DEF b

\* The steps that are interrupted are not busy, nor is the class of the handler.
Spares(busy) ==
  \A class \in Asynchronous :
    Asynchronously(class) => InThread \/ (class \notin Active /\ psw.at \notin busy)

\* What is not harmed by a step says what the step does not interrupt.
LEMMA HarmTells ==
  /\ harmed' \subseteq {"registers"} => Spares({"body"})
  /\ harmed' = {} => Spares(OwnRegisters)
<1>1. ASSUME harmed' \subseteq {"registers"}, NEW class \in Asynchronous, Asynchronously(class)
      PROVE  class \notin Active /\ psw.at \notin {"body"}
  <2>1. Harm(class) \subseteq {"registers"}
    BY <1>1 DEF Asynchronously, Interruption
  <2>2. "psw" \notin Harm(class) /\ "frame" \notin Harm(class)
    BY <2>1
  <2>3. QED
    BY <2>2 DEF Harm
<1>2. ASSUME harmed' = {}, NEW class \in Asynchronous, Asynchronously(class)
      PROVE  class \notin Active /\ psw.at \notin OwnRegisters
  <2>1. Harm(class) = {}
    BY <1>2 DEF Asynchronously, Interruption
  <2>2. "psw" \notin Harm(class) /\ "registers" \notin Harm(class)
    BY <2>1
  <2>3. QED
    BY <2>2 DEF Harm
<1>3. QED
  BY <1>1, <1>2 DEF Spares

\* What has been overwritten stays so.
LEMMA HarmStays ==
  ASSUME [Next]_vars
  PROVE  harmed \subseteq harmed'
<1>1. ASSUME NEW class, Interruption(class) PROVE harmed \subseteq harmed'
  BY <1>1 DEF Interruption
<1>2. Call \/ ProgramCheck \/ (\E class \in Asynchronous : Asynchronously(class))
        => harmed \subseteq harmed'
  BY <1>1 DEF Call, ProgramCheck, Asynchronously
<1>3. UNCHANGED vars \/ Create \/ Progress \/ Halted => harmed' = harmed
  BY DEF vars, handlerVars, Create, Halted, Progress, Store, Load, Enter, Schedule, Serve,
    Panic, Reload, Resume
<1>4. QED
  BY <1>2, <1>3 DEF Next

\* There is an old PSW for each class, always.
LEMMA ShapeStays ==
  ASSUME OldPswShape, [Next]_vars
  PROVE  OldPswShape'
<1>1. ASSUME NEW class, NEW p, oldPsw' = [oldPsw EXCEPT ![class] = p] PROVE OldPswShape'
  <2>1. DOMAIN oldPsw' = Classes /\ oldPsw' = [c \in DOMAIN oldPsw' |-> oldPsw'[c]]
    BY <1>1 DEF OldPswShape
  <2>2. QED
    BY <2>1 DEF OldPswShape
<1>2. Call \/ ProgramCheck \/ (\E class \in Asynchronous : Asynchronously(class)) => OldPswShape'
  BY <1>1 DEF Call, ProgramCheck, Asynchronously, Interruption
<1>3. Schedule => OldPswShape'
  BY <1>1 DEF Schedule
<1>4. ASSUME oldPsw' = oldPsw PROVE OldPswShape'
  BY <1>4 DEF OldPswShape
<1>5. UNCHANGED vars \/ Create \/ Halted => OldPswShape'
  BY <1>4 DEF vars, handlerVars, Create, Halted
<1>6. Store \/ Load \/ Enter \/ Serve \/ Panic \/ Reload \/ Resume => OldPswShape'
  BY <1>4 DEF Store, Load, Enter, Serve, Panic, Reload, Resume
<1>7. Progress => OldPswShape'
  BY <1>3, <1>6 DEF Progress
<1>8. QED
  BY <1>2, <1>5, <1>7 DEF Next

\* A step that spares what is busy keeps the handlers nested, and the thread below them
\* unless it is SVC 50.
LEMMA NextSound ==
  ASSUME NEW busy, OldPswShape, Sound(busy), FrameIsOwn, Spares(busy), [Next]_vars
  PROVE  Sound(busy)' /\ (Schedule \/ Bottom' = Bottom)
<1>1. CASE UNCHANGED vars \/ Create \/ Panic \/ Halted
  <2>1. psw' = psw /\ oldPsw' = oldPsw
    BY <1>1 DEF vars, handlerVars, Create, Panic, Halted
  <2>2. QED
    BY <2>1, HandlersStay
<1>2. ASSUME NEW class \in Classes, Interruption(class), InThread
      PROVE  Sound(busy)' /\ Bottom' = Bottom
  BY <1>2, ThreadInterrupted
<1>3. CASE Call
  BY <1>2, <1>3, FewClasses DEF Call
<1>4. CASE ProgramCheck
  BY <1>2, <1>4, FewClasses DEF ProgramCheck
<1>5. ASSUME NEW class \in Asynchronous, Asynchronously(class)
      PROVE  Sound(busy)' /\ Bottom' = Bottom
  <2>1. class \in Classes /\ class \notin {"svc", "pc"}
    BY InterruptsAssumption DEF Classes
  <2>2. Interruption(class) /\ (InThread \/ (class \notin Active /\ psw.at \notin busy))
    BY <1>5 DEF Asynchronously, Spares
  <2>3. QED
    BY <1>2, <2>1, <2>2, HandlerInterrupted
<1>6. CASE Store \/ Load \/ Enter \/ Serve \/ Reload
  <2>1. /\ psw.class # "thread" /\ oldPsw' = oldPsw
        /\ \E step : psw' = Handling(psw.class, step)
    BY <1>6 DEF Store, Load, Enter, Serve, Reload, At, Advance, Leave, FrameIsOwn
  <2>2. QED
    BY <2>1, HandlerGoesOn
<1>7. CASE Schedule
  BY <1>7, HandlerSwitches
<1>8. CASE Resume
  BY <1>8, HandlerResumes
<1>9. QED
  BY <1>1, <1>3, <1>4, <1>5, <1>6, <1>7, <1>8 DEF Next, Progress

\* A step after which no frame is overwritten leaves the running function its own.
LEMMA FrameStays ==
  ASSUME Sound({"body"}), FrameIsOwn, [Next]_vars
  PROVE  FrameIsOwn'
<1>1. CASE UNCHANGED vars \/ Create \/ Panic \/ Halted
  <2>1. psw' = psw /\ flstack' = flstack
    BY <1>1 DEF vars, handlerVars, Create, Panic, Halted
  <2>2. QED
    BY <2>1 DEF FrameIsOwn
<1>2. ASSUME NEW class, Interruption(class) PROVE FrameIsOwn'
  BY <1>2 DEF Interruption, Handling, FrameIsOwn
<1>3. CASE Call \/ ProgramCheck \/ \E class \in Asynchronous : Asynchronously(class)
  BY <1>2, <1>3 DEF Call, ProgramCheck, Asynchronously
<1>4. CASE Store \/ Load \/ Schedule \/ Serve \/ Reload
  <2>1. psw'.at # "body"
    BY <1>4 DEF Store, Load, Schedule, Serve, Reload, Advance, Leave, Handling
  <2>2. QED
    BY <2>1 DEF FrameIsOwn
<1>5. CASE Enter
  BY <1>5 DEF Enter, Advance, Handling, FrameIsOwn
<1>6. CASE Resume
  <2>1. psw'.at # "body"
    BY <1>6, HandlerResumes
  <2>2. QED
    BY <2>1 DEF FrameIsOwn
<1>7. QED
  BY <1>1, <1>3, <1>4, <1>5, <1>6 DEF Next, Progress

\* A step that spares a handler's own registers leaves the interrupted ones in two places.
LEMMA SavedStays ==
  ASSUME Sound(OwnRegisters), SavedOnce, [Next]_vars
  PROVE  SavedOnce'
<1>1. CASE UNCHANGED vars \/ Create \/ Panic \/ Halted
  <2>1. psw' = psw /\ grsave' = grsave /\ regs' = regs
    BY <1>1 DEF vars, handlerVars, Create, Panic, Halted
  <2>2. QED
    BY <2>1 DEF SavedOnce
<1>2. ASSUME NEW class, Interruption(class) PROVE SavedOnce'
  BY <1>2 DEF Interruption, Handling, SavedOnce
<1>3. CASE Call \/ ProgramCheck \/ \E class \in Asynchronous : Asynchronously(class)
  BY <1>2, <1>3 DEF Call, ProgramCheck, Asynchronously
<1>4. CASE Store \/ Reload
  <2>1. grsave' = regs'
    BY <1>4 DEF Store, Reload
  <2>2. QED
    BY <2>1 DEF SavedOnce
<1>5. CASE Load \/ Enter \/ Schedule \/ Serve
  <2>1. psw'.at \notin {"load", "return"}
    BY <1>5 DEF Load, Enter, Schedule, Serve, Advance, Leave, Handling
  <2>2. QED
    BY <2>1 DEF SavedOnce
<1>6. CASE Resume
  BY <1>6 DEF Resume, At, SavedOnce
<1>7. QED
  BY <1>1, <1>3, <1>4, <1>5, <1>6 DEF Next, Progress

\* Each step keeps the chain, the frame and the saved registers, or overwrites them.
LEMMA NextIInv ==
  ASSUME IInv, [Next]_vars
  PROVE  IInv'
<1>1. OldPswShape /\ harmed \subseteq harmed'
  BY HarmStays DEF IInv
<1>2. ASSUME harmed' \subseteq {"registers"} PROVE Sound({"body"})' /\ FrameIsOwn'
  <2>1. Sound({"body"}) /\ FrameIsOwn /\ Spares({"body"})
    BY <1>1, <1>2, HarmTells DEF IInv
  <2>2. QED
    BY <1>1, <2>1, NextSound, FrameStays
<1>3. ASSUME harmed' = {} PROVE Sound(OwnRegisters)' /\ SavedOnce'
  <2>1. Sound(OwnRegisters) /\ SavedOnce /\ FrameIsOwn /\ Spares(OwnRegisters)
    BY <1>1, <1>3, HarmTells DEF IInv
  <2>2. QED
    BY <1>1, <2>1, NextSound, SavedStays
<1>4. OldPswShape'
  BY <1>1, ShapeStays
<1>5. QED
  BY <1>2, <1>3, <1>4 DEF IInv

\* Every reachable state has the chain, the frame and the registers not overwritten.
LEMMA Invariance == Spec => []IInv
<1>1. Init => IInv
  BY InitIInv
<1>2. IInv /\ [Next]_vars => IInv'
  BY NextIInv
<1>3. QED
  BY <1>1, <1>2, PTL DEF Spec

\* Whatever classes interrupt whatever steps: as long as no C function and no handler of
\* the same class has been interrupted, each handler in progress will resume what it
\* interrupted, down to a thread, and a C function returns to the handler that called it
\* (handlers.asm:40, 60, 80, 100, 120).
THEOREM Unwinds == Spec => []UnwindsToTheThread
<1>1. IInv => UnwindsToTheThread
  <2> SUFFICES ASSUME IInv, harmed \subseteq {"registers"}
               PROVE  Bottom.class = "thread" /\ (psw.at = "body" => flstack = psw.class)
    BY DEF UnwindsToTheThread
  <2>1. Nested(psw, oldPsw, Bottom, {"body"}) /\ FrameIsOwn
    BY DEF IInv, Sound
  <2>2. Bottom.class = "thread"
    BY <2>1, NestedBottom
  <2>3. QED
    BY <2>1, <2>2 DEF FrameIsOwn
<1>2. QED
  BY <1>1, Invariance, PTL

----------------------------------------------------------------------------
(* The handlers implement Scheduler: only Schedule changes what Scheduler  *)
(* sees, and it does what KeSchedule does.                                 *)

\* Between the instructions of SVC 50 no step of a handler shows: the interrupted
\* registers are in the processor or in FLCGRSAV, the PSW is at the end of the chain.
LEMMA NothingShows ==
  ASSUME UNCHANGED <<jobs, current_job, scratchPsw, mode>>, Bottom' = Bottom, Seen'.regs = Seen.regs
  PROVE  UNCHANGED S!vars
<1>1. Seen = [regs |-> Seen.regs, psw |-> Seen.psw] /\ Seen' = [regs |-> Seen'.regs, psw |-> Seen'.psw]
  BY DEF Seen
<1>2. Seen'.psw = Seen.psw
  BY DEF Seen
<1>3. Seen' = Seen
  BY <1>1, <1>2, Zenon
<1>4. QED
  BY <1>3 DEF S!vars

\* What the scheduler finds in FLCGRSAV and the SVC old PSW is the thread's.
LEMMA SchedulesTheThread ==
  ASSUME OldPswShape, Sound({"body"}), FrameIsOwn, Schedule
  PROVE  S!KeSchedule
<1>1. Bottom = oldPsw["svc"] /\ Bottom' = Running(Caller!Switched.psw)
  BY HandlerSwitches
<1>2. psw.at = "body" /\ psw'.at = "reload"
  BY DEF Schedule, At, Leave, Handling
<1>3. Seen = [regs |-> grsave, psw |-> oldPsw["svc"].ctx]
  BY <1>1, <1>2 DEF Seen, OwnRegisters
<1>4. Caller!Switched = S!Switched
  <2>1. \A n, m : Caller!Wrap(n, m) = S!Wrap(n, m)
    BY Zenon DEF Caller!Wrap, S!Wrap
  <2>2. Caller!JobIndex = S!JobIndex /\ Caller!Job = S!Job
    BY <2>1, Zenon DEF Caller!JobIndex, Caller!Job, S!JobIndex, S!Job
  <2>3. Caller!TaskIndex = S!TaskIndex /\ Caller!Task = S!Task
    BY <2>1, <2>2, Zenon DEF Caller!TaskIndex, Caller!Task, S!TaskIndex, S!Task
  <2>4. Caller!OldIndex = S!OldIndex /\ Caller!NewIndex = S!NewIndex
    BY <2>1, <2>3, Zenon DEF Caller!OldIndex, Caller!NewIndex, S!OldIndex, S!NewIndex
  <2>5. \A r, k : Caller!WithScratch(r, k) = S!WithScratch(r, k)
    BY <1>3, Zenon DEF Caller!WithScratch, Caller!AfterSvc, S!WithScratch, S!AfterSvc
  <2>6. \A r, k : Caller!WithOldPsw(r, k) = S!WithOldPsw(r, k)
    BY <1>3, Zenon DEF Caller!WithOldPsw, Caller!AfterSvc, S!WithOldPsw, S!AfterSvc
  <2>7. \A k, l : Caller!HwSwitchThreadContext(k, l) = S!HwSwitchThreadContext(k, l)
    BY <2>2, <2>3, <2>5, <2>6, Zenon
    DEF Caller!HwSwitchThreadContext, S!HwSwitchThreadContext
  <2>8. QED
    BY <2>2, <2>3, <2>4, <2>7, Zenon DEF Caller!Switched, S!Switched
<1>5. /\ jobs' = Caller!Switched.jobs /\ grsave' = Caller!Switched.regs
      /\ scratchPsw' = Caller!Switched.scratch
      /\ current_job' = Caller!JobIndex + 1 /\ mode' = "threads"
      /\ Caller!Populated /\ mode # "panic"
  BY DEF Schedule, At, Alive
<1>6. Seen' = [regs |-> Caller!Switched.regs, psw |-> Caller!Switched.psw]
  <2>1. Bottom'.ctx = Caller!Switched.psw
    BY <1>1 DEF Running
  <2>2. QED
    BY <1>2, <1>5, <2>1 DEF Seen, OwnRegisters
<1>7. Caller!JobIndex = S!JobIndex /\ (Caller!Populated <=> S!Populated)
  BY DEF Caller!JobIndex, Caller!Wrap, Caller!Populated, S!JobIndex, S!Wrap, S!Populated
<1>8. QED
  BY <1>4, <1>5, <1>6, <1>7 DEF S!KeSchedule

\* As long as nothing is overwritten, every step of the handlers is one of Scheduler, or
\* does not show.
LEMMA StepImplements ==
  ASSUME IInv, [Next]_vars, harmed' = {}
  PROVE  S!Next \/ UNCHANGED S!vars
<1> DEFINE Same == UNCHANGED <<jobs, current_job, scratchPsw, mode>>
<1>0. /\ OldPswShape /\ FrameIsOwn /\ SavedOnce /\ Spares(OwnRegisters)
      /\ Sound({"body"}) /\ Sound(OwnRegisters)
      /\ Schedule \/ Bottom' = Bottom
  <2>1. harmed = {}
    BY HarmStays
  <2>2. /\ OldPswShape /\ FrameIsOwn /\ SavedOnce /\ Sound({"body"}) /\ Sound(OwnRegisters)
        /\ Spares(OwnRegisters)
    BY <2>1, HarmTells DEF IInv
  <2>3. QED
    BY <2>2, NextSound
<1>1. CASE UNCHANGED vars \/ Panic \/ Halted
  <2>1. Same /\ psw' = psw /\ regs' = regs /\ grsave' = grsave /\ oldPsw' = oldPsw
    BY <1>1 DEF vars, handlerVars, Panic, Halted
  <2>2. Bottom' = Bottom
    BY <1>0, <2>1, HandlersStay
  <2>3. QED
    BY <2>1, <2>2, NothingShows DEF Seen
<1>2. CASE Create
  <2>1. UNCHANGED <<psw, oldPsw, regs, grsave, current_job>>
    BY <1>2 DEF Create, handlerVars, Caller!KeCreateJob, Caller!KeCreateTask,
      Caller!KeCreateThread, Caller!OutOfMemory
  <2>2. Seen' = Seen
    <3>1. Bottom' = Bottom
      BY <1>0, <2>1, HandlersStay
    <3>2. QED
      BY <2>1, <3>1 DEF Seen
  <2>3. CASE Caller!KeCreateJob
    <3>1. S!KeCreateJob
      BY <2>1, <2>2, <2>3 DEF Caller!KeCreateJob, Caller!OutOfMemory, S!KeCreateJob, S!OutOfMemory
    <3>2. QED
      BY <3>1 DEF S!Next
  <2>4. ASSUME NEW j \in DOMAIN jobs, Caller!KeCreateTask(j) PROVE S!Next
    <3>1. S!KeCreateTask(j)
      BY <2>1, <2>2, <2>4 DEF Caller!KeCreateTask, Caller!OutOfMemory, S!KeCreateTask, S!OutOfMemory
    <3>2. QED
      BY <3>1 DEF S!Next
  <2>5. ASSUME NEW j \in DOMAIN jobs, NEW t \in DOMAIN jobs[j].tasks, Caller!KeCreateThread(j, t)
        PROVE  S!Next
    <3>1. S!KeCreateThread(j, t)
      BY <2>1, <2>2, <2>5 DEF Caller!KeCreateThread, Caller!OutOfMemory, Caller!Entry, Caller!KeInit,
        S!KeCreateThread, S!OutOfMemory, S!Entry, S!KeInit
    <3>2. QED
      BY <3>1 DEF S!Next
  <2>6. QED
    BY <1>2, <2>3, <2>4, <2>5 DEF Create
<1>3. ASSUME NEW class \in Classes, Interruption(class), psw.at \notin OwnRegisters,
             Bottom' = Bottom
      PROVE  UNCHANGED S!vars
  <2>1. psw'.at = "store" /\ regs' = regs /\ Same
    BY <1>3 DEF Interruption, Handling
  <2>2. Seen'.regs = Seen.regs
    BY <1>3, <2>1 DEF Seen, OwnRegisters
  <2>3. QED
    BY <1>3, <2>1, <2>2, NothingShows
<1>4. ASSUME NEW class \in Classes, Interruption(class), InThread
      PROVE  UNCHANGED S!vars
  <2>1. psw.at = "run" /\ Bottom' = Bottom
    BY <1>0, <1>4, ThreadInterrupted
  <2>2. QED
    BY <1>3, <1>4, <2>1 DEF OwnRegisters
<1>5. CASE Call
  BY <1>4, <1>5, FewClasses DEF Call
<1>6. CASE ProgramCheck
  BY <1>4, <1>6, FewClasses DEF ProgramCheck
<1>7. ASSUME NEW class \in Asynchronous, Asynchronously(class) PROVE UNCHANGED S!vars
  <2>1. class \in Classes /\ class \notin {"svc", "pc"}
    BY InterruptsAssumption DEF Classes
  <2>2. Interruption(class) /\ (InThread \/ (class \notin Active /\ psw.at \notin OwnRegisters))
    BY <1>0, <1>7 DEF Asynchronously, Spares
  <2>3. CASE InThread
    BY <1>4, <2>1, <2>2, <2>3
  <2>4. CASE ~InThread
    <3>1. Bottom' = Bottom
      BY <1>0, <2>1, <2>2, <2>4, HandlerInterrupted
    <3>2. QED
      BY <1>3, <2>1, <2>2, <2>4, <3>1
  <2>5. QED
    BY <2>3, <2>4
<1>8. CASE Store \/ Load \/ Enter \/ Serve \/ Reload
  <2>1. /\ psw.class # "thread" /\ oldPsw' = oldPsw /\ Same
        /\ \E step : psw' = Handling(psw.class, step)
    BY <1>0, <1>8 DEF Store, Load, Enter, Serve, Reload, At, Advance, Leave, FrameIsOwn
  <2>2. Bottom' = Bottom
    BY <1>0, <2>1, HandlerGoesOn
  <2>3. CASE Store
    <3>1. psw.at = "store" /\ psw'.at = "load" /\ regs' = regs
      BY <2>3 DEF Store, At, Advance, Handling
    <3>2. QED
      BY <2>1, <2>2, <3>1, NothingShows DEF Seen, OwnRegisters
  <2>4. CASE Load
    <3>1. psw.at = "load" /\ psw'.at = "call" /\ grsave' = regs
      BY <1>0, <2>4 DEF Load, At, Advance, Handling, SavedOnce
    <3>2. QED
      BY <2>1, <2>2, <3>1, NothingShows DEF Seen, OwnRegisters
  <2>5. CASE Enter \/ Serve
    <3>1. psw.at \in {"call", "body"} /\ psw'.at \in {"body", "reload"} /\ grsave' = grsave
      BY <2>5 DEF Enter, Serve, At, Advance, Leave, Handling
    <3>2. QED
      BY <2>1, <2>2, <3>1, NothingShows DEF Seen, OwnRegisters
  <2>6. CASE Reload
    <3>1. psw.at = "reload" /\ psw'.at = "return" /\ regs' = grsave
      BY <2>6 DEF Reload, At, Advance, Handling
    <3>2. QED
      BY <2>1, <2>2, <3>1, NothingShows DEF Seen, OwnRegisters
  <2>7. QED
    BY <1>8, <2>3, <2>4, <2>5, <2>6
<1>9. CASE Schedule
  BY <1>0, <1>9, SchedulesTheThread DEF S!Next
<1>10. CASE Resume
  <2>1. Bottom' = Bottom /\ psw'.at \notin OwnRegisters
    BY <1>0, <1>10, HandlerResumes DEF OwnRegisters
  <2>2. psw.at = "return" /\ regs' = regs /\ Same
    BY <1>10 DEF Resume, At
  <2>3. QED
    BY <2>1, <2>2, NothingShows DEF Seen, OwnRegisters
<1>11. QED
  BY <1>1, <1>2, <1>5, <1>6, <1>7, <1>8, <1>9, <1>10 DEF Next, Progress

\* The scheduler's own specification, in which a supervisor call is one step, is what
\* the handlers do together (handlers.asm, irq.c, scheduler.c), whatever interrupts them,
\* until an interruption has overwritten the registers, the frame or the PSW of another.
THEOREM HandlersImplementScheduler == Spec => ImplementsScheduler
<1>1. Init => S!Init
  <2> SUFFICES ASSUME Init PROVE S!Init
    OBVIOUS
  <2>1. Bottom = psw /\ psw.at = "run" /\ psw.ctx = BootContext /\ regs = BootContext
    BY InitSound DEF Init, Running
  <2>2. Seen = [regs |-> BootContext, psw |-> BootContext]
    BY <2>1 DEF Seen, OwnRegisters
  <2>3. QED
    BY <2>2 DEF Init, S!Init, S!Entry, S!KeInit, BootContext, KernelInit
<1>2. IInv /\ [Next]_vars => [harmed' # {} \/ S!Next \/ UNCHANGED S!vars]_vars
  BY StepImplements
<1>3. QED
  BY <1>1, <1>2, Invariance, PTL DEF Spec, ImplementsScheduler
=============================================================================
