------------------------------- MODULE FsProofs -------------------------------
(***************************************************************************)
(* Proofs about Fs, for any names, paths and callbacks and any number of   *)
(* nodes, drivers and bytes.                                               *)
(***************************************************************************)
EXTENDS Fs, SequenceFacts

\* The file system has its three parts, of which FsType speaks.
Sound(f) == {"nodes", "children", "drivers"} \subseteq DOMAIN f /\ FsType(f)
Places(f) == {Root} \cup Created(f)

\* What FsType says of single nodes, children and drivers.
LEMMA FsParts ==
  ASSUME NEW f, FsType(f)
  PROVE  /\ Len(f.nodes) \in Nat /\ DOMAIN f.nodes = Created(f)
         /\ Len(f.drivers) \in Nat /\ DOMAIN f.drivers = 1 .. Len(f.drivers)
         /\ DOMAIN f.children = Places(f)
         /\ \A n \in Created(f) :
              /\ f.nodes[n] \in [name : Names, driver : 0 .. Len(f.drivers)]
              /\ f.nodes[n].name \in Names /\ f.nodes[n].driver \in 0 .. Len(f.drivers)
         /\ \A n \in Places(f) :
              /\ f.children[n] \in Seq(Created(f)) /\ Len(f.children[n]) \in Nat
              /\ DOMAIN f.children[n] = 1 .. Len(f.children[n])
              /\ \A i \in 1 .. Len(f.children[n]) : f.children[n][i] \in Created(f)
<1> DEFINE R == [name : Names, driver : 0 .. Len(f.drivers)]
<1>1. f.nodes \in Seq(R)
  BY DEF FsType
<1> HIDE DEF R
<1>2. Len(f.nodes) \in Nat /\ DOMAIN f.nodes = Created(f)
  BY <1>1 DEF Created
<1>3. \A n \in Created(f) : f.nodes[n] \in R
  BY <1>1, <1>2
<1>4. Len(f.drivers) \in Nat /\ DOMAIN f.drivers = 1 .. Len(f.drivers)
  BY DEF FsType
<1>5. DOMAIN f.children = Places(f) /\ \A n \in Places(f) : f.children[n] \in Seq(Created(f))
  BY DEF FsType, Places
<1>6. \A n \in Places(f) :
        /\ Len(f.children[n]) \in Nat
        /\ DOMAIN f.children[n] = 1 .. Len(f.children[n])
        /\ \A i \in 1 .. Len(f.children[n]) : f.children[n][i] \in Created(f)
  BY <1>5
<1>7. QED
  BY <1>2, <1>3, <1>4, <1>5, <1>6 DEF R

----------------------------------------------------------------------------
(* Path resolution.  Its two loops are recursive functions, which stand    *)
(* for some functions that satisfy the recursion if there are any.         *)

TopIs(f, path, u) ==
  u = [i \in 0 .. Len(path.letters) |->
         IF i = 0 THEN Root ELSE Index(f, u[i - 1], path.letters[i])]
TopOf(f, path) == CHOOSE u : TopIs(f, path, u)

\* One name further down, from n.
Further(f, path, i, n) ==
  IF n \in {Null, Wild} \/ (i > 1 /\ Interferes(f, n)) THEN n
  ELSE Down(f, n, path.names[i])
AtIs(f, path, u) ==
  u = [i \in 0 .. Len(path.names) |->
         IF i = 0 THEN TopOf(f, path)[Len(path.letters)] ELSE Further(f, path, i, u[i - 1])]
AtOf(f, path) == CHOOSE u : AtIs(f, path, u)

\* What the two loops of the resolution stand for.
LEMMA ResolutionMeans ==
  ASSUME NEW f, NEW path
  PROVE  KeResolveFsPath(f, path) = AtOf(f, path)[Len(path.names)]
  BY DEF KeResolveFsPath, AtOf, AtIs, TopOf, TopIs, Further

\* A letter leads to a child or nowhere.
LEMMA IndexLeads ==
  ASSUME NEW f, FsType(f), NEW n \in {Null} \cup Places(f), NEW letter \in 1 .. 26
  PROVE  Index(f, n, letter) \in {Null} \cup Places(f)
<1> DEFINE i == KeGetFsDrive(letter) + 1
<1>1. i \in Nat /\ i >= 1
  BY DEF KeGetFsDrive
<1> HIDE DEF i
<1>2. CASE n = Null
  BY <1>2 DEF Index
<1>3. CASE n # Null
  <2>1. /\ Len(f.children[n]) \in Nat
        /\ \A k \in 1 .. Len(f.children[n]) : f.children[n][k] \in Created(f)
    BY <1>3, FsParts
  <2>2. i <= Len(f.children[n]) => f.children[n][i] \in Created(f)
    BY <1>1, <2>1
  <2>3. Index(f, n, letter) = IF n # Null /\ i <= Len(f.children[n]) THEN f.children[n][i] ELSE Null
    BY DEF Index, i
  <2>4. QED
    BY <2>2, <2>3 DEF Places
<1>4. QED
  BY <1>2, <1>3

\* The first child that takes the name, or none.
LEMMA FirstThatTakes ==
  ASSUME NEW f, FsType(f), NEW n \in Places(f), NEW name
  PROVE  LET list == f.children[n]
             hits == {i \in 1 .. Len(list) : Takes(f, list[i], name)}
         IN /\ hits = {} => Down(f, n, name) = Null
            /\ \A i \in hits : (\A j \in hits : i <= j) =>
                 Down(f, n, name) = IF Stale(f, DriverOf(f, list[i])) THEN Wild ELSE list[i]
<1> DEFINE list == f.children[n]
           hits == {i \in 1 .. Len(list) : Takes(f, list[i], name)}
           first == IF hits # {} THEN Min(hits) ELSE 0
<1>1. Down(f, n, name) = IF first = 0 THEN Null
                         ELSE IF Stale(f, DriverOf(f, list[first])) THEN Wild ELSE list[first]
  BY DEF Down, SelectInSeq
<1>2. hits \in SUBSET Nat /\ \A i \in hits : i \in Nat /\ i # 0
  OBVIOUS
<1> HIDE DEF list, hits
<1>3. hits = {} => Down(f, n, name) = Null
  BY <1>1
<1>4. ASSUME NEW i \in hits, \A j \in hits : i <= j
      PROVE  Down(f, n, name) = IF Stale(f, DriverOf(f, list[i])) THEN Wild ELSE list[i]
  <2>1. Min(hits) \in hits /\ Min(hits) \in Nat /\ \A k \in hits : Min(hits) <= k
    BY <1>2, <1>4, MinIsLeast
  <2>2. Min(hits) = i
    BY <1>2, <1>4, <2>1
  <2>3. first = i /\ i # 0
    BY <1>2, <1>4, <2>2
  <2>4. QED
    BY <1>1, <2>3
<1>5. QED
  BY <1>3, <1>4 DEF list, hits

\* A name leads to a child, nowhere, or through a stale pointer.
LEMMA DownLeads ==
  ASSUME NEW f, FsType(f), NEW n \in Places(f), NEW name
  PROVE  Down(f, n, name) \in {Null, Wild} \cup Created(f)
<1> DEFINE list == f.children[n]
           hits == {i \in 1 .. Len(list) : Takes(f, list[i], name)}
<1>1. CASE hits = {}
  BY <1>1, FirstThatTakes
<1>2. CASE hits # {}
  <2>1. PICK i \in hits : \A j \in hits : i <= j
    <3>1. hits \in SUBSET Nat
      OBVIOUS
    <3> HIDE DEF hits
    <3>2. QED
      BY <1>2, <3>1, LeastExists
  <2>2. list[i] \in Created(f)
    BY FsParts
  <2>3. Down(f, n, name) = IF Stale(f, DriverOf(f, list[i])) THEN Wild ELSE list[i]
    BY <2>1, FirstThatTakes
  <2>4. QED
    BY <2>2, <2>3
<1>3. QED
  BY <1>1, <1>2

\* What the type of a path says of its parts.
LEMMA PathParts ==
  ASSUME NEW path \in Path
  PROVE  /\ path.letters \in Seq(1 .. 26) /\ Len(path.letters) \in Nat
         /\ path.names \in Seq(Seq(Nat)) /\ Len(path.names) \in Nat
         /\ \A i \in 1 .. Len(path.letters) : path.letters[i] \in 1 .. 26
         /\ \A i \in 1 .. Len(path.names) : path.names[i] \in Seq(Nat)
<1>1. path.letters \in Seq(1 .. 26) /\ path.names \in Seq(Seq(Nat))
  BY Zenon DEF Path
<1>2. ASSUME NEW S, NEW s \in Seq(S) PROVE Len(s) \in Nat /\ \A i \in 1 .. Len(s) : s[i] \in S
  OBVIOUS
<1>3. Len(path.letters) \in Nat /\ \A i \in 1 .. Len(path.letters) : path.letters[i] \in 1 .. 26
  BY <1>1, <1>2, Zenon
<1>4. Len(path.names) \in Nat /\ \A i \in 1 .. Len(path.names) : path.names[i] \in Seq(Nat)
  BY <1>1, <1>2, Zenon
<1>5. QED
  BY <1>1, <1>3, <1>4, Zenon

\* The loop over the letters.
LEMMA TopSteps ==
  ASSUME NEW f, FsType(f), NEW path \in Path
  PROVE  LET top == TopOf(f, path) IN
         /\ top[0] = Root
         /\ \A i \in 1 .. Len(path.letters) : top[i] = Index(f, top[i - 1], path.letters[i])
         /\ \A i \in 0 .. Len(path.letters) : top[i] \in {Null} \cup Places(f)
<1> DEFINE len == Len(path.letters)
           Seen == {Null} \cup Places(f)
           Step == [i \in 1 .. len |-> [d \in Seen |-> Index(f, d, path.letters[i])]]
           top == TopOf(f, path)
<1>1. len \in Nat /\ \A i \in 1 .. len : path.letters[i] \in 1 .. 26
  BY PathParts, Zenon
<1>2. \A i \in 1 .. len : \A d \in Seen : Index(f, d, path.letters[i]) \in Seen
  BY <1>1, IndexLeads
<1> HIDE DEF len, Seen
<1>3. Step \in [1 .. len -> [Seen -> Seen]]
  BY <1>2
<1>4. Root \in Seen
  BY DEF Seen, Places
<1>5. \A i \in 1 .. len : \A d \in Seen : Step[i][d] = Index(f, d, path.letters[i])
  OBVIOUS
<1> HIDE DEF Step
<1>6. PICK v : IsLoop(v, Seen, Root, len, Step)
  BY <1>1, <1>3, <1>4, LoopExists
<1>7. v \in [0 .. len -> Seen] /\ v[0] = Root /\ \A i \in 1 .. len : v[i] = Step[i][v[i - 1]]
  BY <1>6 DEF IsLoop
<1>8. TopIs(f, path, v)
  <2>1. \A i \in 1 .. len : v[i - 1] \in Seen
    BY <1>1, <1>7
  <2>2. \A i \in 1 .. len : v[i] = Index(f, v[i - 1], path.letters[i])
    BY <1>5, <1>7, <2>1
  <2>3. \A i \in 0 .. len : v[i] = IF i = 0 THEN Root ELSE Index(f, v[i - 1], path.letters[i])
    BY <1>1, <1>7, <2>2
  <2>4. v = [i \in 0 .. len |-> v[i]]
    BY <1>7
  <2>5. [i \in 0 .. len |-> v[i]]
          = [i \in 0 .. len |-> IF i = 0 THEN Root ELSE Index(f, v[i - 1], path.letters[i])]
    BY <2>3
  <2>6. QED
    BY <2>4, <2>5, Zenon DEF TopIs, len
<1>9. TopIs(f, path, top)
  BY <1>8 DEF TopOf
<1> HIDE DEF top
<1>10. \A i \in 0 .. len : top[i] = IF i = 0 THEN Root ELSE Index(f, top[i - 1], path.letters[i])
  BY <1>9 DEF TopIs, len
<1>11. /\ top[0] = Root
       /\ \A i \in 1 .. len : top[i] = Index(f, top[i - 1], path.letters[i])
  <2>1. 0 \in 0 .. len /\ \A i \in 1 .. len : i \in 0 .. len /\ i # 0
    BY <1>1
  <2>2. QED
    BY <1>10, <2>1
<1>12. \A i \in 0 .. len : top[i] \in Seen
  <2> DEFINE P == {i \in 0 .. len : top[i] \in Seen}
  <2>1. 0 \in P
    BY <1>1, <1>4, <1>11
  <2>2. ASSUME NEW i \in 1 .. len, i - 1 \in P PROVE i \in P
    BY <1>1, <1>2, <1>11, <2>2
  <2> HIDE DEF P
  <2>3. \A i \in 0 .. len : i \in P
    BY <1>1, <2>1, <2>2, UpTo
  <2>4. QED
    BY <2>3 DEF P
<1>13. QED
  BY <1>11, <1>12 DEF top, len, Seen

\* The loop over the names.
LEMMA AtSteps ==
  ASSUME NEW f, FsType(f), NEW path \in Path
  PROVE  LET at == AtOf(f, path) IN
         /\ at[0] = TopOf(f, path)[Len(path.letters)]
         /\ \A i \in 1 .. Len(path.names) : at[i] = Further(f, path, i, at[i - 1])
         /\ \A i \in 0 .. Len(path.names) : at[i] \in {Null, Wild} \cup Places(f)
<1> DEFINE len == Len(path.names)
           start == TopOf(f, path)[Len(path.letters)]
           Seen == {Null, Wild} \cup Places(f)
           Step == [i \in 1 .. len |-> [d \in Seen |-> Further(f, path, i, d)]]
           at == AtOf(f, path)
<1>1. len \in Nat
  BY DEF Path
<1>2. \A i \in 1 .. len : \A d \in Seen : Further(f, path, i, d) \in Seen
  <2> SUFFICES ASSUME NEW i \in 1 .. len, NEW d \in Seen PROVE Further(f, path, i, d) \in Seen
    OBVIOUS
  <2>1. d \in Places(f) => Down(f, d, path.names[i]) \in {Null, Wild} \cup Created(f)
    BY DownLeads
  <2>2. QED
    BY <2>1 DEF Further, Places
<1>3. Step \in [1 .. len -> [Seen -> Seen]]
  BY <1>2
<1>4. start \in Seen
  <2>1. Len(path.letters) \in 0 .. Len(path.letters)
    BY DEF Path
  <2>2. QED
    BY <2>1, TopSteps
<1> HIDE DEF len, Seen, start
<1>5. \A i \in 1 .. len : \A d \in Seen : Step[i][d] = Further(f, path, i, d)
  OBVIOUS
<1> HIDE DEF Step
<1>6. PICK v : IsLoop(v, Seen, start, len, Step)
  BY <1>1, <1>3, <1>4, LoopExists
<1>7. v \in [0 .. len -> Seen] /\ v[0] = start /\ \A i \in 1 .. len : v[i] = Step[i][v[i - 1]]
  BY <1>6 DEF IsLoop
<1>8. AtIs(f, path, v)
  <2>1. \A i \in 1 .. len : v[i - 1] \in Seen
    BY <1>1, <1>7
  <2>2. \A i \in 1 .. len : v[i] = Further(f, path, i, v[i - 1])
    BY <1>5, <1>7, <2>1
  <2>3. \A i \in 0 .. len : v[i] = IF i = 0 THEN start ELSE Further(f, path, i, v[i - 1])
    BY <1>1, <1>7, <2>2
  <2>4. v = [i \in 0 .. len |-> v[i]]
    BY <1>7
  <2>5. [i \in 0 .. len |-> v[i]]
          = [i \in 0 .. len |-> IF i = 0 THEN start ELSE Further(f, path, i, v[i - 1])]
    BY <2>3
  <2>6. QED
    BY <2>4, <2>5, Zenon DEF AtIs, len, start
<1>9. AtIs(f, path, at)
  BY <1>8 DEF AtOf
<1> HIDE DEF at
<1>10. \A i \in 0 .. len : at[i] = IF i = 0 THEN start ELSE Further(f, path, i, at[i - 1])
  BY <1>9 DEF AtIs, len, start
<1>11. /\ at[0] = start
       /\ \A i \in 1 .. len : at[i] = Further(f, path, i, at[i - 1])
  <2>1. 0 \in 0 .. len /\ \A i \in 1 .. len : i \in 0 .. len /\ i # 0
    BY <1>1
  <2>2. QED
    BY <1>10, <2>1
<1>12. \A i \in 0 .. len : at[i] \in Seen
  <2> DEFINE P == {i \in 0 .. len : at[i] \in Seen}
  <2>1. 0 \in P
    BY <1>1, <1>4, <1>11
  <2>2. ASSUME NEW i \in 1 .. len, i - 1 \in P PROVE i \in P
    BY <1>1, <1>2, <1>11, <2>2
  <2> HIDE DEF P
  <2>3. \A i \in 0 .. len : i \in P
    BY <1>1, <2>1, <2>2, UpTo
  <2>4. QED
    BY <2>3 DEF P
<1>13. QED
  BY <1>11, <1>12 DEF at, len, start, Seen

\* A path leads to a node, nowhere, or through a stale pointer.
LEMMA ResolutionLeads ==
  ASSUME NEW f, FsType(f), NEW path \in Path
  PROVE  KeResolveFsPath(f, path) \in {Null, Wild} \cup Places(f)
<1>1. Len(path.names) \in 0 .. Len(path.names)
  BY DEF Path
<1>2. QED
  BY <1>1, AtSteps, ResolutionMeans

----------------------------------------------------------------------------
(* What the operations do to the file system. *)

AddsNode(f, g, name, parent) ==
  g = [f EXCEPT !.nodes = Append(@, [name |-> name, driver |-> 0]),
                !.children = KeAddFsNodeChild(f, parent, Len(f.nodes) + 1)]
AddsDriver(f, g, callbacks) ==
  g = [f EXCEPT !.drivers = Append(@, [callbacks |-> callbacks, nodes |-> << >>])]
SetsDriver(f, g, n, d) == g = [f EXCEPT !.nodes[n].driver = d]
SetsNodes(f, g, d, list) == g = [f EXCEPT !.drivers[d].nodes = list]

\* A list of some things is a list of more things.
LEMMA WiderSeq ==
  ASSUME NEW A, NEW B, A \subseteq B, NEW s \in Seq(A)
  PROVE  s \in Seq(B)
  OBVIOUS

\* A new node comes last, has no children, and hangs under its parent; all else stays.
LEMMA NodeCreated ==
  ASSUME NEW f, Sound(f), NEW name \in Names, NEW parent \in Places(f), NEW g,
         AddsNode(f, g, name, parent)
  PROVE  /\ Sound(g) /\ g.drivers = f.drivers
         /\ Len(g.nodes) = Len(f.nodes) + 1 /\ Created(g) = Created(f) \cup {Len(f.nodes) + 1}
         /\ \A n \in Created(f) : g.nodes[n] = f.nodes[n]
         /\ \A n \in Places(f) : g.children[n] =
               IF n = parent THEN Append(f.children[n], Len(f.nodes) + 1) ELSE f.children[n]
         /\ g.children[Len(f.nodes) + 1] = << >>
<1> DEFINE new == Len(f.nodes) + 1
           R == [name : Names, driver : 0 .. Len(f.drivers)]
           node == [name |-> name, driver |-> 0]
<1>1. /\ g.nodes = Append(f.nodes, node) /\ g.children = KeAddFsNodeChild(f, parent, new)
      /\ g.drivers = f.drivers /\ DOMAIN g = DOMAIN f
  BY DEF Sound, AddsNode
<1>2. /\ f.nodes \in Seq(R) /\ Len(f.nodes) \in Nat /\ node \in R
      /\ DOMAIN f.children = Places(f)
      /\ f.drivers \in Seq([callbacks : Kinds, nodes : Seq(Created(f) \cup {Null})])
  <2>1. 0 \in 0 .. Len(f.drivers)
    BY FsParts DEF Sound
  <2>2. QED
    BY <2>1, FsParts DEF Sound, FsType, Places
<1> HIDE DEF R, node
<1>3. /\ g.nodes \in Seq(R) /\ Len(g.nodes) = new
      /\ \A n \in 1 .. Len(f.nodes) : g.nodes[n] = f.nodes[n]
  BY <1>1, <1>2
<1>4. Created(g) = Created(f) \cup {new} /\ new \notin Places(f)
  BY <1>2, <1>3 DEF Created, Places, Root
<1>5. /\ DOMAIN g.children = Places(g)
      /\ \A n \in Places(f) : g.children[n] =
            IF n = parent THEN Append(f.children[n], new) ELSE f.children[n]
      /\ g.children[new] = << >>
  BY <1>1, <1>2, <1>4 DEF KeAddFsNodeChild, Places
<1>6. \A n \in DOMAIN g.children : g.children[n] \in Seq(Created(g))
  <2> HIDE DEF new
  <2> SUFFICES ASSUME NEW n \in Places(g) PROVE g.children[n] \in Seq(Created(g))
    BY <1>5
  <2>1. CASE n = new
    <3>1. g.children[new] = << >>
      BY <1>5
    <3>2. << >> \in Seq(Created(g))
      OBVIOUS
    <3>3. QED
      BY <2>1, <3>1, <3>2
  <2>2. CASE n # new
    <3>1. n \in Places(f)
      BY <1>4, <2>2 DEF Places
    <3>2. f.children[n] \in Seq(Created(g))
      <4>1. f.children[n] \in Seq(Created(f)) /\ Created(f) \subseteq Created(g)
        BY <1>4, <3>1, FsParts DEF Sound
      <4>2. QED
        BY <4>1, WiderSeq
    <3>3. new \in Created(g)
      BY <1>4
    <3>4. Append(f.children[n], new) \in Seq(Created(g))
      BY <3>2, <3>3
    <3>5. QED
      BY <1>5, <3>1, <3>2, <3>4
  <2>3. QED
    BY <2>1, <2>2
<1>7. g.drivers \in Seq([callbacks : Kinds, nodes : Seq(Created(g) \cup {Null})])
  <2>1. Seq(Created(f) \cup {Null}) \subseteq Seq(Created(g) \cup {Null})
    <3>1. Created(f) \cup {Null} \subseteq Created(g) \cup {Null}
      BY <1>4
    <3>2. QED
      BY <3>1, WiderSeq
  <2> DEFINE A == [callbacks : Kinds, nodes : Seq(Created(f) \cup {Null})]
             B == [callbacks : Kinds, nodes : Seq(Created(g) \cup {Null})]
  <2>2. A \subseteq B /\ g.drivers \in Seq(A)
    BY <1>1, <1>2, <2>1
  <2> HIDE DEF A, B
  <2>3. g.drivers \in Seq(B)
    BY <2>2, WiderSeq
  <2>4. QED
    BY <2>3 DEF B
<1>8. FsType(g)
  BY <1>1, <1>3, <1>5, <1>6, <1>7 DEF FsType, R, Places
<1>9. QED
  BY <1>1, <1>3, <1>4, <1>5, <1>8 DEF Sound, Created

\* A new driver comes last; nodes stay.
LEMMA DriverCreated ==
  ASSUME NEW f, Sound(f), NEW callbacks \in Kinds, NEW g, AddsDriver(f, g, callbacks)
  PROVE  Sound(g) /\ g.nodes = f.nodes /\ g.children = f.children
<1> DEFINE Q == [callbacks : Kinds, nodes : Seq(Created(f) \cup {Null})]
           driver == [callbacks |-> callbacks, nodes |-> << >>]
<1>1. /\ g.drivers = Append(f.drivers, driver) /\ g.nodes = f.nodes
      /\ g.children = f.children /\ DOMAIN g = DOMAIN f
  BY DEF Sound, AddsDriver
<1>2. f.drivers \in Seq(Q) /\ driver \in Q /\ Len(f.drivers) \in Nat
  BY DEF Sound, FsType
<1> HIDE DEF driver
<1>3. g.drivers \in Seq(Q) /\ Len(g.drivers) = Len(f.drivers) + 1
  <2> HIDE DEF Q
  <2>1. QED
    BY <1>1, <1>2
<1>4. g.nodes \in Seq([name : Names, driver : 0 .. Len(g.drivers)])
  <2>1. 0 .. Len(f.drivers) \subseteq 0 .. Len(g.drivers)
    BY <1>2, <1>3
  <2> DEFINE A == [name : Names, driver : 0 .. Len(f.drivers)]
             B == [name : Names, driver : 0 .. Len(g.drivers)]
  <2>2. A \subseteq B
    BY <2>1
  <2>3. g.nodes \in Seq(A)
    BY <1>1 DEF Sound, FsType
  <2> HIDE DEF A, B
  <2>4. g.nodes \in Seq(B)
    BY <2>2, <2>3, WiderSeq
  <2>5. QED
    BY <2>4 DEF B
<1>5. Created(g) = Created(f)
  BY <1>1 DEF Created
<1>6. FsType(g)
  BY <1>1, <1>3, <1>4, <1>5 DEF Sound, FsType
<1>7. QED
  BY <1>1, <1>6 DEF Sound

\* A node gets a driver of the table; names, children and callbacks stay.
LEMMA DriverSet ==
  ASSUME NEW f, Sound(f), NEW n \in Created(f), NEW d \in 1 .. Len(f.drivers), NEW g,
         SetsDriver(f, g, n, d)
  PROVE  /\ Sound(g) /\ g.children = f.children /\ g.drivers = f.drivers
         /\ Len(g.nodes) = Len(f.nodes)
         /\ \A m \in Created(f) : /\ g.nodes[m].name = f.nodes[m].name
                                  /\ g.nodes[m].driver = IF m = n THEN d ELSE f.nodes[m].driver
<1> DEFINE R == [name : Names, driver : 0 .. Len(f.drivers)]
           node == [f.nodes[n] EXCEPT !.driver = d]
<1>1. /\ g.nodes = [f.nodes EXCEPT ![n] = node] /\ g.drivers = f.drivers
      /\ g.children = f.children /\ DOMAIN g = DOMAIN f
  BY DEF Sound, SetsDriver
<1>2. f.nodes \in Seq(R) /\ f.nodes[n] \in R /\ d \in 0 .. Len(f.drivers) /\ DOMAIN f.nodes = Created(f)
  <2>1. f.nodes \in Seq(R)
    BY DEF Sound, FsType
  <2>2. QED
    BY <2>1, FsParts DEF Sound
<1>3. node \in R /\ node.name = f.nodes[n].name /\ node.driver = d
  BY <1>2
<1> HIDE DEF R, node
<1>4. g.nodes \in Seq(R) /\ Len(g.nodes) = Len(f.nodes)
  BY <1>1, <1>2, <1>3
<1>5. \A m \in Created(f) : g.nodes[m] = IF m = n THEN node ELSE f.nodes[m]
  BY <1>1, <1>2
<1>6. Created(g) = Created(f)
  BY <1>4 DEF Created
<1>7. FsType(g)
  BY <1>1, <1>4, <1>6 DEF Sound, FsType, R
<1>8. QED
  BY <1>1, <1>3, <1>4, <1>5, <1>7 DEF Sound

\* The list of a driver's nodes is replaced; no node changes.
LEMMA DriverNodesSet ==
  ASSUME NEW f, Sound(f), NEW d \in 1 .. Len(f.drivers), NEW list \in Seq(Created(f) \cup {Null}),
         NEW g, SetsNodes(f, g, d, list)
  PROVE  Sound(g) /\ g.nodes = f.nodes /\ g.children = f.children /\ Len(g.drivers) = Len(f.drivers)
         /\ \A e \in 1 .. Len(f.drivers) : g.drivers[e].callbacks = f.drivers[e].callbacks
<1> DEFINE Q == [callbacks : Kinds, nodes : Seq(Created(f) \cup {Null})]
           driver == [f.drivers[d] EXCEPT !.nodes = list]
<1>1. /\ g.drivers = [f.drivers EXCEPT ![d] = driver] /\ g.nodes = f.nodes
      /\ g.children = f.children /\ DOMAIN g = DOMAIN f
  BY DEF Sound, SetsNodes
<1>2. f.drivers \in Seq(Q) /\ f.drivers[d] \in Q /\ DOMAIN f.drivers = 1 .. Len(f.drivers)
  <2>1. f.drivers \in Seq(Q)
    BY DEF Sound, FsType
  <2> HIDE DEF Q
  <2>2. QED
    BY <2>1
<1>3. driver \in Q /\ driver.callbacks = f.drivers[d].callbacks
  BY <1>2
<1> HIDE DEF Q, driver
<1>4. g.drivers \in Seq(Q) /\ Len(g.drivers) = Len(f.drivers)
  BY <1>1, <1>2, <1>3
<1>5. \A e \in 1 .. Len(f.drivers) : g.drivers[e] = IF e = d THEN driver ELSE f.drivers[e]
  BY <1>1, <1>2
<1>6. Created(g) = Created(f)
  BY <1>1 DEF Created
<1>7. FsType(g)
  BY <1>1, <1>4, <1>6 DEF Sound, FsType, Q
<1>8. QED
  BY <1>1, <1>3, <1>4, <1>5, <1>7 DEF Sound

----------------------------------------------------------------------------
(* The write buffer.  Its count is never reset, so it counts all bytes     *)
(* written through the handle; those before the pending ones are junk.     *)

Bytes == {"a", "b"}
Meant(h, i) == IF i <= h.past THEN Junk ELSE h.pending[i - h.past]
HandleFields == {"node", "buffered", "buf", "size", "pending", "past", "up"}
Buffer(h) ==
  /\ HandleFields \subseteq DOMAIN h
  /\ h.past \in Nat /\ h.pending \in Seq(Bytes) /\ h.size = h.past + Len(h.pending)
  /\ h.buf \in Seq(Bytes \cup {Junk}) /\ h.up \in BOOLEAN
  /\ h.buf = << >> => h.pending = << >>
  /\ h.buf # << >> =>
       /\ Len(h.buf) = h.size
       /\ \A i \in 1 .. h.size : h.buf[i] = Meant(h, i) \/ (i = 1 /\ h.up /\ h.buf[i] = Junk)

\* A handle just opened has nothing buffered.
LEMMA BufferOpened ==
  ASSUME NEW n, NEW buffered
  PROVE  Buffer([node |-> n, buffered |-> buffered, buf |-> << >>, size |-> 0,
                 pending |-> << >>, past |-> 0, up |-> FALSE])
  BY DEF Buffer, HandleFields

\* A flush, and a write that finds no memory, leave an empty buffer but its count.
LEMMA BufferEmptied ==
  ASSUME NEW h, Buffer(h), NEW g,
         g = [h EXCEPT !.buf = << >>, !.pending = << >>, !.past = @ + Len(h.pending)]
  PROVE  Buffer(g) /\ g.node = h.node
<1>1. /\ DOMAIN g = DOMAIN h /\ g.buf = << >> /\ g.pending = << >> /\ g.past = h.past + Len(h.pending)
      /\ g.size = h.size /\ g.up = h.up /\ g.node = h.node
  BY DEF Buffer, HandleFields
<1>2. h.past + Len(h.pending) \in Nat /\ h.size = h.past + Len(h.pending) /\ h.up \in BOOLEAN
  BY DEF Buffer
<1>3. Len(<< >>) = 0 /\ << >> \in Seq(Bytes) /\ << >> \in Seq(Bytes \cup {Junk})
  OBVIOUS
<1>4. QED
  BY <1>1, <1>2, <1>3 DEF Buffer

\* What a new buffer, or one that has moved, holds in front of the next byte.
Moved(h, up) == [i \in 1 .. h.size |-> IF up /\ i = 1 THEN Junk ELSE Fresh(h.buf, h.size)[i]]

Appends(h, g, byte) ==
  \E up \in {FALSE, h.buf # << >>} :
    g = [h EXCEPT !.buf = Append(Moved(h, up), byte), !.size = @ + 1,
                  !.pending = Append(@, byte), !.up = @ \/ up]

\* A write appends the byte, in a buffer that may have lost its first one.
LEMMA BufferAppended ==
  ASSUME NEW h, Buffer(h), NEW byte \in Bytes, NEW g, Appends(h, g, byte)
  PROVE  Buffer(g) /\ g.node = h.node
<1>0. PICK up \in {FALSE, h.buf # << >>} :
        g = [h EXCEPT !.buf = Append(Moved(h, up), byte), !.size = @ + 1,
                      !.pending = Append(@, byte), !.up = @ \/ up]
  BY DEF Appends
<1> DEFINE moved == Moved(h, up)
<1>1. /\ DOMAIN g = DOMAIN h /\ g.buf = Append(moved, byte) /\ g.size = h.size + 1
      /\ g.pending = Append(h.pending, byte) /\ g.up = (h.up \/ up)
      /\ g.past = h.past /\ g.node = h.node
  BY <1>0 DEF Buffer, HandleFields
<1>2. /\ h.past \in Nat /\ h.pending \in Seq(Bytes) /\ h.size = h.past + Len(h.pending)
      /\ h.size \in Nat /\ Len(h.pending) \in Nat /\ h.up \in BOOLEAN /\ up \in BOOLEAN
  <2>1. up \in BOOLEAN
    BY Zenon
  <2>2. QED
    BY <2>1 DEF Buffer
<1>3. /\ g.pending \in Seq(Bytes) /\ Len(g.pending) = Len(h.pending) + 1
      /\ g.pending[Len(h.pending) + 1] = byte
      /\ \A i \in 1 .. Len(h.pending) : g.pending[i] = h.pending[i]
  BY <1>1, <1>2
<1>4. \A i \in 1 .. h.size : Meant(g, i) = Meant(h, i)
  <2> TAKE i \in 1 .. h.size
  <2>1. i > h.past => i - h.past \in 1 .. Len(h.pending)
    BY <1>2
  <2>2. QED
    BY <1>1, <1>2, <1>3, <2>1 DEF Meant
<1>5. Meant(g, h.size + 1) = byte
  <2>1. ~(h.size + 1 <= h.past) /\ (h.size + 1) - h.past = Len(h.pending) + 1
    BY <1>2
  <2>2. QED
    BY <1>1, <1>3, <2>1 DEF Meant
<1>6. \A i \in 1 .. h.size :
        /\ moved[i] = Meant(h, i) \/ (i = 1 /\ (h.up \/ up) /\ moved[i] = Junk)
        /\ moved[i] \in Bytes \cup {Junk}
  <2> SUFFICES ASSUME NEW i \in 1 .. h.size
               PROVE  /\ moved[i] = Meant(h, i) \/ (i = 1 /\ (h.up \/ up) /\ moved[i] = Junk)
                      /\ moved[i] \in Bytes \cup {Junk}
    OBVIOUS
  <2>1. moved[i] = IF up /\ i = 1 THEN Junk ELSE Fresh(h.buf, h.size)[i]
    BY DEF Moved
  <2>2. CASE h.buf = << >>
    <3>1. Fresh(h.buf, h.size)[i] = Junk
      BY <2>2 DEF Fresh
    <3>2. Meant(h, i) = Junk
      <4>1. Len(h.pending) = 0
        BY <2>2 DEF Buffer
      <4>2. QED
        BY <1>2, <4>1 DEF Meant
    <3>3. QED
      BY <2>1, <3>1, <3>2
  <2>3. CASE h.buf # << >>
    <3>1. Fresh(h.buf, h.size)[i] = h.buf[i]
      BY <2>3 DEF Fresh
    <3>2. h.buf[i] = Meant(h, i) \/ (i = 1 /\ h.up /\ h.buf[i] = Junk)
      BY <2>3 DEF Buffer
    <3>3. h.buf[i] \in Bytes \cup {Junk}
      BY <2>3 DEF Buffer
    <3>4. QED
      BY <2>1, <3>1, <3>2, <3>3
  <2>4. QED
    BY <2>2, <2>3
<1>7. /\ moved \in Seq(Bytes \cup {Junk}) /\ Len(moved) = h.size
  <2>1. moved = [i \in 1 .. h.size |-> moved[i]]
    BY DEF Moved
  <2> HIDE DEF moved
  <2>2. moved \in [1 .. h.size -> Bytes \cup {Junk}]
    BY <1>6, <2>1
  <2>3. QED
    BY <1>2, <2>2
<1> HIDE DEF moved
<1>8. /\ g.buf \in Seq(Bytes \cup {Junk}) /\ Len(g.buf) = h.size + 1 /\ g.buf # << >>
      /\ g.buf[h.size + 1] = byte /\ \A i \in 1 .. h.size : g.buf[i] = moved[i]
  <2> DEFINE B == Bytes \cup {Junk}
  <2>1. byte \in B /\ moved \in Seq(B) /\ g.buf = Append(moved, byte)
    BY <1>1, <1>7
  <2> HIDE DEF B
  <2>2. /\ Append(moved, byte) \in Seq(B) /\ Len(Append(moved, byte)) = Len(moved) + 1
        /\ Append(moved, byte)[Len(moved) + 1] = byte
        /\ \A i \in 1 .. Len(moved) : Append(moved, byte)[i] = moved[i]
    BY <2>1
  <2>3. g.buf # << >>
    BY <1>2, <1>7, <2>1, <2>2
  <2>4. QED
    BY <1>7, <2>1, <2>2, <2>3 DEF B
<1>9. \A i \in 1 .. g.size : g.buf[i] = Meant(g, i) \/ (i = 1 /\ g.up /\ g.buf[i] = Junk)
  <2> TAKE i \in 1 .. g.size
  <2>1. i \in 1 .. h.size \/ i = h.size + 1
    BY <1>1, <1>2
  <2>2. CASE i \in 1 .. h.size
    BY <1>1, <1>4, <1>6, <1>8, <2>2
  <2>3. CASE i = h.size + 1
    BY <1>5, <1>8, <2>3
  <2>4. QED
    BY <2>1, <2>2, <2>3
<1>10. g.size = g.past + Len(g.pending) /\ g.up \in BOOLEAN
  BY <1>1, <1>2, <1>3
<1>11. HandleFields \subseteq DOMAIN g
  BY <1>1 DEF Buffer
<1>12. QED
  BY <1>1, <1>2, <1>3, <1>8, <1>9, <1>10, <1>11 DEF Buffer

----------------------------------------------------------------------------
(* The invariant. *)

\* Place i of the children of p is the only one where n hangs.
HangsAt(f, n, p, i) ==
  \A q \in DOMAIN f.children : \A j \in DOMAIN f.children[q] :
    (f.children[q][j] = n) <=> (q = p /\ j = i)
Tree(f) ==
  \A n \in Created(f) : \E p \in 0 .. n - 1 : \E i \in DOMAIN f.children[p] : HangsAt(f, n, p, i)

HandleIsOpen(f, h) ==
  h # Closed => h.node \in Created(f) /\ DriverOf(f, h.node) # 0 /\ Buffer(h)

IInv ==
  /\ Sound(fs) /\ Tree(fs)
  /\ HandleIsOpen(fs, handle)
  /\ stopped \in {"", "panic", "wild"}

\* A node that is created under an older one keeps the tree.
LEMMA TreeGrows ==
  ASSUME NEW f, Sound(f), Tree(f), NEW name \in Names, NEW parent \in Places(f), NEW g,
         AddsNode(f, g, name, parent)
  PROVE  Tree(g)
<1> DEFINE new == Len(f.nodes) + 1
<1>1. /\ Len(f.nodes) \in Nat /\ DOMAIN f.children = Places(f) /\ Places(f) = 0 .. Len(f.nodes)
      /\ Created(f) = 1 .. Len(f.nodes)
      /\ \A n \in Places(f) :
           /\ f.children[n] \in Seq(Created(f)) /\ Len(f.children[n]) \in Nat
           /\ DOMAIN f.children[n] = 1 .. Len(f.children[n])
           /\ \A i \in 1 .. Len(f.children[n]) : f.children[n][i] \in Created(f)
  <2>1. Len(f.nodes) \in Nat /\ Created(f) = 1 .. Len(f.nodes)
    BY FsParts DEF Sound, Created
  <2>2. Places(f) = 0 .. Len(f.nodes)
    BY <2>1 DEF Places, Root
  <2>3. QED
    BY <2>1, <2>2, FsParts DEF Sound
<1>2. /\ Sound(g) /\ Created(g) = Created(f) \cup {new} /\ DOMAIN g.children = Places(f) \cup {new}
      /\ \A n \in Places(f) : g.children[n] =
            IF n = parent THEN Append(f.children[n], new) ELSE f.children[n]
      /\ g.children[new] = << >>
  <2>1. Sound(g) /\ Created(g) = Created(f) \cup {new}
    BY NodeCreated
  <2>2. DOMAIN g.children = Places(g)
    BY <2>1, FsParts DEF Sound
  <2>3. QED
    BY <2>1, <2>2, NodeCreated DEF Places
<1>3. new \in Nat /\ new \notin Places(f) /\ new \notin Created(f) /\ new # 0
  BY <1>1 DEF Places, Created
<1>b. parent \in 0 .. new - 1
  BY <1>1
<1> HIDE DEF new
<1>4. /\ Len(g.children[parent]) = Len(f.children[parent]) + 1
      /\ DOMAIN g.children[parent] = 1 .. Len(f.children[parent]) + 1
      /\ g.children[parent][Len(f.children[parent]) + 1] = new
      /\ \A i \in 1 .. Len(f.children[parent]) : g.children[parent][i] = f.children[parent][i]
  <2> DEFINE s == f.children[parent]
             C == Created(f) \cup {new}
  <2>1. s \in Seq(C) /\ new \in C
    <3>1. s \in Seq(Created(f)) /\ Created(f) \subseteq C
      BY <1>1
    <3>2. QED
      BY <3>1, WiderSeq
  <2>2. g.children[parent] = Append(s, new)
    BY <1>2
  <2> HIDE DEF s, C
  <2>3. QED
    BY <2>1, <2>2 DEF s
<1>5. \A q \in Places(f) : \A j \in DOMAIN f.children[q] :
        /\ j \in DOMAIN g.children[q] /\ g.children[q][j] = f.children[q][j]
        /\ f.children[q][j] \in Created(f)
  <2> SUFFICES ASSUME NEW q \in Places(f), NEW j \in DOMAIN f.children[q]
               PROVE  /\ j \in DOMAIN g.children[q] /\ g.children[q][j] = f.children[q][j]
                      /\ f.children[q][j] \in Created(f)
    OBVIOUS
  <2>1. j \in 1 .. Len(f.children[q]) /\ Len(f.children[q]) \in Nat /\ f.children[q][j] \in Created(f)
    BY <1>1
  <2>2. CASE q = parent
    <3>1. j \in 1 .. Len(f.children[parent]) + 1 /\ j \in 1 .. Len(f.children[parent])
      BY <2>1, <2>2
    <3>2. QED
      BY <1>4, <2>1, <2>2, <3>1
  <2>3. CASE q # parent
    BY <1>2, <2>1, <2>3
  <2>4. QED
    BY <2>2, <2>3
<1>6. \A q \in DOMAIN g.children : \A j \in DOMAIN g.children[q] :
        \/ q \in Places(f) /\ j \in DOMAIN f.children[q]
        \/ q = parent /\ j = Len(f.children[parent]) + 1
  <2> SUFFICES ASSUME NEW q \in DOMAIN g.children, NEW j \in DOMAIN g.children[q]
               PROVE  \/ q \in Places(f) /\ j \in DOMAIN f.children[q]
                      \/ q = parent /\ j = Len(f.children[parent]) + 1
    OBVIOUS
  <2>1. q # new
    <3>1. DOMAIN << >> = {}
      OBVIOUS
    <3>2. QED
      BY <1>2, <3>1
  <2>2. q \in Places(f)
    BY <1>2, <2>1
  <2>3. CASE q = parent
    <3>1. j \in 1 .. Len(f.children[parent]) + 1 /\ Len(f.children[parent]) \in Nat
      BY <1>1, <1>4, <2>3
    <3>2. j \in 1 .. Len(f.children[parent]) \/ j = Len(f.children[parent]) + 1
      BY <3>1
    <3>3. QED
      BY <1>1, <2>3, <3>2
  <2>4. CASE q # parent
    BY <1>2, <2>2, <2>4
  <2>5. QED
    BY <2>3, <2>4
<1>7. ASSUME NEW n \in Created(f)
      PROVE  \E p \in 0 .. n - 1 : \E i \in DOMAIN g.children[p] : HangsAt(g, n, p, i)
  <2>1. PICK p \in 0 .. n - 1 : \E i \in DOMAIN f.children[p] : HangsAt(f, n, p, i)
    BY DEF Tree
  <2>2. PICK i \in DOMAIN f.children[p] : HangsAt(f, n, p, i)
    BY <2>1
  <2>3. p \in Places(f)
    BY <1>1 DEF Created
  <2>4. i \in DOMAIN g.children[p]
    BY <1>5, <2>3
  <2>5. n # new
    BY <1>3
  <2>6. HangsAt(g, n, p, i)
    <3> SUFFICES ASSUME NEW q \in DOMAIN g.children, NEW j \in DOMAIN g.children[q]
                 PROVE  (g.children[q][j] = n) <=> (q = p /\ j = i)
      BY DEF HangsAt
    <3>1. CASE q \in Places(f) /\ j \in DOMAIN f.children[q]
      <4>1. g.children[q][j] = f.children[q][j]
        BY <1>5, <3>1
      <4>2. (f.children[q][j] = n) <=> (q = p /\ j = i)
        BY <1>1, <2>2, <3>1 DEF HangsAt
      <4>3. QED
        BY <4>1, <4>2
    <3>2. CASE q = parent /\ j = Len(f.children[parent]) + 1
      <4>1. g.children[q][j] = new
        BY <1>4, <3>2
      <4>2. j \notin DOMAIN f.children[parent]
        BY <1>1, <3>2
      <4>3. ~(q = p /\ j = i)
        BY <3>2, <4>2
      <4>4. QED
        BY <2>5, <4>1, <4>3
    <3>3. QED
      BY <1>6, <3>1, <3>2
  <2>7. QED
    BY <2>4, <2>6
<1>8. \E p \in 0 .. new - 1 : \E i \in DOMAIN g.children[p] : HangsAt(g, new, p, i)
  <2> DEFINE i == Len(f.children[parent]) + 1
  <2>1. i \in DOMAIN g.children[parent]
    BY <1>1, <1>4
  <2>2. HangsAt(g, new, parent, i)
    <3> SUFFICES ASSUME NEW q \in DOMAIN g.children, NEW j \in DOMAIN g.children[q]
                 PROVE  (g.children[q][j] = new) <=> (q = parent /\ j = i)
      BY DEF HangsAt
    <3>1. CASE q \in Places(f) /\ j \in DOMAIN f.children[q]
      <4>1. g.children[q][j] # new
        BY <1>3, <1>5, <3>1
      <4>2. ~(q = parent /\ j = i)
        BY <1>1, <3>1
      <4>3. QED
        BY <4>1, <4>2
    <3>2. CASE q = parent /\ j = i
      BY <1>4, <3>2
    <3>3. QED
      BY <1>6, <3>1, <3>2
  <2>3. QED
    BY <1>b, <2>1, <2>2
<1>9. QED
  BY <1>2, <1>7, <1>8 DEF Tree

\* A created node is not the root, so it may have a driver.
LEMMA DriverOfCreated ==
  ASSUME NEW f, NEW n \in Created(f)
  PROVE  DriverOf(f, n) = f.nodes[n].driver /\ n # Root
  BY DEF DriverOf, Created, Root

\* Where nodes stay and keep their drivers, a handle stays open.
LEMMA HandleStays ==
  ASSUME NEW f, NEW g, NEW h, HandleIsOpen(f, h),
         \A n \in Created(f) : n \in Created(g) /\ (f.nodes[n].driver # 0 => g.nodes[n].driver # 0)
  PROVE  HandleIsOpen(g, h)
  BY DriverOfCreated DEF HandleIsOpen

\* The same children under as many nodes are the same tree.
LEMMA TreeStays ==
  ASSUME NEW f, NEW g, Tree(f), g.children = f.children, Len(g.nodes) = Len(f.nodes)
  PROVE  Tree(g)
<1>1. Created(g) = Created(f)
  BY DEF Created
<1>2. \A n, p, i : HangsAt(f, n, p, i) => HangsAt(g, n, p, i)
  BY DEF HangsAt
<1>3. QED
  BY <1>1, <1>2 DEF Tree

\* At first there is only the root, and no handle is open.
LEMMA InitIInv == Init => IInv
<1> SUFFICES ASSUME Init PROVE IInv
  OBVIOUS
<1>1. /\ fs.nodes = << >> /\ fs.children = [n \in {Root} |-> << >>] /\ fs.drivers = << >>
      /\ {"nodes", "children", "drivers"} \subseteq DOMAIN fs
      /\ handle = Closed /\ stopped = ""
  BY DEF Init
<1>2. Created(fs) = {}
  <2>1. Len(<< >>) = 0 /\ 1 .. 0 = {}
    OBVIOUS
  <2>2. QED
    BY <1>1, <2>1 DEF Created
<1>3. FsType(fs)
  <2>1. \A S : << >> \in Seq(S)
    OBVIOUS
  <2>2. DOMAIN fs.children = {Root} \cup Created(fs) /\ fs.children[Root] = << >>
    BY <1>1, <1>2
  <2>3. QED
    BY <1>1, <1>2, <2>1, <2>2 DEF FsType
<1>4. QED
  BY <1>1, <1>2, <1>3 DEF IInv, Sound, Tree, HandleIsOpen

\* What stops the kernel changes nothing else.
LEMMA StopIInv ==
  ASSUME IInv, NEW why \in {"panic", "wild"}, Stop(why)
  PROVE  IInv'
  BY DEF IInv, Stop

\* A step that leaves the file system alone.
LEMMA HandleStep ==
  ASSUME IInv, UNCHANGED <<fs, stopped>>, HandleIsOpen(fs, handle')
  PROVE  IInv'
  BY DEF IInv

\* A step that changes nothing but the file system.
LEMMA FsStep ==
  ASSUME IInv, UNCHANGED <<handle, stopped>>, Sound(fs'), Tree(fs'), HandleIsOpen(fs', handle)
  PROVE  IInv'
  BY DEF IInv

\* A node is created under a node, or under the root.
LEMMA CreateNodeIInv ==
  ASSUME IInv, NEW path \in Paths, NEW name \in Names, KeCreateFsNode(path, name)
  PROVE  IInv'
<1> DEFINE found == KeResolveFsPath(fs, path)
           parent == IF found \in {Null, Wild} THEN Root ELSE found
<1>1. path \in Path /\ Sound(fs) /\ Tree(fs)
  BY FsAssumption DEF IInv
<1>2. parent \in Places(fs)
  BY <1>1, ResolutionLeads DEF Sound, Places
<1> HIDE DEF found
<1>3. CASE Stop("panic") \/ Stop("wild")
  BY <1>3, StopIInv
<1>4. CASE AddsNode(fs, fs', name, parent) /\ UNCHANGED <<handle, stopped>>
  <2> HIDE DEF parent
  <2>1. Sound(fs') /\ Tree(fs')
    BY <1>1, <1>2, <1>4, NodeCreated, TreeGrows
  <2>2. \A n \in Created(fs) : n \in Created(fs') /\ fs'.nodes[n] = fs.nodes[n]
    BY <1>1, <1>2, <1>4, NodeCreated
  <2>3. HandleIsOpen(fs', handle)
    BY <2>2, HandleStays DEF IInv
  <2>4. QED
    BY <1>4, <2>1, <2>3, FsStep
<1>5. QED
  BY <1>3, <1>4 DEF KeCreateFsNode, AddsNode, found

\* Drivers are added behind the others, and nodes keep theirs.
LEMMA CreateDriverIInv ==
  ASSUME IInv, NEW callbacks \in Kinds, KeCreateFsDriver(callbacks)
  PROVE  IInv'
<1>1. CASE Stop("wild")
  BY <1>1, StopIInv
<1>2. CASE AddsDriver(fs, fs', callbacks) /\ UNCHANGED <<handle, stopped>>
  <2>1. Sound(fs') /\ fs'.nodes = fs.nodes /\ fs'.children = fs.children
    BY <1>2, DriverCreated DEF IInv
  <2>2. Tree(fs')
    BY <2>1, TreeStays DEF IInv
  <2>3. \A n \in Created(fs) : n \in Created(fs') /\ (fs.nodes[n].driver # 0 => fs'.nodes[n].driver # 0)
    BY <2>1 DEF Created
  <2>4. HandleIsOpen(fs', handle)
    BY <2>3, HandleStays DEF IInv
  <2>5. QED
    BY <1>2, <2>1, <2>2, <2>4, FsStep
<1>3. QED
  BY <1>1, <1>2 DEF KeCreateFsDriver, AddsDriver

\* A node that gets a driver keeps its place in the tree.
LEMMA SetDriverStep ==
  ASSUME IInv, NEW n \in Created(fs), NEW d \in 1 .. Len(fs.drivers), SetsDriver(fs, fs', n, d),
         UNCHANGED <<handle, stopped>>
  PROVE  IInv'
<1>1. /\ Sound(fs') /\ fs'.children = fs.children /\ Len(fs'.nodes) = Len(fs.nodes)
      /\ \A m \in Created(fs) : fs'.nodes[m].driver = IF m = n THEN d ELSE fs.nodes[m].driver
  <2>1. Sound(fs)
    BY DEF IInv
  <2>2. /\ Sound(fs') /\ fs'.children = fs.children /\ fs'.drivers = fs.drivers
        /\ Len(fs'.nodes) = Len(fs.nodes)
        /\ \A m \in Created(fs) : /\ fs'.nodes[m].name = fs.nodes[m].name
                                  /\ fs'.nodes[m].driver = IF m = n THEN d ELSE fs.nodes[m].driver
    BY <2>1, DriverSet
  <2>3. QED
    BY <2>2
<1>2. Tree(fs')
  BY <1>1, TreeStays DEF IInv
<1>3. \A m \in Created(fs) : m \in Created(fs') /\ (fs.nodes[m].driver # 0 => fs'.nodes[m].driver # 0)
  BY <1>1 DEF Created
<1>4. HandleIsOpen(fs', handle)
  BY <1>3, HandleStays DEF IInv
<1>5. QED
  BY <1>1, <1>2, <1>4, FsStep

\* Where the list of a driver's nodes is lost, nodes stay as they are.
LEMMA SetNodesStep ==
  ASSUME IInv, NEW d \in 1 .. Len(fs.drivers), NEW list \in Seq(Created(fs) \cup {Null}),
         SetsNodes(fs, fs', d, list), UNCHANGED <<handle, stopped>>
  PROVE  IInv'
<1>1. Sound(fs') /\ fs'.nodes = fs.nodes /\ fs'.children = fs.children
  BY DriverNodesSet DEF IInv
<1>2. Tree(fs')
  BY <1>1, TreeStays DEF IInv
<1>3. \A m \in Created(fs) : m \in Created(fs') /\ (fs.nodes[m].driver # 0 => fs'.nodes[m].driver # 0)
  BY <1>1 DEF Created
<1>4. HandleIsOpen(fs', handle)
  BY <1>3, HandleStays DEF IInv
<1>5. QED
  BY <1>1, <1>2, <1>4, FsStep

\* The list of a driver's nodes, with one more node if it is written to the table.
LEMMA DriverListLonger ==
  ASSUME NEW f, Sound(f), NEW d \in 1 .. Len(f.drivers), NEW n \in Created(f)
  PROVE  /\ f.drivers[d].nodes \in Seq(Created(f) \cup {Null})
         /\ (IF Live(f, d) THEN Append(f.drivers[d].nodes, n) ELSE f.drivers[d].nodes)
              \in Seq(Created(f) \cup {Null})
<1> DEFINE C == Created(f) \cup {Null}
<1>1. f.drivers[d].nodes \in Seq(C)
  <2> DEFINE Q == [callbacks : Kinds, nodes : Seq(C)]
  <2>1. f.drivers \in Seq(Q)
    BY DEF Sound, FsType
  <2>2. f.drivers[d] \in Q
    <3> HIDE DEF Q
    <3>1. QED
      BY <2>1
  <2>3. QED
    BY <2>2
<1>2. n \in C
  OBVIOUS
<1> HIDE DEF C
<1>3. Append(f.drivers[d].nodes, n) \in Seq(C)
  BY <1>1, <1>2
<1>4. QED
  BY <1>1, <1>3 DEF C

\* A module hands its node to its driver, through a pointer that may be stale.
LEMMA AddToDriverIInv ==
  ASSUME IInv, NEW d \in DOMAIN fs.drivers, NEW n \in Driverless, KeAddFsNodeToDriver(d, n)
  PROVE  IInv'
<1> DEFINE mid == [fs EXCEPT !.nodes[n].driver = d]
           list == IF Live(fs, d) THEN Append(fs.drivers[d].nodes, n) ELSE fs.drivers[d].nodes
           nulls == [i \in DOMAIN fs.drivers[d].nodes |-> Null]
           C == Created(fs) \cup {Null}
<1>1. n \in Created(fs) /\ d \in 1 .. Len(fs.drivers) /\ Sound(fs)
  BY FsParts DEF Driverless, IInv, Sound
<1>2. fs.drivers[d].nodes \in Seq(C) /\ list \in Seq(C)
  BY <1>1, DriverListLonger
<1>3. nulls \in Seq(C)
  <2>1. Null \in C
    OBVIOUS
  <2> HIDE DEF C
  <2>2. QED
    BY <1>2, <2>1
<1>4. CASE Stop("wild")
  BY <1>4, StopIInv
<1>5. CASE /\ fs' = [fs EXCEPT !.nodes[n].driver = d, !.drivers[d].nodes = list]
           /\ UNCHANGED <<handle, stopped>>
  <2>1. SetsDriver(fs, mid, n, d)
    BY DEF SetsDriver
  <2>2. fs' = [mid EXCEPT !.drivers[d].nodes = list]
    BY <1>1, <1>5 DEF Sound
  <2>3. SetsNodes(mid, fs', d, list)
    BY <2>2 DEF SetsNodes
  <2> HIDE DEF mid, list
  <2>4. /\ Sound(mid) /\ mid.children = fs.children /\ mid.drivers = fs.drivers
        /\ Len(mid.nodes) = Len(fs.nodes)
        /\ \A m \in Created(fs) : /\ mid.nodes[m].name = fs.nodes[m].name
                                  /\ mid.nodes[m].driver = IF m = n THEN d ELSE fs.nodes[m].driver
    BY <1>1, <2>1, DriverSet
  <2>5. Created(mid) = Created(fs) /\ list \in Seq(Created(mid) \cup {Null}) /\ d \in 1 .. Len(mid.drivers)
    BY <1>1, <1>2, <2>4 DEF Created
  <2>6. Sound(fs') /\ fs'.nodes = mid.nodes /\ fs'.children = mid.children
    BY <2>3, <2>4, <2>5, DriverNodesSet
  <2>7. fs'.children = fs.children /\ Len(fs'.nodes) = Len(fs.nodes)
    BY <2>4, <2>6
  <2>8. Tree(fs')
    BY <2>7, TreeStays DEF IInv
  <2>9. \A m \in Created(fs) : m \in Created(fs') /\ (fs.nodes[m].driver # 0 => fs'.nodes[m].driver # 0)
    <3>1. Created(fs') = Created(fs)
      BY <2>7 DEF Created
    <3>2. d # 0
      BY <1>1
    <3>3. QED
      BY <2>4, <2>6, <3>1, <3>2
  <2>10. HandleIsOpen(fs', handle)
    BY <2>9, HandleStays DEF IInv
  <2>11. QED
    BY <1>5, <2>6, <2>8, <2>10, FsStep
<1>6. CASE fs' = [fs EXCEPT !.drivers[d].nodes = nulls] /\ UNCHANGED <<handle, stopped>>
  <2>1. SetsNodes(fs, fs', d, nulls)
    BY <1>6 DEF SetsNodes
  <2> HIDE DEF nulls
  <2>2. QED
    BY <1>1, <1>3, <1>6, <2>1, SetNodesStep
<1>7. QED
  BY <1>4, <1>5, <1>6 DEF KeAddFsNodeToDriver

\* The handle is opened on a node that has a driver, with nothing buffered.
LEMMA OpenIInv ==
  ASSUME IInv, NEW path \in Paths, NEW buffered \in BOOLEAN, KeOpenFsNode(path, buffered)
  PROVE  IInv'
<1> DEFINE n == KeResolveFsPath(fs, path)
           opened == [node |-> n, buffered |-> buffered, buf |-> << >>, size |-> 0,
                      pending |-> << >>, past |-> 0, up |-> FALSE]
<1>1. path \in Path /\ FsType(fs)
  BY FsAssumption DEF IInv, Sound
<1>2. n \in {Null, Wild} \cup Places(fs)
  BY <1>1, ResolutionLeads
<1> HIDE DEF n
<1>3. CASE Stop("panic") \/ Stop("wild")
  BY <1>3, StopIInv
<1>4. CASE UNCHANGED vars
  BY <1>4, HandleStep DEF vars, IInv
<1>5. CASE n \notin {Null, Wild} /\ DriverOf(fs, n) # 0 /\ handle' = opened /\ UNCHANGED <<fs, stopped>>
  <2>1. Buffer(opened)
    BY BufferOpened
  <2>2. opened.node = n
    OBVIOUS
  <2>3. n \in Created(fs)
    BY <1>2, <1>5 DEF Places, DriverOf
  <2> HIDE DEF opened
  <2>4. HandleIsOpen(fs, handle')
    BY <1>5, <2>1, <2>2, <2>3 DEF HandleIsOpen
  <2>5. QED
    BY <1>5, <2>4, HandleStep
<1>6. QED
  BY <1>3, <1>4, <1>5 DEF KeOpenFsNode, n

\* Writes and flushes change the buffer of the open handle.
LEMMA BufferIInv ==
  ASSUME IInv, Open, UNCHANGED <<fs, stopped>>, Buffer(handle) => Buffer(handle') /\ handle'.node = handle.node
  PROVE  IInv'
  BY HandleStep DEF IInv, HandleIsOpen, Open

\* Each step keeps the file system, its tree, and the open handle's buffer.
LEMMA NextIInv == IInv /\ [Next]_vars => IInv'
<1> SUFFICES ASSUME IInv, [Next]_vars PROVE IInv'
  OBVIOUS
<1>0. CASE UNCHANGED vars
  BY <1>0, HandleStep DEF vars, IInv
<1>1. ASSUME NEW path \in Paths, NEW name \in Names, KeCreateFsNode(path, name) PROVE IInv'
  BY <1>1, CreateNodeIInv
<1>2. ASSUME NEW callbacks \in Kinds, KeCreateFsDriver(callbacks) PROVE IInv'
  BY <1>2, CreateDriverIInv
<1>3. ASSUME NEW d \in DOMAIN fs.drivers, NEW n \in Driverless,
             KeAddFsNodeToDriver(d, n) \/ AttachDriver(d, n)
      PROVE  IInv'
  <2>1. CASE AttachDriver(d, n)
    <3>1. n \in Created(fs) /\ d \in 1 .. Len(fs.drivers)
      BY FsParts DEF Driverless, IInv, Sound
    <3>2. SetsDriver(fs, fs', n, d) /\ UNCHANGED <<handle, stopped>>
      BY <2>1 DEF AttachDriver, SetsDriver
    <3>3. QED
      BY <3>1, <3>2, SetDriverStep
  <2>2. QED
    BY <1>3, <2>1, AddToDriverIInv
<1>4. ASSUME NEW path \in Paths, NEW buffered \in BOOLEAN, KeOpenFsNode(path, buffered) PROVE IInv'
  BY <1>4, OpenIInv
<1>5. CASE KeCloseFsNode
  <2>1. HandleIsOpen(fs, Closed)
    BY DEF HandleIsOpen
  <2>2. QED
    BY <1>5, <2>1, HandleStep DEF KeCloseFsNode
<1>6. ASSUME NEW byte \in {"a", "b"}, KeWriteFsNode(byte) PROVE IInv'
  <2>1. Open
    BY <1>6 DEF KeWriteFsNode
  <2>2. CASE Concat(byte) /\ UNCHANGED <<fs, stopped>>
    <3>1. Appends(handle, handle', byte)
      BY <2>2 DEF Concat, Moved, Appends
    <3>2. Buffer(handle) => Buffer(handle') /\ handle'.node = handle.node
      BY <3>1, BufferAppended DEF Bytes
    <3>3. QED
      BY <2>1, <2>2, <3>2, BufferIInv
  <2>3. CASE /\ handle' = [handle EXCEPT !.buf = << >>, !.pending = << >>,
                                         !.past = @ + Len(handle.pending)]
             /\ UNCHANGED <<fs, stopped>>
    BY <2>1, <2>3, BufferEmptied, BufferIInv
  <2>4. CASE Stop("wild")
    BY <2>4, StopIInv
  <2>5. QED
    BY <1>6, <2>2, <2>3, <2>4 DEF KeWriteFsNode
<1>7. CASE KeFlushFsNode
  <2>1. CASE /\ handle' = [handle EXCEPT !.buf = << >>, !.pending = << >>,
                                         !.past = @ + Len(handle.pending)]
             /\ UNCHANGED <<fs, stopped>>
    BY <1>7, <2>1, BufferEmptied, BufferIInv DEF KeFlushFsNode
  <2>2. CASE Stop("wild")
    BY <2>2, StopIInv
  <2>3. QED
    BY <1>7, <2>1, <2>2 DEF KeFlushFsNode
<1>8. CASE ThroughStalePointer
  BY <1>8, StopIInv DEF ThroughStalePointer
<1>9. CASE Halted
  BY <1>0, <1>9 DEF Halted
<1>10. QED
  BY <1>0, <1>1, <1>2, <1>3, <1>4, <1>5, <1>6, <1>7, <1>8, <1>9 DEF Next

\* The invariant holds in every reachable state.
LEMMA Invariance == Spec => []IInv
  BY InitIInv, NextIInv, PTL DEF Spec

\* The tree, the table of drivers and the handle keep the shape of fs.h, and a handle
\* is open on a node with a driver (fs.c:206-237).
THEOREM TypeCorrect == Spec => []TypeOK
<1>1. IInv => TypeOK
  BY DEF IInv, TypeOK, Sound, HandleIsOpen
<1>2. QED
  BY <1>1, Invariance, PTL

\* Wherever nodes are created, whatever the path leads to, the nodes form a tree
\* (fs.c:183-204).
THEOREM AlwaysATree == Spec => []NodesFormATree
<1>1. IInv => NodesFormATree
  BY DEF IInv, NodesFormATree, Tree, HangsAt
<1>2. QED
  BY <1>1, Invariance, PTL

\* What a flush hands to the driver ends with the bytes written since the last one,
\* however often writes run out of memory and buffers move (fs.c:249-275, 335-357).
THEOREM FlushHandsOver == Spec => []HandsOverWhatIsPending
<1>1. ASSUME Buffer(handle)
      PROVE  LET meant == [i \in 1 .. handle.past |-> Junk] \o handle.pending
             IN /\ Len(HandedOver) = Len(meant)
                /\ \A i \in DOMAIN meant :
                     HandedOver[i] = meant[i] \/ (i = 1 /\ handle.up /\ HandedOver[i] = Junk)
  <2> DEFINE junk == [i \in 1 .. handle.past |-> Junk]
             D == {Junk} \cup Bytes
             meant == junk \o handle.pending
  <2>1. /\ handle.past \in Nat /\ handle.pending \in Seq(Bytes) /\ Len(handle.pending) \in Nat
        /\ handle.size = handle.past + Len(handle.pending) /\ handle.size \in Nat
    BY <1>1 DEF Buffer
  <2>2. junk \in Seq(D) /\ Len(junk) = handle.past /\ handle.pending \in Seq(D)
    <3>1. junk \in Seq(D) /\ Len(junk) = handle.past
      BY <2>1
    <3>2. Bytes \subseteq D
      OBVIOUS
    <3> HIDE DEF D
    <3>3. QED
      BY <2>1, <3>1, <3>2, WiderSeq
  <2>3. \A i \in 1 .. handle.past : junk[i] = Junk
    OBVIOUS
  <2> HIDE DEF junk, D
  <2>4. /\ Len(meant) = handle.size /\ DOMAIN meant = 1 .. handle.size
        /\ \A i \in 1 .. handle.size :
             meant[i] = IF i <= Len(junk) THEN junk[i] ELSE handle.pending[i - Len(junk)]
    <3>1. /\ meant \in Seq(D) /\ Len(meant) = Len(junk) + Len(handle.pending)
          /\ \A i \in 1 .. Len(junk) + Len(handle.pending) :
               meant[i] = IF i <= Len(junk) THEN junk[i] ELSE handle.pending[i - Len(junk)]
      BY <2>2, ConcatProperties
    <3> HIDE DEF meant
    <3>2. QED
      BY <2>1, <2>2, <3>1
  <2> HIDE DEF meant
  <2>5. \A i \in 1 .. handle.size : meant[i] = Meant(handle, i)
    <3> TAKE i \in 1 .. handle.size
    <3>1. CASE i <= handle.past
      BY <2>1, <2>2, <2>3, <2>4, <3>1 DEF Meant
    <3>2. CASE ~(i <= handle.past)
      BY <2>1, <2>2, <2>4, <3>2 DEF Meant
    <3>3. QED
      BY <3>1, <3>2
  <2>6. CASE handle.buf = << >>
    <3>1. HandedOver = [i \in 1 .. handle.size |-> Junk]
      BY <2>6 DEF HandedOver, Fresh
    <3>2. Len(HandedOver) = handle.size /\ \A i \in 1 .. handle.size : HandedOver[i] = Junk
      BY <2>1, <3>1
    <3>3. handle.size = handle.past
      BY <1>1, <2>1, <2>6 DEF Buffer
    <3>4. \A i \in 1 .. handle.size : Meant(handle, i) = Junk
      BY <2>1, <3>3 DEF Meant
    <3>5. QED
      BY <2>4, <2>5, <3>2, <3>4 DEF meant, junk
  <2>7. CASE handle.buf # << >>
    <3>1. HandedOver = handle.buf
      BY <2>7 DEF HandedOver, Fresh
    <3>2. /\ Len(handle.buf) = handle.size
          /\ \A i \in 1 .. handle.size :
               handle.buf[i] = Meant(handle, i) \/ (i = 1 /\ handle.up /\ handle.buf[i] = Junk)
      BY <1>1, <2>7 DEF Buffer
    <3>3. QED
      BY <2>4, <2>5, <3>1, <3>2 DEF meant, junk
  <2>8. QED
    BY <2>6, <2>7
<1>2. IInv => HandsOverWhatIsPending
  BY <1>1 DEF IInv, HandleIsOpen, HandsOverWhatIsPending
<1>3. QED
  BY <1>2, Invariance, PTL

----------------------------------------------------------------------------
(* Paths keep their nodes, because lists of children grow at their ends    *)
(* and names stay.                                                         *)

Interferers(f) == {n \in Created(f) : Interferes(f, n)}
Later(f, g) ==
  /\ Len(f.nodes) <= Len(g.nodes)
  /\ \A n \in Created(f) :
       /\ g.nodes[n].name = f.nodes[n].name
       /\ Interferes(g, n) <=> Interferes(f, n)
       /\ Stale(g, DriverOf(g, n)) <=> Stale(f, DriverOf(f, n))
  /\ \A n \in Places(f) :
       /\ Len(f.children[n]) <= Len(g.children[n])
       /\ \A i \in 1 .. Len(f.children[n]) : g.children[n][i] = f.children[n][i]

\* A letter that led to a child leads to it still.
LEMMA IndexStays ==
  ASSUME NEW f, Sound(f), NEW g, Sound(g), Later(f, g), NEW n \in {Null} \cup Places(f),
         NEW letter \in 1 .. 26, Index(f, n, letter) # Null
  PROVE  Index(g, n, letter) = Index(f, n, letter) /\ n # Null
<1> DEFINE i == KeGetFsDrive(letter) + 1
<1>1. i \in Nat /\ i >= 1
  BY DEF KeGetFsDrive
<1> HIDE DEF i
<1>2. n # Null /\ i <= Len(f.children[n]) /\ Index(f, n, letter) = f.children[n][i]
  BY DEF Index, i
<1>3. n \in Places(f) /\ Len(f.children[n]) \in Nat
  BY <1>2, FsParts DEF Sound
<1>4. n \in Places(g) /\ Len(g.children[n]) \in Nat
  <2>1. n \in Places(g)
    BY <1>3, FsParts DEF Later, Places, Created, Sound
  <2>2. QED
    BY <2>1, FsParts DEF Sound
<1>5. i <= Len(g.children[n]) /\ g.children[n][i] = f.children[n][i]
  BY <1>1, <1>2, <1>3, <1>4 DEF Later
<1>6. Index(g, n, letter) = g.children[n][i]
  BY <1>2, <1>5 DEF Index, i
<1>7. QED
  BY <1>2, <1>5, <1>6

\* The first child that took a name takes it still, and none before it does.
LEMMA DownStays ==
  ASSUME NEW f, Sound(f), NEW g, Sound(g), Later(f, g), NEW n \in Places(f), NEW name,
         Down(f, n, name) # Null
  PROVE  Down(g, n, name) = Down(f, n, name)
<1> DEFINE s == f.children[n]
           t == g.children[n]
           hits == {i \in 1 .. Len(s) : Takes(f, s[i], name)}
           later == {i \in 1 .. Len(t) : Takes(g, t[i], name)}
<1>1. Len(s) \in Nat /\ \A i \in 1 .. Len(s) : s[i] \in Created(f)
  BY FsParts DEF Sound
<1>2. n \in Places(g) /\ Len(t) \in Nat
  <2>1. n \in Places(g)
    BY FsParts DEF Later, Places, Created, Sound
  <2>2. QED
    BY <2>1, FsParts DEF Sound
<1>3. Len(s) <= Len(t) /\ \A i \in 1 .. Len(s) : t[i] = s[i]
  BY DEF Later
<1>4. \A c \in Created(f) : /\ Takes(g, c, name) <=> Takes(f, c, name)
                            /\ Stale(g, DriverOf(g, c)) <=> Stale(f, DriverOf(f, c))
  BY DEF Later, Takes
<1> HIDE DEF s, t
<1>5. hits # {}
  BY FirstThatTakes DEF Sound, s
<1>6. hits \in SUBSET Nat
  OBVIOUS
<1>7. PICK i \in hits : \A j \in hits : i <= j
  <2> HIDE DEF hits
  <2>1. QED
    BY <1>5, <1>6, LeastExists
<1>8. i \in 1 .. Len(s) /\ i \in 1 .. Len(t) /\ s[i] \in Created(f) /\ t[i] = s[i]
  BY <1>1, <1>2, <1>3
<1>9. i \in later
  BY <1>4, <1>8
<1>10. \A j \in later : i <= j
  <2> SUFFICES ASSUME NEW j \in later, j < i PROVE FALSE
    BY <1>8
  <2>1. j \in 1 .. Len(s) /\ t[j] = s[j] /\ s[j] \in Created(f)
    BY <1>1, <1>3, <1>8
  <2>2. j \in hits
    BY <1>4, <2>1
  <2>3. QED
    BY <1>7, <1>8, <2>2
<1>11. Down(f, n, name) = IF Stale(f, DriverOf(f, s[i])) THEN Wild ELSE s[i]
  BY <1>7, FirstThatTakes DEF Sound, s
<1>12. Down(g, n, name) = IF Stale(g, DriverOf(g, t[i])) THEN Wild ELSE t[i]
  <2>1. FsType(g)
    BY DEF Sound
  <2>2. \A k \in later : (\A j \in later : k <= j) =>
          Down(g, n, name) = IF Stale(g, DriverOf(g, t[k])) THEN Wild ELSE t[k]
    BY <1>2, <2>1, FirstThatTakes DEF t
  <2> HIDE DEF later
  <2>3. QED
    BY <1>9, <1>10, <2>2, Zenon
<1>13. QED
  BY <1>4, <1>8, <1>11, <1>12

\* A path that led to a node, or through a stale pointer, leads there still.
LEMMA PathStays ==
  ASSUME NEW f, Sound(f), NEW g, Sound(g), Later(f, g), NEW path \in Path,
         KeResolveFsPath(f, path) # Null
  PROVE  KeResolveFsPath(g, path) = KeResolveFsPath(f, path)
<1> DEFINE letters == Len(path.letters)
           names == Len(path.names)
           top == TopOf(f, path)
           top2 == TopOf(g, path)
           at == AtOf(f, path)
           at2 == AtOf(g, path)
<1>1. letters \in Nat /\ names \in Nat /\ \A i \in 1 .. letters : path.letters[i] \in 1 .. 26
  BY PathParts, Zenon
<1>2. /\ top[0] = Root /\ \A i \in 1 .. letters : top[i] = Index(f, top[i - 1], path.letters[i])
      /\ \A i \in 0 .. letters : top[i] \in {Null} \cup Places(f)
      /\ top2[0] = Root /\ \A i \in 1 .. letters : top2[i] = Index(g, top2[i - 1], path.letters[i])
  BY TopSteps DEF Sound
<1>3. /\ at[0] = top[letters] /\ \A i \in 1 .. names : at[i] = Further(f, path, i, at[i - 1])
      /\ \A i \in 0 .. names : at[i] \in {Null, Wild} \cup Places(f)
      /\ at2[0] = top2[letters] /\ \A i \in 1 .. names : at2[i] = Further(g, path, i, at2[i - 1])
  BY AtSteps DEF Sound
<1>4. KeResolveFsPath(f, path) = at[names] /\ KeResolveFsPath(g, path) = at2[names]
  BY ResolutionMeans
<1> HIDE DEF letters, names, top, top2, at, at2
<1>5. \A i \in 0 .. letters : top[i] # Null => top2[i] = top[i]
  <2> DEFINE P == {i \in 0 .. letters : top[i] # Null => top2[i] = top[i]}
  <2>1. 0 \in P
    BY <1>1, <1>2
  <2>2. ASSUME NEW i \in 1 .. letters, i - 1 \in P PROVE i \in P
    <3>1. i \in 0 .. letters /\ i - 1 \in 0 .. letters
      BY <1>1
    <3>2. ASSUME top[i] # Null PROVE top2[i] = top[i]
      <4>1. Index(f, top[i - 1], path.letters[i]) # Null /\ top[i - 1] \in {Null} \cup Places(f)
        BY <1>2, <3>1, <3>2
      <4>2. /\ Index(g, top[i - 1], path.letters[i]) = Index(f, top[i - 1], path.letters[i])
            /\ top[i - 1] # Null
        BY <1>1, <4>1, IndexStays
      <4>3. top2[i - 1] = top[i - 1]
        BY <2>2, <4>2
      <4>4. QED
        BY <1>2, <4>2, <4>3
    <3>3. QED
      BY <3>1, <3>2
  <2> HIDE DEF P
  <2>3. \A i \in 0 .. letters : i \in P
    BY <1>1, <2>1, <2>2, UpTo
  <2>4. QED
    BY <2>3 DEF P
<1>6. \A i \in 0 .. names : at[i] # Null => at2[i] = at[i]
  <2> DEFINE P == {i \in 0 .. names : at[i] # Null => at2[i] = at[i]}
  <2>1. 0 \in P
    <3>1. 0 \in 0 .. names /\ letters \in 0 .. letters
      BY <1>1
    <3>2. QED
      BY <1>3, <1>5, <3>1
  <2>2. ASSUME NEW i \in 1 .. names, i - 1 \in P PROVE i \in P
    <3>1. i \in 0 .. names /\ i - 1 \in 0 .. names
      BY <1>1
    <3>2. ASSUME at[i] # Null PROVE at2[i] = at[i]
      <4> DEFINE n == at[i - 1]
      <4>1. /\ at[i] = Further(f, path, i, n) /\ at2[i] = Further(g, path, i, at2[i - 1])
            /\ n \in {Null, Wild} \cup Places(f)
        BY <1>3, <3>1
      <4> HIDE DEF n
      <4>2. n # Null
        BY <3>2, <4>1 DEF Further
      <4>3. at2[i - 1] = n
        BY <2>2, <4>2 DEF n
      <4>4. CASE n = Wild
        BY <4>1, <4>3, <4>4 DEF Further
      <4>5. CASE n \in Places(f)
        <5>1. n \notin {Null, Wild}
          <6>1. Len(f.nodes) \in Nat
            BY FsParts DEF Sound
          <6>2. QED
            BY <4>5, <6>1 DEF Places, Created, Root, Null, Wild
        <5>2. Interferes(g, n) <=> Interferes(f, n)
          <6>1. CASE n = Root
            BY <6>1 DEF Interferes, DriverOf, Stale, Has
          <6>2. CASE n \in Created(f)
            BY <6>2 DEF Later
          <6>3. QED
            BY <4>5, <6>1, <6>2 DEF Places
        <5>3. CASE i > 1 /\ Interferes(f, n)
          BY <4>1, <4>3, <5>2, <5>3 DEF Further
        <5>4. CASE ~(i > 1 /\ Interferes(f, n))
          <6>1. at[i] = Down(f, n, path.names[i]) /\ at2[i] = Down(g, n, path.names[i])
            BY <4>1, <4>3, <5>1, <5>2, <5>4 DEF Further
          <6>2. QED
            BY <3>2, <4>5, <6>1, DownStays
        <5>5. QED
          BY <5>3, <5>4
      <4>6. QED
        BY <4>1, <4>2, <4>4, <4>5
    <3>3. QED
      BY <3>1, <3>2
  <2> HIDE DEF P
  <2>3. \A i \in 0 .. names : i \in P
    BY <1>1, <2>1, <2>2, UpTo
  <2>4. QED
    BY <2>3 DEF P
<1>7. names \in 0 .. names
  BY <1>1
<1>8. QED
  BY <1>4, <1>6, <1>7

\* A new node has no driver and leaves the others alone.
LEMMA CreationIsLater ==
  ASSUME NEW f, Sound(f), NEW name \in Names, NEW parent \in Places(f), NEW g,
         AddsNode(f, g, name, parent)
  PROVE  Sound(g) /\ Later(f, g)
<1> DEFINE new == Len(f.nodes) + 1
<1>1. /\ Sound(g) /\ g.drivers = f.drivers
      /\ Len(g.nodes) = Len(f.nodes) + 1 /\ Created(g) = Created(f) \cup {Len(f.nodes) + 1}
      /\ \A n \in Created(f) : g.nodes[n] = f.nodes[n]
      /\ \A n \in Places(f) : g.children[n] =
            IF n = parent THEN Append(f.children[n], new) ELSE f.children[n]
  BY NodeCreated
<1>2. Len(f.nodes) \in Nat /\ \A n \in Places(f) : f.children[n] \in Seq(Created(f))
  BY FsParts DEF Sound
<1>3. Len(f.nodes) <= Len(g.nodes)
  BY <1>1, <1>2
<1>4. \A n \in Created(f) : /\ DriverOf(g, n) = DriverOf(f, n)
                            /\ Stale(g, DriverOf(g, n)) <=> Stale(f, DriverOf(f, n))
                            /\ Interferes(g, n) <=> Interferes(f, n)
  <2> TAKE n \in Created(f)
  <2>1. DriverOf(g, n) = DriverOf(f, n)
    BY <1>1, DriverOfCreated
  <2>2. Stale(g, DriverOf(g, n)) <=> Stale(f, DriverOf(f, n))
    BY <1>1, <2>1 DEF Stale, Live
  <2>3. Has(g, DriverOf(g, n), "request_node") <=> Has(f, DriverOf(f, n), "request_node")
    BY <1>1, <2>1 DEF Has
  <2>4. QED
    BY <2>1, <2>2, <2>3 DEF Interferes
<1>5. ASSUME NEW n \in Places(f)
      PROVE  /\ Len(f.children[n]) <= Len(g.children[n])
             /\ \A i \in 1 .. Len(f.children[n]) : g.children[n][i] = f.children[n][i]
  <2> DEFINE s == f.children[n]
             D == Created(f) \cup {new}
  <2>1. s \in Seq(D) /\ new \in D
    <3>1. s \in Seq(Created(f)) /\ Created(f) \subseteq D
      BY <1>2
    <3> HIDE DEF D, s
    <3>2. s \in Seq(D)
      BY <3>1, WiderSeq
    <3>3. QED
      BY <3>2 DEF D
  <2>2. g.children[n] = IF n = parent THEN Append(s, new) ELSE s
    BY <1>1
  <2> HIDE DEF s, D, new
  <2>3. /\ Len(s) \in Nat /\ Len(Append(s, new)) = Len(s) + 1
        /\ \A i \in 1 .. Len(s) : Append(s, new)[i] = s[i]
    BY <2>1
  <2>4. /\ Len(s) <= Len(g.children[n])
        /\ \A i \in 1 .. Len(s) : g.children[n][i] = s[i]
    BY <2>2, <2>3
  <2>5. QED
    BY <2>4 DEF s
<1>6. \A n \in Created(f) : g.nodes[n].name = f.nodes[n].name
  BY <1>1
<1>7. QED
  BY <1>1, <1>3, <1>4, <1>5, <1>6 DEF Later

\* A node without a driver gets one that leaves the resolution alone.
LEMMA DrivingIsLater ==
  ASSUME NEW f, Sound(f), NEW g, Sound(g), g.children = f.children,
         Len(g.nodes) = Len(f.nodes), Len(g.drivers) = Len(f.drivers),
         NEW n \in Created(f), DriverOf(f, n) = 0, Interferers(f) = Interferers(g),
         \A m \in Created(f) : /\ g.nodes[m].name = f.nodes[m].name
                               /\ m # n => g.nodes[m].driver = f.nodes[m].driver
  PROVE  Later(f, g)
<1>1. Created(g) = Created(f) /\ Places(g) = Places(f) /\ Len(f.nodes) \in Nat
  BY FsParts DEF Sound, Created, Places
<1>2. \A m \in Created(f) : Interferes(g, m) <=> Interferes(f, m)
  BY <1>1 DEF Interferers
<1>3. ~Interferes(f, n) /\ ~Stale(f, DriverOf(f, n)) /\ ~Stale(g, DriverOf(g, n))
  <2>1. ~Interferes(f, n) /\ ~Stale(f, DriverOf(f, n))
    BY DEF Interferes, Stale, Has
  <2>2. ~Interferes(g, n)
    BY <1>2, <2>1
  <2>3. QED
    BY <2>1, <2>2 DEF Interferes
<1>4. \A m \in Created(f) : Stale(g, DriverOf(g, m)) <=> Stale(f, DriverOf(f, m))
  <2> TAKE m \in Created(f)
  <2>1. CASE m = n
    BY <1>3, <2>1
  <2>2. CASE m # n
    <3>1. DriverOf(g, m) = DriverOf(f, m)
      BY <1>1, <2>2, DriverOfCreated
    <3>2. QED
      BY <3>1 DEF Stale, Live
  <2>3. QED
    BY <2>1, <2>2
<1>5. \A m \in Places(f) : Len(f.children[m]) \in Nat
  BY FsParts DEF Sound
<1>6. QED
  BY <1>1, <1>2, <1>4, <1>5 DEF Later

\* The steps that change nodes make a later file system of the one they find.
LEMMA StepIsLater ==
  ASSUME IInv, Next, fs'.nodes # fs.nodes, Interferers(fs) = Interferers(fs')
  PROVE  Sound(fs') /\ Later(fs, fs')
<1>1. Sound(fs)
  BY DEF IInv
<1>2. ASSUME NEW path \in Paths, NEW name \in Names, KeCreateFsNode(path, name)
      PROVE  Sound(fs') /\ Later(fs, fs')
  <2> DEFINE found == KeResolveFsPath(fs, path)
             parent == IF found \in {Null, Wild} THEN Root ELSE found
  <2>1. parent \in Places(fs)
    BY <1>1, FsAssumption, ResolutionLeads DEF Sound, Places
  <2> HIDE DEF found
  <2>2. AddsNode(fs, fs', name, parent)
    BY <1>2 DEF KeCreateFsNode, Stop, AddsNode, found
  <2> HIDE DEF parent
  <2>3. QED
    BY <1>1, <2>1, <2>2, CreationIsLater
<1>3. ASSUME NEW d \in DOMAIN fs.drivers, NEW n \in Driverless,
             KeAddFsNodeToDriver(d, n) \/ AttachDriver(d, n)
      PROVE  Sound(fs') /\ Later(fs, fs')
  <2>1. n \in Created(fs) /\ d \in 1 .. Len(fs.drivers) /\ DriverOf(fs, n) = 0
    BY <1>1, FsParts DEF Driverless, Sound
  <2>2. CASE AttachDriver(d, n)
    <3>1. SetsDriver(fs, fs', n, d)
      BY <2>2 DEF AttachDriver, SetsDriver
    <3>2. /\ Sound(fs') /\ fs'.children = fs.children /\ fs'.drivers = fs.drivers
          /\ Len(fs'.nodes) = Len(fs.nodes)
          /\ \A m \in Created(fs) : /\ fs'.nodes[m].name = fs.nodes[m].name
                                    /\ fs'.nodes[m].driver = IF m = n THEN d ELSE fs.nodes[m].driver
      BY <1>1, <2>1, <3>1, DriverSet
    <3>3. QED
      BY <1>1, <2>1, <3>2, DrivingIsLater
  <2>3. CASE KeAddFsNodeToDriver(d, n)
    <3> DEFINE mid == [fs EXCEPT !.nodes[n].driver = d]
               list == IF Live(fs, d) THEN Append(fs.drivers[d].nodes, n) ELSE fs.drivers[d].nodes
               C == Created(fs) \cup {Null}
    <3>1. fs' = [fs EXCEPT !.nodes[n].driver = d, !.drivers[d].nodes = list]
      BY <1>1, <2>3 DEF KeAddFsNodeToDriver, Stop, Sound
    <3>2. list \in Seq(C)
      BY <1>1, <2>1, DriverListLonger
    <3>3. SetsDriver(fs, mid, n, d)
      BY DEF SetsDriver
    <3>4. fs' = [mid EXCEPT !.drivers[d].nodes = list]
      BY <1>1, <3>1 DEF Sound
    <3>5. SetsNodes(mid, fs', d, list)
      BY <3>4 DEF SetsNodes
    <3> HIDE DEF mid, list
    <3>6. /\ Sound(mid) /\ mid.children = fs.children /\ mid.drivers = fs.drivers
          /\ Len(mid.nodes) = Len(fs.nodes)
          /\ \A m \in Created(fs) : /\ mid.nodes[m].name = fs.nodes[m].name
                                    /\ mid.nodes[m].driver = IF m = n THEN d ELSE fs.nodes[m].driver
      BY <1>1, <2>1, <3>3, DriverSet
    <3>7. Created(mid) = Created(fs) /\ list \in Seq(Created(mid) \cup {Null}) /\ d \in 1 .. Len(mid.drivers)
      BY <2>1, <3>2, <3>6 DEF Created
    <3>8. /\ Sound(fs') /\ fs'.nodes = mid.nodes /\ fs'.children = mid.children
          /\ Len(fs'.drivers) = Len(mid.drivers)
      BY <3>5, <3>6, <3>7, DriverNodesSet
    <3>9. /\ fs'.children = fs.children /\ Len(fs'.drivers) = Len(fs.drivers)
          /\ Len(fs'.nodes) = Len(fs.nodes)
          /\ \A m \in Created(fs) : /\ fs'.nodes[m].name = fs.nodes[m].name
                                    /\ m # n => fs'.nodes[m].driver = fs.nodes[m].driver
      BY <3>6, <3>8
    <3>10. QED
      BY <1>1, <2>1, <3>8, <3>9, DrivingIsLater
  <2>4. QED
    BY <1>3, <2>2, <2>3
<1>4. CASE \E callbacks \in Kinds : KeCreateFsDriver(callbacks)
  <2>1. fs'.nodes = fs.nodes
    BY <1>1, <1>4 DEF KeCreateFsDriver, Stop, Sound
  <2>2. QED
    BY <2>1
<1>5. CASE \E path \in Paths, buffered \in BOOLEAN : KeOpenFsNode(path, buffered)
  BY <1>5 DEF KeOpenFsNode, Stop, vars
<1>6. CASE KeCloseFsNode
  BY <1>6 DEF KeCloseFsNode
<1>7. CASE \E byte \in {"a", "b"} : KeWriteFsNode(byte)
  BY <1>7 DEF KeWriteFsNode, Stop
<1>8. CASE KeFlushFsNode
  BY <1>8 DEF KeFlushFsNode, Stop
<1>9. CASE ThroughStalePointer
  BY <1>9 DEF ThroughStalePointer, Stop
<1>10. CASE Halted
  BY <1>10 DEF Halted, vars
<1>11. QED
  BY <1>2, <1>3, <1>4, <1>5, <1>6, <1>7, <1>8, <1>9, <1>10 DEF Next

\* A path that names a node names it for ever, whatever nodes are created later, until
\* a driver takes over the resolution or goes stale (fs.c:107-175).
THEOREM PathsKeep == Spec => PathsKeepTheirNode
<1>1. ASSUME IInv, Next
      PROVE  fs'.nodes # fs.nodes
               /\ {n \in Created(fs) : Interferes(fs, n)} = {n \in Created(fs') : Interferes(fs', n)} =>
             \A path \in Paths :
               KeResolveFsPath(fs, path) \notin {Null, Wild} =>
                 KeResolveFsPath(fs', path) = KeResolveFsPath(fs, path)
  <2> SUFFICES ASSUME fs'.nodes # fs.nodes, Interferers(fs) = Interferers(fs'), NEW path \in Paths,
                      KeResolveFsPath(fs, path) \notin {Null, Wild}
               PROVE  KeResolveFsPath(fs', path) = KeResolveFsPath(fs, path)
    BY DEF Interferers
  <2>1. Sound(fs) /\ Sound(fs') /\ Later(fs, fs')
    BY <1>1, StepIsLater DEF IInv
  <2>2. path \in Path /\ KeResolveFsPath(fs, path) # Null
    BY FsAssumption
  <2>3. QED
    BY <2>1, <2>2, PathStays
<1>2. QED
  BY <1>1, Invariance, PTL DEF Spec, PathsKeepTheirNode
=============================================================================
