------------------------------ MODULE CssProofs ------------------------------
(***************************************************************************)
(* Proofs about Css, for any devices, calls, programs and bound on the     *)
(* queue, whatever the devices do and wherever debug prints nest.          *)
(***************************************************************************)
EXTENDS Css, SequenceTheorems, TLAPS

(***************************************************************************)
(* The inductive invariant.  A debug print finds its own request on top of *)
(* the queue, since nothing happens on the queue until it returns; what    *)
(* lies above main's request is what debug prints put there since, live    *)
(* while the print is under way and dead when it failed.                   *)
(***************************************************************************)
Working == {"testModify", "modify", "test", "attention", "start", "finish"}

\* The types, with the parts TypeOK leaves out.
Block == [attention : BOOLEAN, cpa : Programs \cup {None}]
DriverCall == [driver : Drivers, dev : Devices]
Shape ==
  /\ queue \in Seq(Request)
  /\ room \in Nat /\ allocated \subseteq Programs /\ online \subseteq Devices
  /\ wild \in BOOLEAN /\ misled \subseteq Programs
  /\ pc \in [Actors -> Labels] /\ call \in [Actors -> DriverCall]
  /\ req \in [Actors -> Request] /\ own \in [Actors -> Programs \cup {None}]
  /\ result \in [Actors -> {-1, 0, 1}]
  /\ orb \in [Devices -> Programs \cup {None}] /\ irb \in [Devices -> Block]
  /\ running \in [Devices -> Programs \cup {None}]
  /\ ending \in [Devices -> Programs \cup {None}] /\ attention \in [Devices -> BOOLEAN]

\* The request a call sends, and what debug prints leave or have on the queue.
Sent(a) == [prog |-> own[a], driver |-> call[a].driver, dev |-> call[a].dev]
Prints(r) ==
  r.driver = "WriteTerm" /\ r.dev = Console /\ (r.prog \notin allocated \/ r.prog = own["print"])

\* A call under way owns a live program of its own.  It is at work on its own request,
\* or, when it is main, on that of a debug print that failed.
Misled(a) ==
  /\ a = "main" /\ pc[a] \in Working \cup {"destroy"}
  /\ FailedPrint(req[a]) /\ own[a] \in misled
Owned(a) ==
  IF pc[a] = "idle"
  THEN own[a] = None
  ELSE own[a] \in allocated /\ (req[a] = Sent(a) \/ Misled(a))
OwnersDiffer == own["main"] = own["print"] => own["main"] = None
PrintsWrite == pc["print"] # "idle" => call["print"] = NoCall

\* What a live program on the queue is: a call's own, that of a disk read, or that
\* of a call that was misled.
Leftovers ==
  \A i \in DOMAIN queue :
    /\ queue[i].prog # None
    /\ queue[i].prog \in allocated =>
         \/ KeepsFailed(queue[i].driver) \/ queue[i].prog \in misled
         \/ \E a \in Actors : queue[i].prog = own[a]
    /\ \A a \in Actors : queue[i].prog = own[a] => queue[i] = Sent(a)

\* The blocks of the devices name what is performed, but for main on the console.
Blocks ==
  /\ pc["print"] \in Working => orb[Console] = own["print"]
  /\ pc["main"] \in Working /\ Dev("main") # Console => orb[Dev("main")] = req["main"].prog

\* A debug print's request is on top, and the array was enlarged for it.
PrintOnTop ==
  /\ pc["print"] = "enqueue" => Len(queue) < room
  /\ pc["print"] = "perform" => queue = << >> \/ queue[Len(queue)] = Sent("print")
  /\ pc["print"] \in Working => queue # << >> /\ queue[Len(queue)] = Sent("print")

\* Above the place of main's request there are only prints, and what it performs is there.
Base(b) ==
  /\ b \in 0 .. Len(queue) /\ (b # 0 => queue[b] = Sent("main"))
  /\ \A k \in DOMAIN queue : b < k => Prints(queue[k])
Performs(b) == \E j \in DOMAIN queue : b <= j /\ queue[j] = req["main"]
MainBelow ==
  pc["main"] \in Working \cup {"perform"} =>
    \E b \in 0 .. Len(queue) : Base(b) /\ (pc["main"] = "perform" \/ Performs(b))

\* Main's request fits, unless the array was dropped or a print that fails has its room.
MainFits ==
  pc["main"] = "enqueue" =>
    \/ room = 0 \/ Len(queue) < room
    \/ Len(queue) = room /\ Prints(queue[room])

IInv ==
  /\ Shape
  /\ \A a \in Actors : Owned(a)
  /\ OwnersDiffer /\ PrintsWrite /\ Leftovers /\ Blocks
  /\ ~wild => PrintOnTop /\ MainBelow /\ MainFits
  /\ wild => queue = << >> \/ pc["main"] = "perform"

----------------------------------------------------------------------------
(* Lemmas about the stack, the conditions and the types. *)

\* What a push leaves on the queue (CssSendRequest).
LEMMA Pushed ==
  ASSUME NEW S, NEW s \in Seq(S), NEW e \in S
  PROVE  /\ Append(s, e) \in Seq(S) /\ Append(s, e) # << >>
         /\ Len(Append(s, e)) = Len(s) + 1
         /\ DOMAIN Append(s, e) = 1 .. Len(s) + 1
         /\ \A i \in 1 .. Len(s) : Append(s, e)[i] = s[i]
         /\ Append(s, e)[Len(s) + 1] = e
  OBVIOUS

\* What a pop leaves on it (CssPerformRequest after a success).
LEMMA Popped ==
  ASSUME NEW S, NEW s \in Seq(S), s # << >>
  PROVE  /\ SubSeq(s, 1, Len(s) - 1) \in Seq(S)
         /\ Len(SubSeq(s, 1, Len(s) - 1)) = Len(s) - 1 /\ Len(s) > 0
         /\ DOMAIN SubSeq(s, 1, Len(s) - 1) = 1 .. Len(s) - 1
         /\ \A i \in 1 .. Len(s) - 1 : SubSeq(s, 1, Len(s) - 1)[i] = s[i]
<1>1. Len(s) \in Nat /\ Len(s) > 0 /\ \A i \in 1 .. Len(s) - 1 : s[i] \in S
  OBVIOUS
<1> DEFINE n == Len(s) - 1
           t == SubSeq(s, 1, n)
<1>2. n \in Nat /\ 1 \in Int /\ n \in Int /\ \A i \in 1 .. n : s[i] \in S
  BY <1>1
<1> HIDE DEF n
<1>3. /\ t \in Seq(S)
      /\ Len(t) = IF 1 <= n THEN n - 1 + 1 ELSE 0
      /\ \A i \in 1 .. n - 1 + 1 : t[i] = s[1 + i - 1]
  BY <1>2, SubSeqProperties
<1>4. t \in Seq(S) /\ Len(t) = n /\ \A i \in 1 .. n : t[i] = s[i]
  BY <1>2, <1>3
<1>5. DOMAIN t = 1 .. n
  BY <1>4
<1>6. QED
  BY <1>1, <1>4, <1>5 DEF n

\* The stubs' condition code is never that of a missing device (cssa.s).
LEMMA NeverFails == \A a : ~Fails(a)
  BY DEF Fails, ReadBack

\* A test stores a block and clears what it stored (CssTestChannel).
LEMMA TestTypes ==
  ASSUME Shape, NEW a \in Actors, TestChannel(a)
  PROVE  /\ irb' \in [Devices -> Block]
         /\ ending' \in [Devices -> Programs \cup {None}]
         /\ attention' \in [Devices -> BOOLEAN]
         /\ \A d \in Devices : attention'[d] => attention[d]
         /\ \A d \in Devices : d # Dev(a) => ending'[d] = ending[d]
         /\ Dev(a) \in online => ending'[Dev(a)] = None
         /\ Dev(a) \in Devices
<1>1. Dev(a) \in Devices
  BY DEF Shape, Request, Dev
<1>2. CASE Dev(a) \notin online
  BY <1>1, <1>2 DEF Shape, TestChannel
<1>3. CASE Dev(a) \in online
  <2> DEFINE d == Dev(a)
  <2>1. /\ irb' = [irb EXCEPT ![d] = [attention |-> attention[d], cpa |-> ending[d]]]
        /\ ending' = [ending EXCEPT ![d] = None]
        /\ attention' = [attention EXCEPT ![d] = FALSE]
    BY <1>3 DEF TestChannel
  <2>2. /\ irb \in [Devices -> Block]
        /\ ending \in [Devices -> Programs \cup {None}]
        /\ attention \in [Devices -> BOOLEAN] /\ d \in Devices
    BY <1>1 DEF Shape
  <2>3. [attention |-> attention[d], cpa |-> ending[d]]
          \in Block
    BY <2>2 DEF Block
  <2> HIDE DEF d
  <2>4. irb' \in [Devices -> Block]
    BY <2>1, <2>2, <2>3
  <2>5. ending' \in [Devices -> Programs \cup {None}]
    BY <2>1, <2>2
  <2>6. attention' \in [Devices -> BOOLEAN] /\ \A e \in Devices : attention'[e] => attention[e]
    BY <2>1, <2>2, Zenon
  <2>7. ending'[d] = None /\ \A e \in Devices : e # d => ending'[e] = ending[e]
    BY <2>1, <2>2
  <2>8. QED
    BY <2>2, <2>4, <2>5, <2>6, <2>7 DEF d
<1>4. QED
  BY <1>2, <1>3

\* The kernel starts with an empty queue and nothing under way (css.c, dev.c).
LEMMA InitIInv == Init => IInv
  <1> SUFFICES ASSUME Init PROVE IInv
    OBVIOUS
  <1>1. Shape
    <2>1. NoRequest \in Request /\ NoCall \in DriverCall
      BY CssConstants DEF NoRequest, NoCall, Request, Drivers, DriverCall
    <2>2. [attention |-> FALSE, cpa |-> None] \in Block
      BY DEF Block
    <2>3. queue \in Seq(Request) /\ DOMAIN queue = {}
      BY DEF Init
    <2>4. /\ pc \in [Actors -> Labels] /\ result \in [Actors -> {-1, 0, 1}]
          /\ call \in [Actors -> DriverCall]
          /\ req \in [Actors -> Request] /\ own \in [Actors -> Programs \cup {None}]
      BY <2>1 DEF Init, Labels
    <2>5. QED
      BY <2>2, <2>3, <2>4 DEF Init, Shape
  <1>2. \A a \in Actors : Owned(a)
    BY DEF Init, Owned
  <1>3. OwnersDiffer /\ PrintsWrite /\ Leftovers /\ Blocks
    BY CssConstants DEF Init, OwnersDiffer, PrintsWrite, Leftovers, Actors, Working, Blocks
  <1>4. PrintOnTop /\ MainBelow /\ MainFits /\ ~wild
    BY DEF Init, PrintOnTop, MainBelow, MainFits, Actors, Working
  <1>5. QED
    BY <1>1, <1>2, <1>3, <1>4 DEF IInv

\* The types hold where the invariant does.
LEMMA ShapeGivesTypes == Shape => TypeOK
  <1> SUFFICES ASSUME Shape PROVE TypeOK
    OBVIOUS
  <1>1. \A f \in {orb, running, ending} : f \in [Devices -> Programs \cup {None}]
    BY DEF Shape
  <1>2. \A i \in DOMAIN queue : queue[i] \in Request
    BY DEF Shape
  <1>3. QED
    BY <1>1, <1>2 DEF Shape, TypeOK

\* Every step keeps the types.
LEMMA ShapeStep == IInv /\ [Next]_vars => Shape'
<1> SUFFICES ASSUME IInv, Shape, [Next]_vars PROVE Shape'
  BY DEF IInv
<1>1. CASE UNCHANGED vars
  BY <1>1 DEF vars, actorVars, deviceVars, Shape
<1>2. ASSUME NEW a \in Actors, NEW c \in DriverCall, Send(a, c)
      PROVE Shape'
  <2>1. PICK p \in Programs :
          /\ allocated' = allocated \cup {p} /\ own' = [own EXCEPT ![a] = p]
          /\ call' = [call EXCEPT ![a] = c]
          /\ req' = [req EXCEPT ![a] = [prog |-> p, driver |-> c.driver, dev |-> c.dev]]
    BY <1>2 DEF Send
  <2>2. [prog |-> p, driver |-> c.driver, dev |-> c.dev] \in Request
    BY DEF Request, DriverCall
  <2>3. /\ call' \in [Actors -> DriverCall]
        /\ req' \in [Actors -> Request] /\ own' \in [Actors -> Programs \cup {None}]
        /\ allocated' \subseteq Programs
    BY <2>1, <2>2 DEF Shape
  <2>4. room' \in Nat /\ wild' \in BOOLEAN /\ queue' \in Seq(Request)
    <3>1. << >> \in Seq(Request) /\ Len(queue) + 1 \in Nat
      BY DEF Shape
    <3>2. \/ room' = Len(queue) + 1 /\ UNCHANGED <<queue, wild>>
          \/ queue' = << >> /\ room' = 0 /\ wild' = (queue # << >>)
      BY <1>2 DEF Send, Enlarged
    <3>3. wild \in BOOLEAN /\ queue \in Seq(Request)
      BY DEF Shape
    <3>4. wild' \in BOOLEAN
      BY <3>2, <3>3, Zenon
    <3>5. room' \in {0, Len(queue) + 1} /\ queue' \in {<< >>, queue}
      BY <3>2, Zenon
    <3>6. queue' \in Seq(Request)
      BY <3>1, <3>3, <3>5, Zenon
    <3>7. room' \in Nat
      BY <3>1, <3>5
    <3>8. QED
      BY <3>4, <3>6, <3>7
  <2>5. pc' \in [Actors -> Labels]
    BY <1>2 DEF Shape, Send, Goto, Labels
  <2>6. QED
    BY <1>2, <2>3, <2>4, <2>5 DEF Shape, Send, deviceVars
<1>3. ASSUME NEW a \in Actors, Enqueue(a) PROVE Shape'
  <2>1. queue' \in Seq(Request) /\ wild' \in BOOLEAN /\ pc' \in [Actors -> Labels]
    BY <1>3, Pushed DEF Shape, Enqueue, Goto, Labels
  <2>2. QED
    BY <1>3, <2>1 DEF Shape, Enqueue, deviceVars
<1>4. ASSUME NEW a \in Actors, Perform(a) PROVE Shape'
  <2>1. CASE queue = << >>
    BY <1>4, <2>1 DEF Shape, Perform, Return, Goto, Labels, deviceVars
  <2>2. CASE queue # << >>
    <3> DEFINE top == queue[Len(queue)]
    <3>1. top \in Request /\ [attention |-> FALSE, cpa |-> None] \in Block
      BY <2>2 DEF Shape, Block
    <3>2. top.dev \in Devices /\ top.prog \in Programs \cup {None}
      BY <3>1 DEF Request
    <3>3. /\ req' = [req EXCEPT ![a] = top] /\ orb' = [orb EXCEPT ![top.dev] = top.prog]
          /\ irb' = [irb EXCEPT ![top.dev] = [attention |-> FALSE, cpa |-> None]]
          /\ \E l \in {"test", "testModify"} : pc' = [pc EXCEPT ![a] = l]
      BY <1>4, <2>2 DEF Perform, Begin, Goto
    <3>6. misled' \subseteq Programs
      <4>1. own[a] \in allocated /\ pc[a] = "perform"
        BY <1>4 DEF IInv, Owned, Perform
      <4>2. QED
        BY <1>4, <2>2, <4>1 DEF Perform, Begin, Shape
    <3> HIDE DEF top
    <3>4. /\ req' \in [Actors -> Request] /\ orb' \in [Devices -> Programs \cup {None}]
          /\ irb' \in [Devices -> Block] /\ pc' \in [Actors -> Labels]
      BY <3>1, <3>2, <3>3 DEF Shape, Labels
    <3>5. QED
      BY <1>4, <2>2, <3>4, <3>6 DEF Shape, Perform, Begin, deviceVars
  <2>3. QED
    BY <2>1, <2>2
<1>5. ASSUME NEW a \in Actors, NEW from, NEW to \in Labels, Test(a, from, to)
      PROVE Shape'
  BY <1>5, TestTypes, NeverFails DEF Shape, Test, Goto
<1>6. ASSUME NEW a \in Actors, ModifyChannel(a) \/ AttentionSeen(a)
      PROVE Shape'
  BY <1>6, NeverFails DEF Shape, ModifyChannel, AttentionSeen, Goto, Labels, deviceVars
<1>7. ASSUME NEW a \in Actors, StartChannel(a) PROVE Shape'
  <2>1. Dev(a) \in Devices /\ orb[Dev(a)] \in Programs \cup {None}
    BY DEF Shape, Request, Dev
  <2>2. /\ running' \in [Devices -> Programs \cup {None}]
        /\ ending' \in [Devices -> Programs \cup {None}] /\ pc' \in [Actors -> Labels]
    BY <1>7, <2>1, NeverFails DEF Shape, StartChannel, Goto, Labels
  <2>3. QED
    BY <1>7, <2>2, NeverFails DEF Shape, StartChannel
<1>8. ASSUME NEW a \in Actors, Finish(a) PROVE Shape'
  <2>1. queue' \in Seq(Request)
    <3> DEFINE rest == SubSeq(queue, 1, Len(queue) - 1)
    <3>1. queue \in Seq(Request) /\ queue' \in {queue, rest}
      BY <1>8 DEF Shape, Finish
    <3>2. CASE queue = << >>
      <4>1. rest = << >>
        BY <3>2
      <4>2. QED
        BY <3>1, <3>2, <4>1
    <3>3. CASE queue # << >>
      BY <3>1, <3>3, Popped
    <3>4. QED
      BY <3>2, <3>3
  <2>2. pc' \in [Actors -> Labels] /\ result' \in [Actors -> {-1, 0, 1}]
    BY <1>8 DEF Shape, Finish, Return, Goto, Labels
  <2>3. QED
    BY <1>8, <2>1, <2>2, TestTypes DEF Shape, Finish
<1>9. ASSUME NEW a \in Actors, Destroy(a) PROVE Shape'
  <2>1. NoRequest \in Request /\ NoCall \in DriverCall
    BY CssConstants DEF NoRequest, NoCall, Request, Drivers, DriverCall
  <2>2. /\ pc' \in [Actors -> Labels] /\ result' \in [Actors -> {-1, 0, 1}]
        /\ own' \in [Actors -> Programs \cup {None}] /\ allocated' \subseteq Programs
    BY <1>9 DEF Shape, Destroy, Goto, Labels
  <2>3. /\ call' \in [Actors -> DriverCall]
        /\ req' \in [Actors -> Request]
    BY <1>9, <2>1 DEF Shape, Destroy
  <2>4. QED
    BY <1>9, <2>2, <2>3 DEF Shape, Destroy, deviceVars
<1>10. ASSUME NEW d \in Devices, Complete(d) \/ Switch(d) \/ Attention(d)
       PROVE Shape'
  <2>1. CASE Complete(d)
    BY <1>10, <2>1 DEF Shape, Complete, actorVars
  <2>2. CASE Switch(d)
    <3>1. /\ running' \in [Devices -> Programs \cup {None}]
          /\ ending' \in [Devices -> Programs \cup {None}]
          /\ attention' \in [Devices -> BOOLEAN] /\ online' \subseteq Devices
      BY <2>2 DEF Shape, Switch
    <3>2. QED
      BY <1>10, <2>2, <3>1 DEF Shape, Switch, actorVars
  <2>3. CASE Attention(d)
    BY <1>10, <2>3 DEF Shape, Attention, actorVars
  <2>4. QED
    BY <1>10, <2>1, <2>2, <2>3
<1>11. ASSUME NEW a \in Actors, Step(a) PROVE Shape'
  BY <1>3, <1>4, <1>5, <1>6, <1>7, <1>8, <1>9, <1>11
     DEF Step, AwaitAttention, AfterTest, Labels
<1>12. QED
  <2>1. NoCall \in DriverCall
    BY CssConstants DEF NoCall, Drivers, DriverCall
  <2>2. \A c \in Calls : c \in DriverCall
    BY CssConstants DEF DriverCall
  <2>3. "main" \in Actors /\ "print" \in Actors
    BY DEF Actors
  <2>4. QED
    BY <1>1, <1>2, <1>10, <1>11, <2>1, <2>2, <2>3 DEF Next, Stopped

----------------------------------------------------------------------------
(* The steps of a request between CssPerformRequest's copy and its end. *)

\* The parts of the invariant that depend neither on the blocks nor on the devices.
Calm ==
  /\ \A a \in Actors : Owned(a)
  /\ OwnersDiffer /\ PrintsWrite /\ Leftovers
  /\ ~wild => PrintOnTop /\ MainBelow /\ MainFits
  /\ wild => queue = << >> \/ pc["main"] = "perform"

\* A step from one of those labels to another disturbs neither owners nor queue.
LEMMA QuietStep ==
  ASSUME IInv, NEW a \in Actors, pc[a] \in Working, NEW l \in Working,
         pc' = [pc EXCEPT ![a] = l],
         UNCHANGED <<queue, room, call, own, req, allocated, wild, misled, orb>>
  PROVE  Calm' /\ Blocks'
<1>1. pc \in [Actors -> Labels] /\ "print" \in Actors /\ "main" \in Actors
  BY DEF IInv, Shape, Actors
<1>2. pc'[a] = l /\ \A b \in Actors : b # a => pc'[b] = pc[b]
  BY <1>1
<1>3. \A b \in Actors : Sent(b)' = Sent(b)
  BY DEF Sent
<1>4. \A b \in Actors : pc'[b] = pc[b] \/ (pc[b] \in Working /\ pc'[b] \in Working)
  BY <1>2
<1>5. ASSUME NEW b \in Actors PROVE Owned(b)'
  BY <1>3, <1>4 DEF IInv, Owned, Misled, FailedPrint, Working
<1>6. OwnersDiffer' /\ Leftovers'
  BY <1>3 DEF IInv, OwnersDiffer, Leftovers
<1>7. PrintsWrite' /\ (~wild => PrintOnTop')
  BY <1>1, <1>3, <1>4 DEF IInv, PrintsWrite, PrintOnTop, Working
<1>8. \A r : Prints(r)' = Prints(r)
  BY DEF Prints
<1>9. \A b : Base(b)' = Base(b) /\ Performs(b)' = Performs(b)
  BY <1>1, <1>3, <1>8 DEF Base, Performs
<1>10. ~wild => MainBelow'
  BY <1>1, <1>4, <1>9 DEF IInv, MainBelow, Working
<1>11. ~wild => MainFits'
  BY <1>1, <1>4, <1>8 DEF IInv, MainFits, Working
<1>12. Blocks'
  BY <1>1, <1>4 DEF IInv, Blocks, Dev
<1>13. wild' => queue' = << >> \/ pc'["main"] = "perform"
  BY <1>1, <1>4 DEF IInv, Working
<1>14. QED
  BY <1>5, <1>6, <1>7, <1>10, <1>11, <1>12, <1>13 DEF Calm, IInv

\* The channel instructions: tests, modify, the end of the wait for attention, start.
LEMMA ChannelStep ==
  ASSUME IInv, NEW a \in Actors, NEW from \in Working, NEW to \in Working, Shape',
         \/ Test(a, from, to)
         \/ ModifyChannel(a) \/ AttentionSeen(a) \/ StartChannel(a)
  PROVE  IInv'
<1>1. PICK l \in Working :
        /\ pc[a] \in Working /\ pc' = [pc EXCEPT ![a] = l]
        /\ UNCHANGED <<queue, room, call, own, req, allocated, wild, misled, orb>>
  BY NeverFails DEF Test, ModifyChannel, AttentionSeen, StartChannel, Goto, Working
<1>2. QED
  BY <1>1, QuietStep DEF IInv, Calm

----------------------------------------------------------------------------
(* The queue under main's feet. *)

\* A place below which main's request lies stays one where debug prints change only
\* what is above it.
LEMMA BaseStays ==
  ASSUME NEW b, Base(b), Sent("main")' = Sent("main"),
         queue' \in Seq(Request), b \in 0 .. Len(queue'), b # 0 => queue'[b] = queue[b],
         \A k \in DOMAIN queue' : b < k => \E r \in Request : queue'[k] = r /\ Prints(r)'
  PROVE  Base(b)'
<1>1. b # 0 => queue'[b] = Sent("main")'
  BY DEF Base
<1>2. ASSUME NEW k \in DOMAIN queue', b < k PROVE \E r \in Request : queue'[k] = r /\ Prints(r)'
  BY <1>2
<1>3. \A r \in Request : Prints(r)' =
        (/\ r.driver = "WriteTerm" /\ r.dev = Console
         /\ r.prog \notin allocated' \/ r.prog = own'["print"])
  BY DEF Prints
<1>4. QED
  BY <1>1, <1>2, <1>3 DEF Base, Prints

\* What main performs is its own request or that of a print that failed.
LEMMA MainsRequest ==
  ASSUME IInv, pc["main"] \in Working
  PROVE  /\ own["main"] \in allocated /\ own["main"] # own["print"]
         /\ req["main"] = Sent("main") \/ (FailedPrint(req["main"]) /\ own["main"] \in misled)
<1>1. own["main"] \in allocated /\ (req["main"] = Sent("main") \/ Misled("main"))
  BY DEF IInv, Owned, Actors, Working
<1>2. own["main"] # None
  BY <1>1, CssConstants DEF IInv, Shape
<1>3. QED
  BY <1>1, <1>2 DEF IInv, OwnersDiffer, Misled

\* A debug print is at work on its own request, a write to the console.
LEMMA PrintsRequest ==
  ASSUME IInv, pc["print"] # "idle"
  PROVE  /\ own["print"] \in allocated /\ own["print"] # own["main"] /\ own["print"] # None
         /\ req["print"] = Sent("print") /\ Sent("print") \in Request
         /\ Sent("print").prog = own["print"] /\ Sent("print").dev = Console
         /\ Sent("print").driver = "WriteTerm"
         /\ call["print"].driver = "WriteTerm"
<1>1. own["print"] \in allocated /\ req["print"] = Sent("print")
  BY DEF IInv, Owned, Misled, Actors
<1>2. own["print"] # None
  BY <1>1, CssConstants DEF IInv, Shape
<1>3. call["print"] = NoCall
  BY DEF IInv, PrintsWrite
<1>4. req["print"] \in Request
  BY DEF IInv, Shape, Actors
<1>5. QED
  BY <1>1, <1>2, <1>3, <1>4 DEF IInv, OwnersDiffer, Sent, NoCall

\* CssPerformRequest, called by a debug print, takes the print's own request.
LEMMA PrintPerforms ==
  ASSUME IInv, Perform("print"), Shape'
  PROVE  IInv'
<1>1. /\ ~wild /\ ~wild' /\ pc["print"] = "perform"
      /\ UNCHANGED <<queue, room, call, own, allocated>>
  BY DEF Perform, MayRun
<1>2. "print" \in Actors /\ "main" \in Actors /\ pc \in [Actors -> Labels] /\ req \in [Actors -> Request]
  BY DEF IInv, Shape, Actors
<1>3. queue # << >> => queue[Len(queue)] = Sent("print") /\ req["print"] = Sent("print")
  BY <1>1, PrintsRequest DEF IInv, PrintOnTop
<1>4. PICK l \in Working \cup {"destroy"} :
        /\ pc' = [pc EXCEPT !["print"] = l]
        /\ queue = << >> => l = "destroy"
  BY DEF Perform, Begin, Return, Goto, Working
<1>5. [req EXCEPT !["print"] = req["print"]] = req
  BY <1>2
<1>6. req' = req /\ misled' = misled
  BY <1>1, <1>3, <1>5, PrintsRequest DEF Perform, Begin
<1>7. queue # << >> => orb' = [orb EXCEPT ![Console] = own["print"]]
  BY <1>1, <1>3, PrintsRequest DEF Perform
<1>8. pc'["print"] = l /\ pc'["main"] = pc["main"]
  BY <1>2, <1>4
<1>9. \A b \in Actors : Sent(b)' = Sent(b)
  BY <1>1 DEF Sent
<1>10. \A b \in Actors : Owned(b)'
  <2>1. Owned("main")'
    BY <1>1, <1>2, <1>6, <1>8, <1>9 DEF IInv, Owned, Misled, FailedPrint
  <2>2. Owned("print")'
    BY <1>1, <1>2, <1>4, <1>6, <1>8, <1>9, PrintsRequest DEF Owned, Working
  <2>3. QED
    BY <2>1, <2>2 DEF Actors
<1>11. OwnersDiffer' /\ PrintsWrite' /\ Leftovers'
  BY <1>1, <1>6, <1>9 DEF IInv, OwnersDiffer, PrintsWrite, Leftovers
<1>12. Blocks'
  <2>1. Console \in Devices /\ orb \in [Devices -> Programs \cup {None}]
    BY CssConstants DEF IInv, Shape
  <2>2. Dev("main")' = Dev("main") /\ Dev("main") \in Devices
    BY <1>2, <1>6 DEF Dev, Request
  <2>3. pc'["print"] \in Working => orb'[Console] = own["print"]
    BY <1>4, <1>7, <1>8, <2>1 DEF Working
  <2>4. Dev("main") # Console => orb'[Dev("main")] = orb[Dev("main")]
    <3>1. CASE queue = << >>
      BY <3>1 DEF Perform
    <3>2. CASE queue # << >>
      BY <1>7, <2>1, <2>2, <3>2
    <3>3. QED
      BY <3>1, <3>2
  <2>5. QED
    BY <1>1, <1>6, <1>8, <2>2, <2>3, <2>4 DEF IInv, Blocks
<1>13. PrintOnTop'
  BY <1>1, <1>2, <1>3, <1>4, <1>8, <1>9 DEF PrintOnTop, Working
<1>14. \A r : Prints(r)' = Prints(r)
  BY <1>1 DEF Prints
<1>15. \A b : Base(b)' = Base(b) /\ Performs(b)' = Performs(b)
  BY <1>1, <1>2, <1>6, <1>9, <1>14 DEF Base, Performs
<1>16. MainBelow' /\ MainFits'
  <2>1. MainBelow /\ MainFits
    BY <1>1 DEF IInv
  <2>2. MainBelow'
    BY <1>1, <1>8, <1>15, <2>1 DEF MainBelow
  <2>3. MainFits'
    BY <1>1, <1>8, <1>14, <2>1 DEF MainFits
  <2>4. QED
    BY <2>2, <2>3
<1>17. QED
  BY <1>1, <1>10, <1>11, <1>12, <1>13, <1>16 DEF IInv

\* Called by main it takes main's, or that of a debug print that failed since.
LEMMA MainPerforms ==
  ASSUME IInv, Perform("main"), Shape'
  PROVE  IInv'
<1>1. /\ ~wild /\ ~wild' /\ pc["main"] = "perform" /\ pc["print"] = "idle"
      /\ UNCHANGED <<queue, room, call, own, allocated>>
  BY DEF Perform, MayRun
<1>2. /\ "print" \in Actors /\ "main" \in Actors /\ pc \in [Actors -> Labels]
      /\ req \in [Actors -> Request] /\ queue \in Seq(Request)
  BY DEF IInv, Shape, Actors
<1>3. PICK l \in Working \cup {"destroy"} :
        /\ pc' = [pc EXCEPT !["main"] = l]
        /\ queue = << >> <=> l = "destroy"
  BY DEF Perform, Begin, Return, Goto, Working
<1>4. pc'["main"] = l /\ pc'["print"] = "idle"
  BY <1>1, <1>2, <1>3
<1>5. /\ own["main"] \in allocated /\ own["main"] # None
      /\ req["main"] = Sent("main") /\ Sent("main").prog = own["main"]
      /\ own["print"] = None
  <2>1. own["main"] \in allocated /\ req["main"] = Sent("main") /\ own["print"] = None
    BY <1>1, <1>2 DEF IInv, Owned, Misled, Working
  <2>2. QED
    BY <2>1, CssConstants DEF IInv, Shape, Sent
<1>6. PICK b \in 0 .. Len(queue) : Base(b)
  BY <1>1 DEF IInv, MainBelow
<1> DEFINE top == queue[Len(queue)]
<1>7. queue # << >> => /\ Len(queue) \in DOMAIN queue /\ top \in Request /\ top.prog # None
                       /\ b <= Len(queue)
  <2>1. queue # << >> => Len(queue) \in DOMAIN queue /\ top \in Request /\ b <= Len(queue)
    BY <1>2
  <2>2. QED
    BY <2>1 DEF IInv, Leftovers
<1>8. queue # << >> => top = Sent("main") \/ FailedPrint(top)
  <2>1. CASE queue # << >> /\ b = Len(queue)
    BY <1>6, <1>7, <2>1 DEF Base
  <2>2. CASE queue # << >> /\ b # Len(queue)
    <3>1. Prints(top)
      BY <1>6, <1>7, <2>2 DEF Base
    <3>2. QED
      BY <1>5, <1>7, <2>2, <3>1 DEF Prints, FailedPrint
  <2>3. QED
    BY <2>1, <2>2
<1>9. /\ queue = << >> => UNCHANGED <<req, misled, orb>>
      /\ queue # << >> =>
           /\ req' = [req EXCEPT !["main"] = top]
           /\ orb' = [orb EXCEPT ![top.dev] = top.prog]
           /\ misled' = IF top.prog = own["main"] THEN misled ELSE misled \cup {own["main"]}
  BY DEF Perform, Begin
<1> HIDE DEF top
<1>10. /\ req'["print"] = req["print"]
       /\ queue # << >> => req'["main"] = top
       /\ queue = << >> => req'["main"] = Sent("main")
  BY <1>2, <1>5, <1>9
<1>11. misled \subseteq misled' /\ (queue # << >> /\ top.prog # own["main"] => own["main"] \in misled')
  BY <1>9
<1>12. \A c \in Actors : Sent(c)' = Sent(c)
  BY <1>1 DEF Sent
<1>13. \A r : Prints(r)' = Prints(r) /\ FailedPrint(r)' = FailedPrint(r)
  BY <1>1 DEF Prints, FailedPrint
<1>14. \A c \in Actors : Owned(c)'
  <2>1. Owned("print")'
    BY <1>1, <1>2, <1>4 DEF IInv, Owned
  <2>2. req'["main"] = Sent("main") \/ FailedPrint(req'["main"])
    BY <1>8, <1>10
  <2>3. req'["main"] # Sent("main") => queue # << >> /\ top.prog # own["main"]
    <3>1. queue # << >> /\ top # Sent("main") => top.prog # own["main"]
      BY <1>5, <1>8 DEF FailedPrint
    <3>2. QED
      BY <1>10, <3>1
  <2>4. FailedPrint(req["main"])' = FailedPrint(req'["main"])
    BY <1>1 DEF FailedPrint
  <2>5. Owned("main")'
    BY <1>1, <1>2, <1>3, <1>4, <1>5, <1>11, <1>12, <2>2, <2>3, <2>4 DEF Owned, Misled, Working
  <2>6. QED
    BY <2>1, <2>5 DEF Actors
<1>15. OwnersDiffer' /\ PrintsWrite' /\ Leftovers'
  BY <1>1, <1>4, <1>11, <1>12 DEF IInv, OwnersDiffer, PrintsWrite, Leftovers
<1>16. Blocks'
  <2>1. Dev("main")' = req'["main"].dev
    BY DEF Dev
  <2>2. queue # << >> => orb'[top.dev] = top.prog
    <3>1. orb \in [Devices -> Programs \cup {None}]
      BY DEF IInv, Shape
    <3>2. queue # << >> => top.dev \in Devices
      BY <1>7 DEF Request
    <3>3. QED
      BY <1>9, <3>1, <3>2
  <2>3. QED
    BY <1>3, <1>4, <1>10, <2>1, <2>2 DEF Blocks, Working
<1>17. PrintOnTop' /\ MainFits'
  BY <1>1, <1>3, <1>4 DEF PrintOnTop, MainFits, Working
<1>18. MainBelow'
  <2>1. Base(b)'
    BY <1>1, <1>2, <1>6, <1>12, <1>13 DEF Base
  <2>2. queue # << >> => Performs(b)'
    BY <1>1, <1>7, <1>10 DEF Performs, top
  <2>3. QED
    BY <1>1, <1>3, <1>4, <2>1, <2>2 DEF MainBelow, Working
<1>19. QED
  BY <1>1, <1>14, <1>15, <1>16, <1>17, <1>18 DEF IInv

\* CssSendRequest stores a debug print's request inside the array, on top of the queue.
LEMMA PrintEnqueues ==
  ASSUME IInv, Enqueue("print"), Shape'
  PROVE  IInv'
<1>1. /\ ~wild /\ pc["print"] = "enqueue" /\ queue' = Append(queue, req["print"])
      /\ pc' = [pc EXCEPT !["print"] = "perform"] /\ (wild' <=> Len(queue) >= room)
      /\ UNCHANGED <<room, call, own, req, allocated, orb, misled>>
  BY DEF Enqueue, MayRun, Goto
<1>2. "print" \in Actors /\ "main" \in Actors /\ pc \in [Actors -> Labels] /\ room \in Nat
  BY DEF IInv, Shape, Actors
<1>3. pc'["print"] = "perform" /\ pc'["main"] = pc["main"]
  BY <1>1, <1>2
<1>4. /\ own["print"] \in allocated /\ own["print"] # own["main"] /\ own["print"] # None
      /\ req["print"] = Sent("print") /\ Sent("print") \in Request
      /\ Sent("print").prog = own["print"] /\ Sent("print").dev = Console
      /\ Sent("print").driver = "WriteTerm"
  BY <1>1, PrintsRequest
<1>5. /\ queue \in Seq(Request) /\ DOMAIN queue = 1 .. Len(queue) /\ Len(queue) \in Nat
      /\ queue' \in Seq(Request) /\ queue' # << >> /\ Len(queue') = Len(queue) + 1
      /\ DOMAIN queue' = 1 .. Len(queue) + 1
      /\ \A i \in 1 .. Len(queue) : queue'[i] = queue[i]
      /\ queue'[Len(queue) + 1] = Sent("print")
  BY <1>1, <1>4, Pushed DEF IInv, Shape
<1>6. Len(queue) < room /\ ~wild'
  BY <1>1, <1>2, <1>5 DEF IInv, PrintOnTop
<1>7. \A b \in Actors : Sent(b)' = Sent(b)
  BY <1>1 DEF Sent
<1>8. \A r : Prints(r)' = Prints(r)
  BY <1>1 DEF Prints
<1>9. Prints(Sent("print"))
  BY <1>4 DEF Prints
<1>10. \A b \in Actors : Owned(b)'
  <2>1. Owned("main")'
    BY <1>1, <1>2, <1>3, <1>7 DEF IInv, Owned, Misled, FailedPrint
  <2>2. Owned("print")'
    BY <1>1, <1>2, <1>3, <1>4, <1>7 DEF Owned
  <2>3. QED
    BY <2>1, <2>2 DEF Actors
<1>11. OwnersDiffer' /\ PrintsWrite' /\ Blocks'
  BY <1>1, <1>3 DEF IInv, OwnersDiffer, PrintsWrite, Blocks, Working, Dev
<1>12. Leftovers'
  <2> SUFFICES ASSUME NEW i \in DOMAIN queue'
               PROVE  /\ queue'[i].prog # None
                      /\ queue'[i].prog \in allocated =>
                            \/ KeepsFailed(queue'[i].driver) \/ queue'[i].prog \in misled
                            \/ \E b \in Actors : queue'[i].prog = own[b]
                      /\ \A b \in Actors : queue'[i].prog = own[b] => queue'[i] = Sent(b)
    BY <1>1, <1>7 DEF Leftovers
  <2>1. CASE i \in 1 .. Len(queue)
    BY <1>5, <2>1 DEF IInv, Leftovers
  <2>2. CASE i = Len(queue) + 1
    BY <1>2, <1>4, <1>5, <2>2 DEF Actors
  <2>3. QED
    BY <1>5, <2>1, <2>2
<1>13. PrintOnTop'
  BY <1>2, <1>3, <1>5, <1>7 DEF PrintOnTop, Working
<1>14. MainFits'
  <2>1. pc["main"] = "enqueue" => Len(queue') < room' \/ Len(queue') = room'
    BY <1>1, <1>2, <1>5, <1>6
  <2>2. Len(queue') = room => queue'[room] = Sent("print")
    BY <1>5
  <2>3. QED
    BY <1>1, <1>3, <1>8, <1>9, <2>1, <2>2 DEF MainFits
<1>15. MainBelow'
  <2> SUFFICES ASSUME pc["main"] \in Working \cup {"perform"}
               PROVE \E b \in 0 .. Len(queue') :
                        Base(b)' /\ (pc["main"] = "perform" \/ Performs(b)')
    BY <1>3 DEF MainBelow
  <2>1. PICK b \in 0 .. Len(queue) : Base(b) /\ (pc["main"] = "perform" \/ Performs(b))
    BY <1>1 DEF IInv, MainBelow
  <2>2. b \in 0 .. Len(queue') /\ (b # 0 => queue'[b] = queue[b])
    BY <1>5
  <2>3. ASSUME NEW k \in DOMAIN queue', b < k
        PROVE \E r \in Request : queue'[k] = r /\ Prints(r)'
    <3>1. queue'[k] \in Request
      BY <1>5
    <3>2. Prints(queue'[k])
      <4>1. CASE k \in 1 .. Len(queue)
        BY <1>5, <2>1, <2>3, <4>1 DEF Base
      <4>2. CASE k = Len(queue) + 1
        BY <1>5, <1>9, <4>2
      <4>3. QED
        BY <1>5, <4>1, <4>2
    <3>3. QED
      BY <1>8, <3>1, <3>2
  <2>4. Base(b)'
    BY <1>2, <1>5, <1>7, <2>1, <2>2, <2>3, BaseStays
  <2>5. Performs(b) => Performs(b)'
    BY <1>1, <1>5 DEF Performs
  <2>6. QED
    BY <2>1, <2>2, <2>4, <2>5
<1>16. QED
  BY <1>6, <1>10, <1>11, <1>12, <1>13, <1>14, <1>15 DEF IInv

\* Main's goes on top too, behind the array if a print that failed has its room.
LEMMA MainEnqueues ==
  ASSUME IInv, Enqueue("main"), Shape'
  PROVE  IInv'
<1>1. /\ ~wild /\ pc["main"] = "enqueue" /\ queue' = Append(queue, req["main"])
      /\ pc["print"] = "idle" /\ pc' = [pc EXCEPT !["main"] = "perform"]
      /\ UNCHANGED <<room, call, own, req, allocated, orb, misled>>
  BY DEF Enqueue, MayRun, Goto
<1>2. "print" \in Actors /\ "main" \in Actors /\ pc \in [Actors -> Labels]
  BY DEF IInv, Shape, Actors
<1>3. pc'["main"] = "perform" /\ pc'["print"] = "idle"
  BY <1>1, <1>2
<1>4. /\ own["main"] \in allocated /\ own["main"] # None /\ own["print"] = None
      /\ req["main"] = Sent("main") /\ Sent("main") \in Request
      /\ Sent("main").prog = own["main"]
  <2>1. own["main"] \in allocated /\ req["main"] = Sent("main") /\ own["print"] = None
    BY <1>1, <1>2 DEF IInv, Owned, Misled, Working
  <2>2. QED
    BY <1>2, <2>1, CssConstants DEF IInv, Shape, Sent
<1>5. /\ queue \in Seq(Request) /\ DOMAIN queue = 1 .. Len(queue) /\ Len(queue) \in Nat
      /\ queue' \in Seq(Request) /\ queue' # << >> /\ Len(queue') = Len(queue) + 1
      /\ DOMAIN queue' = 1 .. Len(queue) + 1
      /\ \A i \in 1 .. Len(queue) : queue'[i] = queue[i]
      /\ queue'[Len(queue) + 1] = Sent("main")
  BY <1>1, <1>4, Pushed DEF IInv, Shape
<1>6. \A b \in Actors : Sent(b)' = Sent(b)
  BY <1>1 DEF Sent
<1>7. \A b \in Actors : Owned(b)'
  <2>1. Owned("print")'
    BY <1>1, <1>2, <1>3 DEF IInv, Owned
  <2>2. Owned("main")'
    BY <1>1, <1>2, <1>3, <1>4, <1>6 DEF Owned
  <2>3. QED
    BY <2>1, <2>2 DEF Actors
<1>8. OwnersDiffer' /\ PrintsWrite' /\ Blocks'
  BY <1>1, <1>3 DEF IInv, OwnersDiffer, PrintsWrite, Blocks, Working
<1>9. Leftovers'
  <2> SUFFICES ASSUME NEW i \in DOMAIN queue'
               PROVE  /\ queue'[i].prog # None
                      /\ queue'[i].prog \in allocated =>
                            \/ KeepsFailed(queue'[i].driver) \/ queue'[i].prog \in misled
                            \/ \E b \in Actors : queue'[i].prog = own[b]
                      /\ \A b \in Actors : queue'[i].prog = own[b] => queue'[i] = Sent(b)
    BY <1>1, <1>6 DEF Leftovers
  <2>1. CASE i \in 1 .. Len(queue)
    BY <1>5, <2>1 DEF IInv, Leftovers
  <2>2. CASE i = Len(queue) + 1
    BY <1>2, <1>4, <1>5, <2>2 DEF Actors
  <2>3. QED
    BY <1>5, <2>1, <2>2
<1>10. PrintOnTop' /\ MainFits'
  BY <1>3 DEF PrintOnTop, MainFits, Working
<1>11. MainBelow'
  <2>1. PICK b \in Nat : b = Len(queue) + 1
    BY <1>5
  <2>2. Sent("main")' = Sent("main")
    BY <1>2, <1>6
  <2>3. b \in 0 .. Len(queue') /\ Base(b)'
    BY <1>5, <2>1, <2>2 DEF Base
  <2>4. QED
    BY <1>3, <2>3 DEF MainBelow
<1>12. QED
  BY <1>3, <1>7, <1>8, <1>9, <1>10, <1>11 DEF IInv

----------------------------------------------------------------------------
(* The end of CssPerformRequest and of a driver call. *)

\* A debug print that succeeds takes its own request off the queue, one that fails
\* leaves it there (css.c:118-129).
LEMMA PrintFinishes ==
  ASSUME IInv, Finish("print"), Shape'
  PROVE  IInv'
<1>1. /\ ~wild /\ ~wild' /\ pc["print"] = "finish"
      /\ pc' = [pc EXCEPT !["print"] = "destroy"]
      /\ queue' = queue \/ queue' = SubSeq(queue, 1, Len(queue) - 1)
      /\ UNCHANGED <<room, call, own, req, allocated, orb, misled>>
  BY DEF Finish, MayRun, Goto, Return
<1>2. "print" \in Actors /\ "main" \in Actors /\ pc \in [Actors -> Labels]
      /\ queue \in Seq(Request) /\ room \in Nat
  BY DEF IInv, Shape, Actors
<1>3. pc'["print"] = "destroy" /\ pc'["main"] = pc["main"]
  BY <1>1, <1>2
<1>4. /\ own["print"] \in allocated /\ own["print"] # own["main"] /\ own["print"] # None
      /\ req["print"] = Sent("print") /\ Sent("print") \in Request
      /\ Sent("print").prog = own["print"]
  BY <1>1, PrintsRequest
<1>5. queue # << >> /\ queue[Len(queue)] = Sent("print")
  BY <1>1 DEF IInv, PrintOnTop, Working
<1>6. /\ queue' \in Seq(Request)
      /\ DOMAIN queue' = 1 .. Len(queue') /\ DOMAIN queue = 1 .. Len(queue)
  BY <1>1, <1>2, <1>5, Popped
<1>7. /\ Len(queue') \in Nat /\ Len(queue) \in Nat /\ Len(queue) > 0
      /\ Len(queue') = Len(queue) - 1 \/ Len(queue') = Len(queue)
  BY <1>1, <1>2, <1>5, Popped
<1>8. Len(queue') = Len(queue) - 1 \/ queue' = queue
  BY <1>1, <1>2, <1>5, Popped
<1>9. /\ \A n \in 1 .. Len(queue') : n \in DOMAIN queue'
      /\ \A n \in DOMAIN queue : n \in 1 .. Len(queue)
  BY <1>6
<1>10. \A i \in DOMAIN queue' : i \in DOMAIN queue /\ queue'[i] = queue[i]
  BY <1>1, <1>2, <1>5, Popped
<1>11. \A b \in Actors : Sent(b)' = Sent(b)
  BY <1>1 DEF Sent
<1>12. \A r : Prints(r)' = Prints(r)
  BY <1>1 DEF Prints
<1>13. \A b \in Actors : Owned(b)'
  <2>1. Owned("main")'
    BY <1>1, <1>2, <1>3, <1>11 DEF IInv, Owned, Misled, FailedPrint
  <2>2. Owned("print")'
    BY <1>1, <1>2, <1>3, <1>4, <1>11 DEF Owned
  <2>3. QED
    BY <2>1, <2>2 DEF Actors
<1>14. OwnersDiffer' /\ PrintsWrite' /\ Blocks'
  BY <1>1, <1>3 DEF IInv, OwnersDiffer, PrintsWrite, Blocks, Working, Dev
<1>15. Leftovers'
  BY <1>1, <1>11, <1>10 DEF IInv, Leftovers
<1>16. PrintOnTop'
  BY <1>3 DEF PrintOnTop, Working
<1>17. MainFits'
  <2>1. MainFits
    BY <1>1 DEF IInv
  <2>2. CASE queue' = queue
    BY <1>1, <1>3, <1>12, <2>1, <2>2 DEF MainFits
  <2>3. CASE Len(queue') = Len(queue) - 1
    <3>1. pc["main"] = "enqueue" => room = 0 \/ Len(queue) < room \/ Len(queue) = room
      BY <2>1 DEF MainFits
    <3>2. pc["main"] = "enqueue" => room = 0 \/ Len(queue') < room
      BY <1>2, <1>7, <2>3, <3>1
    <3>3. QED
      BY <1>1, <1>3, <3>2 DEF MainFits
  <2>4. QED
    BY <1>8, <2>2, <2>3
<1>18. MainBelow'
  <2> SUFFICES ASSUME pc["main"] \in Working \cup {"perform"}
               PROVE \E b \in 0 .. Len(queue') :
                        Base(b)' /\ (pc["main"] = "perform" \/ Performs(b)')
    BY <1>3 DEF MainBelow
  <2>1. PICK b \in 0 .. Len(queue) : Base(b) /\ (pc["main"] = "perform" \/ Performs(b))
    BY <1>1 DEF IInv, MainBelow
  <2>2. Sent("main").prog = own["main"]
    BY DEF Sent
  <2>3. b # Len(queue)
    <3>1. b # 0 => queue[b] = Sent("main")
      BY <2>1 DEF Base
    <3>2. Len(queue) # 0
      BY <1>7
    <3>3. QED
      BY <1>4, <1>5, <2>2, <3>1, <3>2
  <2>4. b \in 0 .. Len(queue') /\ (b # 0 => queue'[b] = queue[b])
    <3>1. b \in 0 .. Len(queue')
      BY <1>7, <2>1, <2>3
    <3>2. b # 0 => b \in DOMAIN queue'
      BY <1>7, <1>9, <3>1
    <3>3. QED
      BY <1>10, <3>1, <3>2
  <2>5. ASSUME NEW k \in DOMAIN queue', b < k
        PROVE \E r \in Request : queue'[k] = r /\ Prints(r)'
    <3>1. k \in DOMAIN queue /\ queue'[k] = queue[k]
      BY <1>10
    <3>2. queue[k] \in Request /\ Prints(queue[k])
      BY <1>2, <2>1, <2>5, <3>1 DEF Base
    <3>3. QED
      BY <1>12, <3>1, <3>2
  <2>6. Base(b)'
    BY <1>2, <1>6, <1>11, <2>1, <2>4, <2>5, BaseStays
  <2>7. ASSUME Performs(b), pc["main"] \in Working PROVE Performs(b)'
    <3>1. PICK j \in DOMAIN queue : b <= j /\ queue[j] = req["main"]
      BY <2>7 DEF Performs
    <3>2. req["main"] # Sent("print")
      BY <1>4, <2>2, <2>7, MainsRequest DEF FailedPrint
    <3>3. j # Len(queue)
      BY <1>5, <3>1, <3>2
    <3>4. j \in DOMAIN queue'
      BY <1>7, <1>9, <3>1, <3>3
    <3>5. QED
      BY <1>1, <1>10, <3>1, <3>4 DEF Performs
  <2>8. QED
    BY <2>1, <2>4, <2>6, <2>7
<1>19. QED
  BY <1>1, <1>13, <1>14, <1>15, <1>16, <1>17, <1>18 DEF IInv

\* Main that succeeds takes the top request off, its own or not.
LEMMA MainFinishes ==
  ASSUME IInv, Finish("main"), Shape'
  PROVE  IInv'
<1>1. /\ ~wild /\ ~wild' /\ pc["main"] = "finish" /\ pc["print"] = "idle"
      /\ pc' = [pc EXCEPT !["main"] = "destroy"]
      /\ queue' = queue \/ queue' = SubSeq(queue, 1, Len(queue) - 1)
      /\ UNCHANGED <<room, call, own, req, allocated, orb, misled>>
  BY DEF Finish, MayRun, Goto, Return
<1>2. "print" \in Actors /\ "main" \in Actors /\ pc \in [Actors -> Labels]
      /\ queue \in Seq(Request)
  BY DEF IInv, Shape, Actors
<1>3. pc'["main"] = "destroy" /\ pc'["print"] = "idle"
  BY <1>1, <1>2
<1>4. queue # << >>
  BY <1>1, <1>2 DEF IInv, MainBelow, Performs, Working
<1>5. \A i \in DOMAIN queue' : i \in DOMAIN queue /\ queue'[i] = queue[i]
  BY <1>1, <1>2, <1>4, Popped
<1>6. \A b \in Actors : Sent(b)' = Sent(b)
  BY <1>1 DEF Sent
<1>7. \A b \in Actors : Owned(b)'
  <2>1. Owned("print")'
    BY <1>1, <1>2, <1>3 DEF IInv, Owned
  <2>2. Owned("main")'
    BY <1>1, <1>2, <1>3, <1>6 DEF IInv, Owned, Misled, FailedPrint
  <2>3. QED
    BY <2>1, <2>2 DEF Actors
<1>8. OwnersDiffer' /\ PrintsWrite' /\ Blocks'
  BY <1>1, <1>3 DEF IInv, OwnersDiffer, PrintsWrite, Blocks, Working
<1>9. Leftovers'
  BY <1>1, <1>5, <1>6 DEF IInv, Leftovers
<1>10. PrintOnTop' /\ MainBelow' /\ MainFits'
  BY <1>3 DEF PrintOnTop, MainBelow, MainFits, Working
<1>11. QED
  BY <1>1, <1>7, <1>8, <1>9, <1>10 DEF IInv

\* The driver destroys the request it performed, or keeps it (dev.c).
LEMMA DestroyStep ==
  ASSUME IInv, NEW a \in Actors, Destroy(a), Shape'
  PROVE  IInv'
<1>1. /\ ~wild /\ ~wild' /\ pc[a] = "destroy" /\ (a = "main" => pc["print"] = "idle")
      /\ pc' = [pc EXCEPT ![a] = "idle"] /\ own' = [own EXCEPT ![a] = None]
      /\ req' = [req EXCEPT ![a] = NoRequest] /\ call' = [call EXCEPT ![a] = NoCall]
      /\ UNCHANGED <<queue, room, orb, misled>>
  BY DEF Destroy, MayRun, Goto
<1>2. allocated' = IF KeepsFailed(call[a].driver) /\ result[a] # 0
                   THEN allocated ELSE allocated \ {req[a].prog}
  BY DEF Destroy
<1>3. /\ pc'[a] = "idle" /\ own'[a] = None
      /\ \A b \in Actors : b # a => /\ pc'[b] = pc[b] /\ own'[b] = own[b]
                                   /\ req'[b] = req[b] /\ call'[b] = call[b]
  BY <1>1 DEF IInv, Shape
<1>4. /\ own[a] \in allocated /\ own[a] # None
      /\ \/ req[a] = Sent(a) /\ req[a].prog = own[a]
         \/ a = "main" /\ req[a].prog \notin allocated /\ own[a] \in misled
  <2>1. own[a] \in allocated /\ (req[a] = Sent(a) \/ Misled(a))
    BY <1>1 DEF IInv, Owned
  <2>2. QED
    BY <2>1, CssConstants DEF IInv, Shape, Sent, Misled, FailedPrint
<1>5. \A b \in Actors : b # a => own[b] # own[a]
  BY <1>4 DEF IInv, OwnersDiffer, Actors
<1>6. allocated' \subseteq allocated /\ \A p \in allocated : p # own[a] => p \in allocated'
  BY <1>2, <1>4
<1>7. \A b \in Actors : b # a => Sent(b)' = Sent(b)
  BY <1>3 DEF Sent
<1>8. ASSUME NEW b \in Actors PROVE Owned(b)'
  <2>1. CASE b = a
    BY <1>3, <2>1 DEF Owned
  <2>2. CASE b # a /\ pc[b] = "idle"
    BY <1>3, <2>2 DEF IInv, Owned
  <2>3. CASE b # a /\ pc[b] # "idle"
    <3>1. own[b] \in allocated /\ (req[b] = Sent(b) \/ Misled(b))
      BY <2>3 DEF IInv, Owned
    <3>2. own'[b] \in allocated'
      BY <1>3, <1>5, <1>6, <2>3, <3>1
    <3>3. Misled(b) => Misled(b)'
      BY <1>1, <1>3, <1>6, <2>3 DEF Misled, FailedPrint
    <3>4. req'[b] = Sent(b)' \/ Misled(b)'
      BY <1>3, <1>7, <2>3, <3>1, <3>3
    <3>5. QED
      BY <1>3, <2>3, <3>2, <3>4 DEF Owned
  <2>4. QED
    BY <2>1, <2>2, <2>3
<1>9. OwnersDiffer' /\ PrintsWrite'
  BY <1>3, <1>5 DEF IInv, OwnersDiffer, PrintsWrite, Actors
<1>10. Leftovers'
  <2> SUFFICES ASSUME NEW i \in DOMAIN queue
               PROVE  /\ queue[i].prog # None
                      /\ queue[i].prog \in allocated' =>
                            \/ KeepsFailed(queue[i].driver) \/ queue[i].prog \in misled
                            \/ \E b \in Actors : queue[i].prog = own'[b]
                      /\ \A b \in Actors : queue[i].prog = own'[b] => queue[i] = Sent(b)'
    BY <1>1 DEF Leftovers
  <2>1. queue[i].prog # None
    BY DEF IInv, Leftovers
  <2>2. \A b \in Actors : queue[i].prog = own'[b] => queue[i] = Sent(b)'
    BY <1>3, <1>7, <2>1 DEF IInv, Leftovers
  <2>3. CASE queue[i].prog = own[a]
    <3>1. queue[i].driver = call[a].driver
      BY <2>3 DEF IInv, Leftovers, Sent
    <3>2. QED
      BY <1>2, <1>4, <2>1, <2>2, <2>3, <3>1
  <2>4. CASE queue[i].prog # own[a]
    <3>1. queue[i].prog \in allocated' =>
             \/ KeepsFailed(queue[i].driver) \/ queue[i].prog \in misled
             \/ \E b \in Actors : queue[i].prog = own[b]
      BY <1>6 DEF IInv, Leftovers
    <3>2. \A b \in Actors : queue[i].prog = own[b] => queue[i].prog = own'[b]
      BY <1>3, <2>4
    <3>3. QED
      BY <2>1, <2>2, <3>1, <3>2
  <2>5. QED
    BY <2>3, <2>4
<1>11. Blocks' /\ PrintOnTop'
  BY <1>1, <1>3, <1>7 DEF IInv, Blocks, PrintOnTop, Working, Actors, Dev
<1>12. CASE a = "main"
  <2>1. pc'["main"] = "idle"
    BY <1>3, <1>12
  <2>2. MainBelow' /\ MainFits'
    BY <2>1 DEF MainBelow, MainFits, Working
  <2>3. QED
    BY <1>1, <1>8, <1>9, <1>10, <1>11, <2>2 DEF IInv
<1>13. CASE a = "print"
  <2>1. pc'["main"] = pc["main"] /\ req'["main"] = req["main"] /\ Sent("main")' = Sent("main")
    BY <1>3, <1>7, <1>13 DEF Actors
  <2>2. own["print"] \notin allocated'
    <3>1. call[a] = NoCall /\ req[a].prog = own[a]
      BY <1>1, <1>4, <1>13 DEF IInv, PrintsWrite
    <3>2. QED
      BY <1>2, <1>13, <3>1 DEF KeepsFailed, NoCall
  <2>3. ASSUME NEW r, Prints(r) PROVE Prints(r)'
    BY <1>6, <2>2, <2>3 DEF Prints
  <2>4. MainFits'
    BY <1>1, <2>1, <2>3 DEF IInv, MainFits
  <2>5. ASSUME NEW b, Base(b) PROVE Base(b)'
    BY <1>1, <2>1, <2>3, <2>5 DEF Base
  <2>6. \A b : Performs(b)' = Performs(b)
    BY <1>1, <2>1 DEF Performs
  <2>7. MainBelow'
    BY <1>1, <2>1, <2>5, <2>6 DEF IInv, MainBelow
  <2>8. QED
    BY <1>1, <1>8, <1>9, <1>10, <1>11, <2>4, <2>7 DEF IInv
<1>14. QED
  BY <1>12, <1>13 DEF Actors

----------------------------------------------------------------------------
(* The start of a driver call, and the devices. *)

\* A fresh request's program is nobody's and nowhere referenced; the array is enlarged
\* for it, or dropped with what is on the queue (css.c:38-44).
LEMMA SendStep ==
  ASSUME IInv, NEW a \in Actors, NEW c \in DriverCall,
         a = "print" => c = NoCall, Send(a, c), Shape'
  PROVE  IInv'
<1>1. PICK p \in Programs \ Referenced :
        /\ allocated' = allocated \cup {p} /\ own' = [own EXCEPT ![a] = p]
        /\ call' = [call EXCEPT ![a] = c]
        /\ req' = [req EXCEPT ![a] = [prog |-> p, driver |-> c.driver, dev |-> c.dev]]
  BY DEF Send
<1>2. /\ ~wild /\ pc[a] = "idle" /\ (a = "main" => pc["print"] = "idle")
      /\ UNCHANGED <<orb, misled>>
  BY DEF Send, MayRun
<1>3. PICK l \in {"enqueue", "perform"} :
        /\ pc' = [pc EXCEPT ![a] = l]
        /\ \/ l = "enqueue" /\ room' = Len(queue) + 1 /\ queue' = queue /\ wild' = wild
           \/ l = "perform" /\ room' = 0 /\ queue' = << >> /\ (wild' <=> queue # << >>)
  BY DEF Send, Goto, Enlarged
<1>4. /\ pc'[a] = l /\ own'[a] = p /\ call'[a] = c
      /\ req'[a] = [prog |-> p, driver |-> c.driver, dev |-> c.dev]
      /\ \A b \in Actors : b # a => /\ pc'[b] = pc[b] /\ own'[b] = own[b]
                                   /\ req'[b] = req[b] /\ call'[b] = call[b]
  BY <1>1, <1>3 DEF IInv, Shape
<1>5. /\ p \in Programs /\ p # None /\ p \notin allocated
      /\ \A i \in DOMAIN queue : queue[i].prog # p
      /\ \A b \in Actors : req[b].prog # p
  BY <1>1, CssConstants DEF Referenced
<1>6. /\ req'[a] = Sent(a)' /\ \A b \in Actors : b # a => Sent(b)' = Sent(b)
  BY <1>4 DEF Sent
<1>7. ASSUME NEW b \in Actors PROVE Owned(b)'
  <2>1. CASE b = a
    BY <1>1, <1>3, <1>4, <1>6, <2>1 DEF Owned
  <2>2. CASE b # a /\ pc[b] = "idle"
    BY <1>4, <2>2 DEF IInv, Owned
  <2>3. CASE b # a /\ pc[b] # "idle"
    <3>1. own[b] \in allocated /\ (req[b] = Sent(b) \/ Misled(b))
      BY <2>3 DEF IInv, Owned
    <3>2. Misled(b) => Misled(b)'
      BY <1>1, <1>2, <1>4, <1>5, <2>3 DEF Misled, FailedPrint
    <3>3. QED
      BY <1>1, <1>4, <1>6, <2>3, <3>1, <3>2 DEF Owned
  <2>4. QED
    BY <2>1, <2>2, <2>3
<1>8. own[a] = None /\ \A b \in Actors : own[b] # p
  BY <1>2, <1>5 DEF IInv, Owned
<1>9. OwnersDiffer' /\ PrintsWrite'
  BY <1>4, <1>8 DEF IInv, OwnersDiffer, PrintsWrite, Actors
<1>10. Leftovers'
  <2> SUFFICES ASSUME NEW i \in DOMAIN queue, queue' = queue
               PROVE  /\ queue[i].prog # None
                      /\ queue[i].prog \in allocated' =>
                            \/ KeepsFailed(queue[i].driver) \/ queue[i].prog \in misled
                            \/ \E b \in Actors : queue[i].prog = own'[b]
                      /\ \A b \in Actors : queue[i].prog = own'[b] => queue[i] = Sent(b)'
    BY <1>2, <1>3 DEF Leftovers
  <2>1. queue[i].prog # None /\ queue[i].prog # p
    BY <1>5 DEF IInv, Leftovers
  <2>2. \A b \in Actors : queue[i].prog = own'[b] => queue[i] = Sent(b)'
    BY <1>4, <1>6, <2>1 DEF IInv, Leftovers
  <2>3. \A b \in Actors : queue[i].prog = own[b] => queue[i].prog = own'[b]
    BY <1>4, <1>8, <2>1
  <2>4. queue[i].prog \in allocated' =>
             \/ KeepsFailed(queue[i].driver) \/ queue[i].prog \in misled
             \/ \E b \in Actors : queue[i].prog = own[b]
    BY <1>1, <2>1 DEF IInv, Leftovers
  <2>5. QED
    BY <2>1, <2>2, <2>3, <2>4
<1>11. Blocks'
  <2>1. pc'["print"] \in Working => pc["print"] \in Working /\ own'["print"] = own["print"]
    BY <1>3, <1>4 DEF Actors, Working
  <2>2. pc'["main"] \in Working => pc["main"] \in Working /\ req'["main"] = req["main"]
    BY <1>3, <1>4 DEF Actors, Working
  <2>3. QED
    BY <1>2, <2>1, <2>2 DEF IInv, Blocks, Dev
<1>12. wild' => queue' = << >> \/ pc'["main"] = "perform"
  BY <1>2, <1>3
<1>13. ASSUME ~wild' PROVE PrintOnTop' /\ MainBelow' /\ MainFits'
  <2>1. queue' = queue /\ Len(queue) \in Nat /\ queue \in Seq(Request)
        /\ (l = "perform" => queue = << >> /\ room' = 0)
        /\ (l = "enqueue" => room' = Len(queue) + 1)
    <3>1. CASE queue' = << >> /\ (wild' <=> queue # << >>)
      BY <1>3, <1>13, <3>1 DEF IInv, Shape
    <3>2. QED
      BY <1>3, <3>1 DEF IInv, Shape
  <2>2. ASSUME NEW i \in DOMAIN queue, Prints(queue[i]) PROVE Prints(queue[i])'
    <3>1. queue[i].prog # None /\ queue[i].prog # p
      BY <1>5 DEF IInv, Leftovers
    <3>2. own["print"] = None \/ own'["print"] = own["print"]
      BY <1>4, <1>8 DEF Actors
    <3>3. QED
      BY <1>1, <2>1, <2>2, <3>1, <3>2 DEF Prints
  <2>3. PrintOnTop'
    <3>1. CASE a = "print"
      BY <1>3, <1>4, <2>1, <3>1 DEF PrintOnTop, Working
    <3>2. CASE a = "main"
      BY <1>2, <1>4, <3>2 DEF PrintOnTop, Working, Actors
    <3>3. QED
      BY <3>1, <3>2 DEF Actors
  <2>4. MainBelow'
    <3>1. CASE a = "main"
      <4>1. CASE l = "enqueue"
        BY <1>4, <3>1, <4>1 DEF MainBelow, Working
      <4>2. CASE l = "perform"
        <5>1. Base(0)'
          BY <2>1, <4>2 DEF Base
        <5>2. QED
          BY <1>4, <2>1, <3>1, <4>2, <5>1 DEF MainBelow
      <4>3. QED
        BY <4>1, <4>2
    <3>2. CASE a = "print"
      <4>1. pc'["main"] = pc["main"] /\ req'["main"] = req["main"] /\ Sent("main")' = Sent("main")
        BY <1>4, <1>6, <3>2 DEF Actors
      <4>2. ASSUME NEW b, Base(b) PROVE Base(b)'
        BY <2>1, <2>2, <4>1, <4>2 DEF Base
      <4>3. \A b : Performs(b)' = Performs(b)
        BY <2>1, <4>1 DEF Performs
      <4>4. QED
        BY <1>2, <2>1, <4>1, <4>2, <4>3 DEF IInv, MainBelow
    <3>3. QED
      BY <3>1, <3>2 DEF Actors
  <2>5. MainFits'
    BY <1>3, <2>1 DEF MainFits
  <2>6. QED
    BY <2>3, <2>4, <2>5
<1>14. QED
  BY <1>7, <1>9, <1>10, <1>11, <1>12, <1>13 DEF IInv

\* A device ends its program, goes away, comes back or asks for attention.
LEMMA DeviceStep ==
  ASSUME IInv, NEW d \in Devices, Complete(d) \/ Switch(d) \/ Attention(d), Shape'
  PROVE  IInv'
<1>1. UNCHANGED <<queue, room, pc, call, own, req, result, allocated, orb, wild, misled>>
  BY DEF Complete, Switch, Attention, actorVars
<1>2. \A r : Prints(r)' = Prints(r) /\ FailedPrint(r)' = FailedPrint(r)
  BY <1>1 DEF Prints, FailedPrint
<1>3. \A b \in Actors : Sent(b)' = Sent(b) /\ Owned(b)'
  BY <1>1, <1>2 DEF IInv, Owned, Sent, Misled, FailedPrint
<1>4. OwnersDiffer' /\ PrintsWrite' /\ Leftovers' /\ Blocks'
  BY <1>1, <1>3 DEF IInv, OwnersDiffer, PrintsWrite, Leftovers, Blocks, Dev
<1>5. \A b : Base(b)' = Base(b) /\ Performs(b)' = Performs(b)
  BY <1>1, <1>2, <1>3 DEF Base, Performs, Actors
<1>6. ~wild' => PrintOnTop' /\ MainFits'
  BY <1>1, <1>2, <1>3 DEF IInv, PrintOnTop, MainFits, Actors
<1>7. ~wild' => MainBelow'
  BY <1>1, <1>5 DEF IInv, MainBelow
<1>8. QED
  BY <1>1, <1>3, <1>4, <1>6, <1>7 DEF IInv

\* Each step of a call, of a nested print or of a device keeps the invariant.
LEMMA NextIInv == IInv /\ [Next]_vars => IInv'
<1> SUFFICES ASSUME IInv, [Next]_vars PROVE IInv'
  OBVIOUS
<1>0. Shape'
  BY ShapeStep
<1>1. CASE UNCHANGED vars
  <2>1. UNCHANGED <<queue, room, pc, call, own, req, allocated, orb, wild, misled>>
    BY <1>1 DEF vars, actorVars
  <2>2. \A r : Prints(r)' = Prints(r)
    BY <2>1 DEF Prints
  <2>3. \A b \in Actors : Sent(b)' = Sent(b) /\ Owned(b)'
    BY <2>1 DEF IInv, Owned, Sent, Misled, FailedPrint
  <2>4. OwnersDiffer' /\ PrintsWrite' /\ Leftovers' /\ Blocks'
    BY <2>1, <2>3 DEF IInv, OwnersDiffer, PrintsWrite, Leftovers, Blocks, Dev
  <2>5. \A b : Base(b)' = Base(b) /\ Performs(b)' = Performs(b)
    BY <2>1, <2>2, <2>3 DEF Base, Performs, Actors
  <2>6. ~wild' => PrintOnTop' /\ MainFits'
    BY <2>1, <2>2, <2>3 DEF IInv, PrintOnTop, MainFits, Actors
  <2>7. ~wild' => MainBelow'
    BY <2>1, <2>5 DEF IInv, MainBelow
  <2>8. QED
    BY <1>0, <2>1, <2>3, <2>4, <2>6, <2>7 DEF IInv
<1>2. ASSUME NEW c \in Calls, Send("main", c) PROVE IInv'
  <2>1. c \in DriverCall
    BY CssConstants DEF DriverCall
  <2>2. QED
    BY <1>0, <1>2, <2>1, SendStep DEF Actors
<1>3. ASSUME Send("print", NoCall) PROVE IInv'
  <2>1. NoCall \in DriverCall
    BY CssConstants DEF NoCall, Drivers, DriverCall
  <2>2. QED
    BY <1>0, <1>3, <2>1, SendStep DEF Actors
<1>4. ASSUME NEW a \in Actors, Step(a) PROVE IInv'
  <2>1. CASE Enqueue(a)
    BY <1>0, <1>4, <2>1, MainEnqueues, PrintEnqueues DEF Actors
  <2>2. CASE Perform(a)
    BY <1>0, <1>4, <2>2, MainPerforms, PrintPerforms DEF Actors
  <2>3. CASE Test(a, "testModify", "modify")
    BY <1>0, <1>4, <2>3, ChannelStep DEF Working
  <2>4. CASE Test(a, "test", AfterTest(a))
    <3>1. AfterTest(a) \in Working
      BY DEF AfterTest, Working
    <3>2. QED
      BY <1>0, <1>4, <2>4, <3>1, ChannelStep DEF Working
  <2>5. CASE AwaitAttention(a)
    BY <1>0, <1>4, <2>5, ChannelStep DEF AwaitAttention, Working
  <2>6. CASE ModifyChannel(a) \/ AttentionSeen(a) \/ StartChannel(a)
    BY <1>0, <1>4, <2>6, ChannelStep DEF Working
  <2>7. CASE Finish(a)
    BY <1>0, <1>4, <2>7, MainFinishes, PrintFinishes DEF Actors
  <2>8. CASE Destroy(a)
    BY <1>0, <1>4, <2>8, DestroyStep
  <2>9. QED
    BY <1>4, <2>1, <2>2, <2>3, <2>4, <2>5, <2>6, <2>7, <2>8 DEF Step
<1>5. ASSUME NEW d \in Devices, Complete(d) \/ Switch(d) \/ Attention(d) PROVE IInv'
  BY <1>0, <1>5, DeviceStep
<1>6. QED
  BY <1>1, <1>2, <1>3, <1>4, <1>5 DEF Next, Stopped

\* The invariant holds in every reachable state.
LEMMA Invariance == Spec => []IInv
<1>1. QED
  BY InitIInv, NextIInv, PTL DEF Spec

----------------------------------------------------------------------------
(* The theorems. *)

\* A step that moves an actor is a step of that actor.
LEMMA OwnStep ==
  ASSUME IInv, [Next]_vars, NEW a \in Actors, pc[a] # "idle", pc'[a] # pc[a]
  PROVE  Step(a)
<1>1. ASSUME NEW b \in Actors, b # a, Step(b) PROVE pc'[a] = pc[a]
  <2>1. \E l : pc' = [pc EXCEPT ![b] = l]
    BY <1>1, NeverFails
       DEF Step, Enqueue, Perform, Begin, Test, ModifyChannel, AttentionSeen, AwaitAttention,
           StartChannel, Finish, Destroy, Return, Goto
  <2>2. QED
    BY <1>1, <2>1 DEF IInv, Shape
<1>2. ASSUME NEW b \in Actors, NEW c, Send(b, c) PROVE pc'[a] = pc[a]
  <2>1. pc[b] = "idle" /\ \E l : pc' = [pc EXCEPT ![b] = l]
    BY <1>2 DEF Send, Goto
  <2>2. QED
    BY <2>1 DEF IInv, Shape
<1>3. ASSUME NEW d \in Devices, Complete(d) \/ Switch(d) \/ Attention(d)
      PROVE pc' = pc
  BY <1>3 DEF Complete, Switch, Attention, actorVars
<1>4. CASE UNCHANGED vars
  BY <1>4 DEF vars, actorVars
<1>5. QED
  <2>1. CASE Next
    BY <1>1, <1>2, <1>3, <1>4, <2>1 DEF Next, Stopped, Actors
  <2>2. QED
    BY <1>4, <2>1

\* Actors, queue and device blocks hold values of their types, whatever the
\* devices do (css.c, dev.c).
THEOREM TypeCorrect == Spec => []TypeOK
<1>1. IInv => TypeOK
  BY ShapeGivesTypes DEF IInv
<1>2. QED
  BY <1>1, Invariance, PTL

\* A driver performs the request it has just sent, or that of a debug print that
\* failed since and lies above it, never a leftover of an earlier call (css.c:57-65).
THEOREM OwnRequestPerformed == Spec => []PerformsItsOwn
<1>1. IInv => PerformsItsOwn
  <2> SUFFICES ASSUME IInv, NEW a \in Actors, Performing(a), req[a].prog # own[a]
               PROVE  /\ a = "main" /\ FailedPrint(req[a])
                      /\ \A i \in DOMAIN queue :
                           queue[i].prog = own[a] =>
                             \E j \in DOMAIN queue : i < j /\ queue[j] = req[a]
    BY DEF PerformsItsOwn
  <2>1. pc[a] \in Working
    BY DEF IInv, Shape, Performing, Labels, Working
  <2>2. own[a] \in allocated /\ a = "main" /\ FailedPrint(req[a])
    <3>1. own[a] \in allocated /\ (req[a] = Sent(a) \/ Misled(a))
      BY <2>1 DEF IInv, Owned, Working
    <3>2. QED
      BY <3>1 DEF Sent, Misled
  <2>3. CASE wild
    <3>1. queue = << >>
      BY <2>1, <2>2, <2>3 DEF IInv, Working
    <3>2. QED
      BY <2>2, <3>1
  <2>4. CASE ~wild
    <3>1. PICK b \in 0 .. Len(queue) : Base(b) /\ Performs(b)
      BY <2>1, <2>2, <2>4 DEF IInv, MainBelow, Working
    <3>2. PICK j \in DOMAIN queue : b <= j /\ queue[j] = req["main"]
      BY <3>1 DEF Performs
    <3>3. ASSUME NEW i \in DOMAIN queue, queue[i].prog = own["main"] PROVE i < j
      <4>1. ~(b < i)
        <5>1. own["main"] # own["print"]
          BY <2>1, <2>2, MainsRequest
        <5>2. ~Prints(queue[i])
          BY <2>2, <3>3, <5>1 DEF Prints
        <5>3. QED
          BY <3>1, <3>3, <5>2 DEF Base
      <4>2. i # j
        BY <2>2, <3>2, <3>3
      <4>3. i \in Nat /\ j \in Nat /\ b \in Nat
        BY <3>1, <3>2, <3>3 DEF IInv, Shape
      <4>4. QED
        BY <3>2, <4>1, <4>2, <4>3
    <3>4. QED
      BY <2>2, <3>2, <3>3
  <2>5. QED
    BY <2>3, <2>4
<1>2. QED
  BY <1>1, Invariance, PTL

\* Between calls what is on the queue is dead, a disk read's that gave up without
\* destroying it, or that of a call that destroyed another in its place (css.c:77-126,
\* dev.c:69-71).
THEOREM LeftoversDie == Spec => []LeftoversAreDead
<1>1. IInv => LeftoversAreDead
  <2> SUFFICES ASSUME IInv, pc = [a \in Actors |-> "idle"], NEW i \in DOMAIN queue
               PROVE  \/ queue[i].prog \notin allocated \/ KeepsFailed(queue[i].driver)
                      \/ queue[i].prog \in misled
    BY DEF LeftoversAreDead
  <2>1. \A a \in Actors : own[a] = None
    BY DEF IInv, Owned
  <2>2. QED
    BY <2>1 DEF IInv, Leftovers
<1>2. QED
  BY <1>1, Invariance, PTL

\* A request is stored inside the array that was enlarged for it, unless the array was
\* dropped meanwhile or a debug print that failed has taken its room (css.c:40-46).
THEOREM StoredInside == Spec => StoresInsideTheArray
<1>1. IInv /\ [Next]_vars =>
        \A a \in Actors :
          pc[a] = "enqueue" /\ pc'[a] = "perform" =>
            \/ room = 0 \/ Len(queue') <= room
            \/ a = "main" /\ Len(queue) = room /\ FailedPrint(queue[room])
  <2> SUFFICES ASSUME IInv, [Next]_vars, NEW a \in Actors,
                      pc[a] = "enqueue", pc'[a] = "perform", room # 0
               PROVE  \/ Len(queue') <= room
                      \/ a = "main" /\ Len(queue) = room /\ FailedPrint(queue[room])
    OBVIOUS
  <2>1. Enqueue(a)
    BY OwnStep DEF Step, Perform, Test, ModifyChannel, AttentionSeen, AwaitAttention,
                   StartChannel, Finish, Destroy
  <2>2. ~wild /\ (a = "main" => pc["print"] = "idle")
    BY <2>1 DEF Enqueue, MayRun
  <2>3. Len(queue') = Len(queue) + 1 /\ Len(queue) \in Nat /\ room \in Nat
    BY <2>1, Pushed DEF IInv, Shape, Enqueue
  <2>4. CASE Len(queue) < room
    BY <2>3, <2>4
  <2>5. CASE ~(Len(queue) < room)
    <3>1. a = "main" /\ Len(queue) = room /\ Prints(queue[room])
      BY <2>2, <2>5 DEF IInv, PrintOnTop, MainFits, Actors
    <3>2. own["print"] = None
      BY <2>2, <3>1 DEF IInv, Owned, Actors
    <3>3. queue[room].prog # None
      <4>1. room \in DOMAIN queue
        BY <2>3, <3>1 DEF IInv, Shape
      <4>2. QED
        BY <4>1 DEF IInv, Leftovers
    <3>4. QED
      BY <3>1, <3>2, <3>3 DEF Prints, FailedPrint
  <2>6. QED
    BY <2>4, <2>5
<1>2. QED
  BY <1>1, Invariance, PTL DEF Spec, StoresInsideTheArray

\* A success takes one request off the queue, the caller's or that of a debug print
\* that failed since; a failure leaves the queue as it was (css.c:54).
THEOREM ResultTellsTheQueue == Spec => QueueTellsTheResult
<1>1. IInv /\ [Next]_vars =>
        \A a \in Actors :
          pc[a] = "finish" /\ pc'[a] = "destroy" =>
            IF result'[a] = 0
            THEN /\ Len(queue') = Len(queue) - 1
                 /\ \E i \in DOMAIN queue :
                      /\ queue[i] = req[a]
                      /\ i # Len(queue) => a = "main" /\ FailedPrint(queue[Len(queue)])
            ELSE queue' = queue
  <2> SUFFICES ASSUME IInv, [Next]_vars, NEW a \in Actors, pc[a] = "finish", pc'[a] = "destroy"
               PROVE  IF result'[a] = 0
                      THEN /\ Len(queue') = Len(queue) - 1
                           /\ \E i \in DOMAIN queue :
                                /\ queue[i] = req[a]
                                /\ i # Len(queue) => a = "main" /\ FailedPrint(queue[Len(queue)])
                      ELSE queue' = queue
    OBVIOUS
  <2>1. Finish(a)
    BY OwnStep DEF Step, Enqueue, Perform, Test, ModifyChannel, AttentionSeen,
                   AwaitAttention, StartChannel, Destroy
  <2>2. result \in [Actors -> {-1, 0, 1}] /\ queue \in Seq(Request)
    BY DEF IInv, Shape
  <2>3. \/ result' = [result EXCEPT ![a] = -1] /\ queue' = queue
        \/ result' = [result EXCEPT ![a] = 0] /\ queue' = SubSeq(queue, 1, Len(queue) - 1)
    BY <2>1 DEF Finish, Return
  <2>4. CASE result'[a] # 0
    BY <2>2, <2>3, <2>4
  <2>5. CASE result'[a] = 0
    <3>1. queue' = SubSeq(queue, 1, Len(queue) - 1)
      BY <2>2, <2>3, <2>5
    <3>2. ~wild /\ (a = "main" => pc["print"] = "idle") /\ pc[a] \in Working
      BY <2>1 DEF Finish, MayRun, Working
    <3>3. \E i \in DOMAIN queue :
             /\ queue[i] = req[a]
             /\ i # Len(queue) => a = "main" /\ FailedPrint(queue[Len(queue)])
      <4>1. CASE a = "print"
        <5>1. queue # << >> /\ queue[Len(queue)] = req[a]
          BY <3>2, <4>1, PrintsRequest DEF IInv, PrintOnTop, Working
        <5>2. Len(queue) \in DOMAIN queue
          BY <2>2, <5>1
        <5>3. QED
          BY <5>1, <5>2
      <4>2. CASE a = "main"
        <5>1. PICK b \in 0 .. Len(queue) : Base(b) /\ Performs(b)
          BY <3>2, <4>2 DEF IInv, MainBelow, Working
        <5>2. PICK j \in DOMAIN queue : b <= j /\ queue[j] = req[a]
          BY <4>2, <5>1 DEF Performs
        <5>3. j \in 1 .. Len(queue) /\ Len(queue) \in DOMAIN queue /\ Len(queue) \in Nat
          BY <2>2, <5>2
        <5>4. ASSUME j # Len(queue) PROVE FailedPrint(queue[Len(queue)])
          <6>1. b < Len(queue)
            BY <5>1, <5>2, <5>3, <5>4
          <6>2. Prints(queue[Len(queue)])
            BY <5>1, <5>3, <6>1 DEF Base
          <6>3. queue[Len(queue)].prog # None
            BY <5>3 DEF IInv, Leftovers
          <6>4. own["print"] = None
            BY <3>2, <4>2 DEF IInv, Owned, Actors
          <6>5. QED
            BY <6>2, <6>3, <6>4 DEF Prints, FailedPrint
        <5>5. QED
          BY <4>2, <5>2, <5>4
      <4>3. QED
        BY <4>1, <4>2 DEF Actors
    <3>4. Len(queue') = Len(queue) - 1
      <4>1. queue # << >>
        BY <2>2, <3>3
      <4>2. QED
        BY <2>2, <3>1, <4>1, Popped
    <3>5. QED
      BY <2>5, <3>3, <3>4
  <2>6. QED
    BY <2>4, <2>5
<1>2. QED
  BY <1>1, Invariance, PTL DEF Spec, QueueTellsTheResult

\* What a start of a channel starts is the performed program, live unless it is that of
\* a debug print that failed; on the console main may start another's (css.c:70-109).
LEMMA Started ==
  ASSUME IInv, NEW a \in Actors, StartChannel(a)
  PROVE  \/ orb[Dev(a)] \in allocated
         \/ /\ Dev(a) = Console /\ pc["main"] = "start"
            /\ FailedPrint(req["main"]) \/ orb[Dev(a)] # req["main"].prog
<1>1. ~wild /\ pc[a] = "start" /\ pc[a] \in Working
  BY DEF StartChannel, MayRun, Working
<1>2. CASE a = "print"
  <2>1. Dev(a) = Console /\ own["print"] \in allocated
    BY <1>1, <1>2, PrintsRequest DEF Dev
  <2>2. QED
    BY <1>1, <1>2, <2>1 DEF IInv, Blocks
<1>3. CASE a = "main"
  <2>1. /\ own["main"] \in allocated
        /\ req["main"] = Sent("main") \/ FailedPrint(req["main"])
    BY <1>1, <1>3, MainsRequest
  <2>2. FailedPrint(req["main"]) => Dev("main") = Console
    BY DEF FailedPrint, Dev
  <2>3. Dev("main") # Console => orb[Dev("main")] = req["main"].prog
    BY <1>1, <1>3 DEF IInv, Blocks
  <2>4. req["main"] = Sent("main") => req["main"].prog \in allocated
    BY <2>1 DEF Sent
  <2>5. QED
    BY <1>1, <1>3, <2>1, <2>2, <2>3, <2>4
<1>4. QED
  BY <1>2, <1>3 DEF Actors

\* No channel is started on a program whose memory was freed, but on the console by
\* main, which performs a debug print's there or finds its block overwritten (css.c:70).
THEOREM LiveProgramsStart == Spec => StartsLivePrograms
<1>1. IInv /\ [Next]_vars =>
        \A d \in Devices : \A p \in {running'[d], ending'[d]} :
          p # None /\ p \notin {running[d], ending[d]} =>
            \/ p \in allocated
            \/ /\ d = Console /\ pc["main"] = "start"
               /\ FailedPrint(req["main"]) \/ p # req["main"].prog
  <2> SUFFICES ASSUME IInv, [Next]_vars, NEW d \in Devices,
                      NEW p \in {running'[d], ending'[d]},
                      p # None, p \notin {running[d], ending[d]}
               PROVE  \/ p \in allocated
                      \/ /\ d = Console /\ pc["main"] = "start"
                         /\ FailedPrint(req["main"]) \/ p # req["main"].prog
    OBVIOUS
  <2>1. PICK a \in Actors : StartChannel(a)
    <3>1. ASSUME NEW a \in Actors, Step(a), ~StartChannel(a) PROVE FALSE
      <4>1. \/ TestChannel(a) /\ UNCHANGED running
            \/ UNCHANGED <<running, ending>>
        BY <3>1 DEF Step, Enqueue, Perform, Test, ModifyChannel, AttentionSeen,
                    AwaitAttention, Finish, Destroy, deviceVars
      <4>2. ending'[d] \in {ending[d], None}
        BY <4>1 DEF TestChannel, IInv, Shape
      <4>3. QED
        BY <4>1, <4>2
    <3>2. ASSUME NEW a \in Actors, NEW c, Send(a, c) PROVE FALSE
      BY <3>2 DEF Send, deviceVars
    <3>3. ASSUME NEW e \in Devices, Complete(e) \/ Switch(e) \/ Attention(e) PROVE FALSE
      BY <3>3 DEF Complete, Switch, Attention, IInv, Shape
    <3>4. ~UNCHANGED vars
      BY DEF vars, deviceVars
    <3>5. QED
      BY <3>1, <3>2, <3>3, <3>4 DEF Next, Stopped, Actors
  <2>2. p = orb[Dev(a)] /\ d = Dev(a)
    BY <2>1 DEF StartChannel, IInv, Shape
  <2>3. QED
    BY <2>1, <2>2, Started
<1>2. QED
  BY <1>1, Invariance, PTL DEF Spec, StartsLivePrograms
=============================================================================
