-------------------------------- MODULE Css --------------------------------
(***************************************************************************)
(* Channel requests (css.c) and the device drivers that make them (dev.c). *)
(*                                                                         *)
(* A driver call creates a request, puts it on the queue, performs the     *)
(* request on top of the queue and destroys it.  Between any two of its    *)
(* channel instructions the devices go on, and a debug print, the kernel's *)
(* own or that of an interrupt handler, may make a whole driver call of    *)
(* its own on the console, which may fail like any other.  The `print'     *)
(* actor is that nested call; the `main' actor waits while it runs.        *)
(*                                                                         *)
(* Of a request the model keeps an identity that stands for the memory of  *)
(* its channel program, its device and its flags.                          *)
(***************************************************************************)
EXTENDS Integers, Sequences, FiniteSets

CONSTANTS
  Devices,      \* subchannels
  Console,      \* the device standard output is opened on
  Calls,        \* the driver calls main makes
  Programs,     \* identities of channel programs, more than are in use at once
  MaxQueue,     \* bound: no new request once this many are queued
  None

VARIABLES
  queue,        \* g_queue, n_requests is its length
  room,         \* the number of requests its array has been allocated for
  pc, call,     \* each actor's step, its driver call
  own, req,     \* the program it created, the request CssPerformRequest copied
  result,       \* what CssPerformRequest returned
  allocated,    \* programs not destroyed yet
  orb, irb,     \* the blocks of struct css_device
  online, running, ending, attention,   \* the devices' own state
  wild,         \* memory that is not the queue's was used as the queue
  misled        \* the programs of calls that performed another request than theirs
actorVars == <<pc, call, own, req, result>>
deviceVars == <<online, running, ending, attention>>
vars == <<queue, room, actorVars, allocated, orb, irb, deviceVars, wild, misled>>

Actors == {"main", "print"}

----------------------------------------------------------------------------
(* The drivers: flags of the request, whether a failure skips the destroy. *)

Drivers == {"ReadDisk", "Probe", "WritePrinter", "WriteTerm", "EnableTerm",
            "ReadTerm"}

ASSUME CssConstants ==
  /\ Console \in Devices /\ None \notin Programs
  /\ Calls \subseteq [driver : Drivers, dev : Devices]

Flags(driver) ==
  CASE driver \in {"ReadDisk", "Probe"}            -> {}
    [] driver \in {"WritePrinter", "WriteTerm"}    -> {"MODIFY"}
    [] driver = "EnableTerm"                       -> {"MODIFY", "IGNORE_CC"}
    [] driver = "ReadTerm"      -> {"MODIFY", "IGNORE_CC", "WAIT_ATTENTION"}

\* What the variables of an idle actor hold: the call a debug print makes.
NoCall == [driver |-> "WriteTerm", dev |-> Console]
NoRequest == [prog |-> None, driver |-> "WriteTerm", dev |-> Console]

KeepsFailed(driver) == driver = "ReadDisk"

\* A nested print is suppressed while a print is in progress (print_lock).
PrintLocked == pc["main"] # "idle" /\ call["main"].driver = "WriteTerm"
MayRun(a) == ~wild /\ (a = "main" => pc["print"] = "idle")

Goto(a, label) == pc' = [pc EXCEPT ![a] = label]
Return(a, r) == Goto(a, "destroy") /\ result' = [result EXCEPT ![a] = r]
Has(a, flag) == flag \in Flags(req[a].driver)
Dev(a) == req[a].dev

(***************************************************************************)
(* CssNewRequest and CssSendRequest.  When the queue cannot be enlarged    *)
(* its address becomes NULL and its count stays: with a count of zero the  *)
(* request is just dropped.  When memory is so short that the array moves  *)
(* up, KeMoveMemory damages its first request, which is no better.         *)
(***************************************************************************)
Referenced ==
  allocated \cup {queue[i].prog : i \in DOMAIN queue}
  \cup {orb[d] : d \in Devices} \cup {running[d] : d \in Devices}
  \cup {ending[d] : d \in Devices} \cup {irb[d].cpa : d \in Devices}
  \cup {req[a].prog : a \in Actors}

\* Mutant: the array is made for one request and not enlarged.
MadeOnce == 1
Enlarged == Len(queue) + 1

Send(a, c) ==
  /\ MayRun(a) /\ pc[a] = "idle"
  /\ a = "print" => ~PrintLocked
  /\ Len(queue) < MaxQueue
  /\ Programs \ Referenced # {}
  /\ LET p == CHOOSE p \in Programs \ Referenced : TRUE
     IN /\ allocated' = allocated \cup {p}
        /\ own' = [own EXCEPT ![a] = p]
        /\ call' = [call EXCEPT ![a] = c]
        /\ req' = [req EXCEPT ![a] = [prog |-> p, driver |-> c.driver, dev |-> c.dev]]
  /\ \/ room' = Enlarged /\ Goto(a, "enqueue") /\ UNCHANGED <<queue, wild, misled>>
     \/ /\ queue' = << >> /\ room' = 0 /\ wild' = (queue # << >>)
        /\ Goto(a, "perform")
  /\ UNCHANGED <<result, orb, irb, deviceVars, misled>>

\* After its debug print CssSendRequest stores the request, behind the array if
\* a nested call left one of its own there in the meantime.
Enqueue(a) ==
  /\ MayRun(a) /\ pc[a] = "enqueue"
  /\ queue' = Append(queue, req[a])
  /\ wild' = (Len(queue) >= room)
  /\ Goto(a, "perform")
  /\ UNCHANGED <<room, call, own, req, result, allocated, orb, irb, deviceVars, misled>>

----------------------------------------------------------------------------
(* CssPerformRequest *)

Begin(a, top) ==
  /\ req' = [req EXCEPT ![a] = top]
  /\ irb' = [irb EXCEPT ![top.dev] = [attention |-> FALSE, cpa |-> None]]
  /\ misled' = IF top.prog = own[a] THEN misled ELSE misled \cup {own[a]}
  /\ Goto(a, IF "MODIFY" \in Flags(top.driver) THEN "testModify" ELSE "test")
  /\ UNCHANGED result

\* Mutants: first in, first out; the device's block keeps the last program.
PerformOldest(a) ==
  /\ MayRun(a) /\ pc[a] = "perform"
  /\ IF queue = << >>
     THEN Return(a, 1) /\ UNCHANGED <<req, orb, irb, misled>>
     ELSE Begin(a, queue[1]) /\ orb' = [orb EXCEPT ![queue[1].dev] = queue[1].prog]
  /\ UNCHANGED <<queue, room, call, own, allocated, deviceVars, wild>>
PerformKeepsOrb(a) ==
  /\ MayRun(a) /\ pc[a] = "perform"
  /\ IF queue = << >>
     THEN Return(a, 1) /\ UNCHANGED <<req, orb, irb, misled>>
     ELSE LET top == queue[Len(queue)] IN
          Begin(a, top) /\ orb' = [orb EXCEPT ![top.dev] = IF @ = None THEN top.prog ELSE @]
  /\ UNCHANGED <<queue, room, call, own, allocated, deviceVars, wild>>

Perform(a) ==
  /\ MayRun(a) /\ pc[a] = "perform"
  /\ IF queue = << >>
     THEN Return(a, 1) /\ UNCHANGED <<req, orb, irb, misled>>
     ELSE LET top == queue[Len(queue)] IN
          Begin(a, top) /\ orb' = [orb EXCEPT ![top.dev] = top.prog]
  /\ UNCHANGED <<queue, room, call, own, allocated, deviceVars, wild>>

(***************************************************************************)
(* The assembly stubs fetch the condition code of the channel instruction  *)
(* with IPM only after an ICM that sets the condition code itself, to 1:   *)
(* whatever the instruction said, they return CSS_STATUS_PENDING, and the  *)
(* check for CSS_STATUS_NOT_PRESENT never fails.                           *)
(***************************************************************************)
ConditionCode(d) == IF d \in online THEN 0 ELSE 3
ReadBack(cc) == 1

Fails(a) == ReadBack(ConditionCode(Dev(a))) = 3 /\ ~Has(a, "IGNORE_CC")

(***************************************************************************)
(* TSCH stores and clears the pending status; with none pending it stores  *)
(* an empty block.                                                         *)
(***************************************************************************)
TestChannel(a) ==
  LET d == Dev(a) IN
  IF d \notin online THEN UNCHANGED <<irb, ending, attention>>
  ELSE /\ irb' = [irb EXCEPT ![d] = [attention |-> attention[d], cpa |-> ending[d]]]
       /\ ending' = [ending EXCEPT ![d] = None]
       /\ attention' = [attention EXCEPT ![d] = FALSE]

Test(a, from, to) ==
  /\ MayRun(a) /\ pc[a] = from
  /\ TestChannel(a)
  /\ IF Fails(a) THEN Return(a, -1) ELSE Goto(a, to) /\ UNCHANGED result
  /\ UNCHANGED <<queue, room, call, own, req, allocated, orb, online, running, wild, misled>>

ModifyChannel(a) ==
  /\ MayRun(a) /\ pc[a] = "modify"
  /\ IF Fails(a) THEN Return(a, -1) ELSE Goto(a, "test") /\ UNCHANGED result
  /\ UNCHANGED <<queue, room, call, own, req, allocated, orb, irb, deviceVars, wild, misled>>

\* Mutant: waits for attention whatever the flags.
AfterTestWaits(a) == "attention"
AfterTest(a) == IF Has(a, "WAIT_ATTENTION") THEN "attention" ELSE "start"

AttentionSeen(a) ==
  /\ MayRun(a) /\ pc[a] = "attention" /\ irb[Dev(a)].attention
  /\ Goto(a, "start")
  /\ UNCHANGED <<queue, room, call, own, req, result, allocated, orb, irb, deviceVars, wild, misled>>

\* HwWaitIO returns at once, so the loop polls.
AwaitAttention(a) == ~irb[Dev(a)].attention /\ Test(a, "attention", "attention")

\* SSCH starts the program the device's orb names, if the subchannel is free.
StartChannel(a) ==
  LET d == Dev(a)
      free == d \in online /\ running[d] = None /\ ending[d] = None /\ ~attention[d]
  IN /\ MayRun(a) /\ pc[a] = "start"
     /\ IF Fails(a) THEN Return(a, -1) ELSE Goto(a, "finish") /\ UNCHANGED result
     /\ running' = IF free THEN [running EXCEPT ![d] = orb[d]] ELSE running
     /\ UNCHANGED <<queue, room, call, own, req, allocated, orb, irb, online, ending, attention,
                     wild, misled>>

\* HwWaitIO again, the last TSCH, and the check that the whole program ran.
\* Mutants: a failed request is taken off too; the result is the number of requests.
FinishPopsAlways(a) ==
  LET ended == IF Dev(a) \in online THEN ending[Dev(a)] ELSE irb[Dev(a)].cpa IN
  /\ MayRun(a) /\ pc[a] = "finish"
  /\ TestChannel(a)
  /\ Return(a, IF Fails(a) \/ ended # req[a].prog THEN -1 ELSE 0)
  /\ queue' = SubSeq(queue, 1, Len(queue) - 1)
  /\ UNCHANGED <<room, call, own, req, allocated, orb, online, running, wild, misled>>
FinishCounts(a) ==
  /\ MayRun(a) /\ pc[a] = "finish"
  /\ TestChannel(a)
  /\ Return(a, Len(queue))
  /\ UNCHANGED <<queue, room, call, own, req, allocated, orb, online, running, wild, misled>>

Finish(a) ==
  LET ended == IF Dev(a) \in online THEN ending[Dev(a)] ELSE irb[Dev(a)].cpa IN
  /\ MayRun(a) /\ pc[a] = "finish"
  /\ TestChannel(a)
  /\ IF Fails(a) \/ ended # req[a].prog
     THEN Return(a, -1) /\ UNCHANGED queue
     ELSE Return(a, 0) /\ queue' = SubSeq(queue, 1, Len(queue) - 1)
  /\ UNCHANGED <<room, call, own, req, allocated, orb, online, running, wild, misled>>

\* Mutant: every driver skips it on failure.
DestroyUnlessFailed(a) ==
  /\ MayRun(a) /\ pc[a] = "destroy"
  /\ allocated' = IF result[a] # 0 THEN allocated ELSE allocated \ {req[a].prog}
  /\ Goto(a, "idle")
  /\ own' = [own EXCEPT ![a] = None]
  /\ req' = [req EXCEPT ![a] = NoRequest]
  /\ call' = [call EXCEPT ![a] = NoCall]
  /\ result' = [result EXCEPT ![a] = 0]
  /\ UNCHANGED <<queue, room, orb, irb, deviceVars, wild, misled>>

\* The driver destroys the request, that is the one CssPerformRequest copied.
Destroy(a) ==
  /\ MayRun(a) /\ pc[a] = "destroy"
  /\ allocated' = IF KeepsFailed(call[a].driver) /\ result[a] # 0
                  THEN allocated ELSE allocated \ {req[a].prog}
  /\ Goto(a, "idle")
  /\ own' = [own EXCEPT ![a] = None]
  /\ req' = [req EXCEPT ![a] = NoRequest]
  /\ call' = [call EXCEPT ![a] = NoCall]
  /\ result' = [result EXCEPT ![a] = 0]
  /\ UNCHANGED <<queue, room, orb, irb, deviceVars, wild, misled>>

Step(a) ==
  \/ Enqueue(a) \/ Perform(a)
  \/ Test(a, "testModify", "modify") \/ ModifyChannel(a)
  \/ (pc[a] = "test" /\ Test(a, "test", AfterTest(a)))
  \/ AttentionSeen(a) \/ AwaitAttention(a)
  \/ StartChannel(a) \/ Finish(a) \/ Destroy(a)

----------------------------------------------------------------------------
(* The devices *)

Complete(d) ==
  /\ ~wild /\ running[d] # None
  /\ ending' = [ending EXCEPT ![d] = running[d]]
  /\ running' = [running EXCEPT ![d] = None]
  /\ UNCHANGED <<queue, room, actorVars, allocated, orb, irb, online, attention, wild, misled>>

\* A device is switched off, which ends what it does, or on.
Switch(d) ==
  /\ ~wild
  /\ online' = IF d \in online THEN online \ {d} ELSE online \cup {d}
  /\ running' = [running EXCEPT ![d] = None]
  /\ ending' = [ending EXCEPT ![d] = None]
  /\ attention' = [attention EXCEPT ![d] = FALSE]
  /\ UNCHANGED <<queue, room, actorVars, allocated, orb, irb, wild, misled>>

\* The operator presses a key on a terminal.
Attention(d) ==
  /\ ~wild /\ d = Console /\ d \in online /\ ~attention[d] /\ running[d] = None
  /\ attention' = [attention EXCEPT ![d] = TRUE]
  /\ UNCHANGED <<queue, room, actorVars, allocated, orb, irb, online, running, ending, wild, misled>>

Stopped == wild /\ UNCHANGED vars

Init ==
  /\ queue = << >> /\ room = 0
  /\ pc = [a \in Actors |-> "idle"]
  /\ call = [a \in Actors |-> NoCall]
  /\ own = [a \in Actors |-> None]
  /\ req = [a \in Actors |-> NoRequest]
  /\ result = [a \in Actors |-> 0]
  /\ allocated = {}
  /\ orb = [d \in Devices |-> None]
  /\ irb = [d \in Devices |-> [attention |-> FALSE, cpa |-> None]]
  /\ online = Devices
  /\ running = [d \in Devices |-> None]
  /\ ending = [d \in Devices |-> None]
  /\ attention = [d \in Devices |-> FALSE]
  /\ wild = FALSE /\ misled = {}

Next ==
  \/ \E c \in Calls : Send("main", c)
  \/ Send("print", NoCall)
  \/ \E a \in Actors : Step(a)
  \/ \E d \in Devices : Complete(d) \/ Switch(d) \/ Attention(d)
  \/ Stopped

Spec == Init /\ [][Next]_vars

\* The processor does not stop in the middle of a driver call.
FairSpec == Spec /\ \A a \in Actors : WF_vars(Step(a))

----------------------------------------------------------------------------
(* Properties *)

Labels == {"idle", "enqueue", "perform", "testModify", "modify", "test", "attention",
           "start", "finish", "destroy"}
Request == [prog : Programs \cup {None}, driver : Drivers, dev : Devices]

\* Actors, queue and device blocks hold values of their types.
TypeOK ==
  /\ \A i \in DOMAIN queue : queue[i] \in Request
  /\ room \in Nat
  /\ pc \in [Actors -> Labels] /\ req \in [Actors -> Request]
  /\ own \in [Actors -> Programs \cup {None}] /\ result \in [Actors -> {-1, 0, 1}]
  /\ allocated \subseteq Programs /\ online \subseteq Devices
  /\ \A f \in {orb, running, ending} : f \in [Devices -> Programs \cup {None}]
  /\ attention \in [Devices -> BOOLEAN] /\ wild \in BOOLEAN /\ misled \subseteq Programs

\* Left on the queue by a debug print that failed.
FailedPrint(r) == r.driver = "WriteTerm" /\ r.dev = Console /\ r.prog \notin allocated

Performing(a) == pc[a] \notin {"idle", "enqueue", "perform", "destroy"}

\* The queue is last in, first out and failed requests stay in it for ever
\* (css.c:77-126), yet a driver performs the request it has just sent, or that of a
\* debug print that failed since (css.c:45), and never a leftover of an earlier call.
PerformsItsOwn ==
  \A a \in Actors :
    Performing(a) =>
      \/ req[a].prog = own[a]
      \/ /\ a = "main" /\ FailedPrint(req[a])
         /\ \A i \in DOMAIN queue :
              queue[i].prog = own[a] => \E j \in DOMAIN queue : i < j /\ queue[j] = req[a]

\* No channel is started on a program whose memory was freed, although failed requests
\* with freed programs stay on the queue and in the devices' blocks, but on the console:
\* there a debug print that failed may have left its request on top of main's (css.c:45),
\* or any debug print have overwritten the block main is about to start (css.c:70-109).
StartsLivePrograms ==
  [][\A d \in Devices : \A p \in {running'[d], ending'[d]} :
       p # None /\ p \notin {running[d], ending[d]} =>
         \/ p \in allocated
         \/ /\ d = Console /\ pc["main"] = "start"
            /\ FailedPrint(req["main"]) \/ p # req["main"].prog]_vars

\* "If any part of the process fails the function will return and the queue
\* will be left unaffected" (css.c:54), while a success takes one request off the queue:
\* the one performed, or that of a debug print that failed since.
QueueTellsTheResult ==
  [][\A a \in Actors :
       pc[a] = "finish" /\ pc'[a] = "destroy" =>
         IF result'[a] = 0
         THEN /\ Len(queue') = Len(queue) - 1
              /\ \E i \in DOMAIN queue :
                   /\ queue[i] = req[a]
                   /\ i # Len(queue) => a = "main" /\ FailedPrint(queue[Len(queue)])
         ELSE queue' = queue]_vars

\* A request is stored inside the array that was enlarged for it, although another call
\* may use the queue between the two (css.c:40-46), unless that call runs out of memory
\* and drops the array, or is a debug print that fails and keeps the room.
StoresInsideTheArray ==
  [][\A a \in Actors :
       pc[a] = "enqueue" /\ pc'[a] = "perform" =>
         \/ room = 0 \/ Len(queue') <= room
         \/ a = "main" /\ Len(queue) = room /\ FailedPrint(queue[room])]_vars

\* Requests that failed stay on the queue (css.c:77-126), but between calls no
\* program on it is still owned by its driver: it was destroyed, or belongs to a
\* disk read that gave up without destroying it (dev.c:69-71), or to a call that
\* performed, and destroyed, the request of a debug print in place of its own.
LeftoversAreDead ==
  pc = [a \in Actors |-> "idle"] =>
    \A i \in DOMAIN queue :
      \/ queue[i].prog \notin allocated \/ KeepsFailed(queue[i].driver)
      \/ queue[i].prog \in misled

\* A driver call comes to an end, whatever the devices do, unless it waits for the
\* attention of a terminal: a debug print's always, and main's if debug prints cease.
CallsEnd ==
  /\ pc["print"] # "idle" ~> pc["print"] = "idle" \/ wild
  /\ <>[](pc["print"] = "idle") =>
       (pc["main"] # "idle" /\ "WAIT_ATTENTION" \notin Flags(call["main"].driver)
          ~> pc["main"] = "idle" \/ wild)

\* "Test that the device is actually online" (css.c:73): a call that does not
\* ignore the condition code gives up when the test finds no device.
TestsThatTheDeviceIsOnline ==
  [][\A a \in Actors :
       pc[a] \in {"testModify", "test"} /\ pc'[a] # pc[a]
         /\ Dev(a) \notin online /\ ~Has(a, "IGNORE_CC") => result'[a] = -1]_vars
=============================================================================
