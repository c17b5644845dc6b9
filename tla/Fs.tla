--------------------------------- MODULE Fs ---------------------------------
(***************************************************************************)
(* The virtual file system (fs.c): the tree of nodes with its two ways of  *)
(* naming them, the table of drivers, and the write buffers of handles.    *)
(*                                                                         *)
(* The table of drivers is reallocated, and so moved, for every driver.    *)
(* A pointer to the driver created k-th was taken from the table of k      *)
(* entries, so it is live as long as the table has k entries, and reads    *)
(* freed memory afterwards.                                                *)
(*                                                                         *)
(* A reallocation allocates first, so it always moves.  The allocator      *)
(* serves requests from the top of its lowest free block, so as a rule it  *)
(* moves down; when memory is short it may move up, and then KeMoveMemory  *)
(* copies bytes n to 1 in place of bytes n-1 to 0: the first byte is junk  *)
(* and the byte behind the new array, somebody else's, is overwritten.     *)
(***************************************************************************)
EXTENDS Integers, SequencesExt

CONSTANTS
  Names,        \* file names, sequences of character codes
  Paths,        \* the paths callers pass, see Path
  Kinds,        \* the callbacks a driver may have, subsets of Callbacks
  MaxNodes,     \* bound: nodes created
  MaxDrivers,   \* bound: drivers created
  MaxWritten,   \* bound: bytes a handle ever buffers
  Junk          \* a byte nobody wrote

Root == 0
Nodes == 1..MaxNodes
Callbacks == {"open", "close", "write", "pass", "request_node"}

\* What a path comes down to: the drive letters (1 for A) before a colon and a
\* separator, and the names after them.  Without the colon, or without the
\* separator after it, the names are not looked at.
Path == [letters : Seq(1..26), names : Seq(Seq(Nat))]

ASSUME FsAssumption ==
  /\ Names \subseteq Seq(Nat) /\ Paths \subseteq Path
  /\ Kinds \subseteq SUBSET Callbacks
  /\ MaxNodes \in Nat /\ MaxDrivers \in Nat /\ MaxWritten \in Nat

VARIABLES
  fs,           \* the nodes, their children, and the table of drivers, see FsType
  handle,       \* the handle that is open, or Closed
  stopped       \* "" or why the kernel does not go on: KePanic, or a wild access
vars == <<fs, handle, stopped>>

Null == -1
Wild == -2
Closed == [node |-> Null]
Runs == stopped = ""
Created(f) == 1..Len(f.nodes)

\* Nodes in creation order, with the number of their driver, 0 for NULL; drivers
\* in creation order, with the nodes registered.
FsType(f) ==
  /\ f.nodes \in Seq([name : Names, driver : 0..Len(f.drivers)])
  /\ DOMAIN f.children = {Root} \cup Created(f)
  /\ \A n \in DOMAIN f.children : f.children[n] \in Seq(Created(f))
  /\ f.drivers \in Seq([callbacks : Kinds, nodes : Seq(Created(f) \cup {Null})])

DriverOf(f, n) == IF n = Root THEN 0 ELSE f.nodes[n].driver
Live(f, d) == d = Len(f.drivers)
Stale(f, d) == d # 0 /\ ~Live(f, d)
Has(f, d, callback) == d # 0 /\ callback \in f.drivers[d].callbacks

----------------------------------------------------------------------------
(* KeResolveFsPath *)

\* KeGetFsDrive: the three runs of letters in EBCDIC each count from 0.
KeGetFsDrive(letter) == (letter - 1) % 9

\* KeCompareStringEx adds up the differences of the characters, so names of one
\* length are equal when the sums of their codes are.
KeCompareStringEx(s, t) ==
  LET diff[i \in 0..Len(s)] == IF i = 0 THEN 0 ELSE diff[i - 1] + s[i] - t[i]
  IN diff[Len(s)]
SameName(s, t) == Len(s) = Len(t) /\ KeCompareStringEx(s, t) = 0

\* The walk asks child after child: one whose driver retargets (and returns the
\* node itself, as ModRequestZdsfsNode does) ends it whatever its name is.
Interferes(f, n) == Stale(f, DriverOf(f, n)) \/ Has(f, DriverOf(f, n), "request_node")
Takes(f, n, name) == Interferes(f, n) \/ SameName(f.nodes[n].name, name)

Index(f, n, letter) ==
  LET i == KeGetFsDrive(letter) + 1
  IN IF n # Null /\ i <= Len(f.children[n]) THEN f.children[n][i] ELSE Null

\* Mutant: the last child that matches.
DownToLast(f, n, name) ==
  LET list == f.children[n]
      i == SelectLastInSeq(list, LAMBDA child : Takes(f, child, name))
  IN IF i = 0 THEN Null ELSE IF Stale(f, DriverOf(f, list[i])) THEN Wild ELSE list[i]

Down(f, n, name) ==
  LET list == f.children[n]
      i == SelectInSeq(list, LAMBDA child : Takes(f, child, name))
  IN IF i = 0 THEN Null ELSE IF Stale(f, DriverOf(f, list[i])) THEN Wild ELSE list[i]

KeResolveFsPath(f, path) ==
  LET Top[i \in 0..Len(path.letters)] ==
        IF i = 0 THEN Root ELSE Index(f, Top[i - 1], path.letters[i])
      At[i \in 0..Len(path.names)] ==
        IF i = 0 THEN Top[Len(path.letters)]
        ELSE LET n == At[i - 1] IN
             IF n \in {Null, Wild} \/ (i > 1 /\ Interferes(f, n)) THEN n
             ELSE Down(f, n, path.names[i])
  IN At[Len(path.names)]

----------------------------------------------------------------------------
(* Nodes *)

Stop(why) == stopped' = why /\ UNCHANGED <<fs, handle>>

KeAddFsNodeChild(f, parent, child) ==
  [n \in DOMAIN f.children \cup {child} |->
     IF n = child THEN << >>
     ELSE IF n = parent THEN Append(f.children[n], child)
     ELSE f.children[n]]

\* A path that is not found means the root.  A list of children that moves up
\* loses a byte of its first pointer.
KeCreateFsNode(path, name) ==
  LET found  == KeResolveFsPath(fs, path)
      parent == IF found \in {Null, Wild} THEN Root ELSE found
  IN
  /\ Runs /\ Len(fs.nodes) < MaxNodes
  /\ \/ Stop("panic")
     \/ (found = Wild \/ fs.children[parent] # << >>) /\ Stop("wild")
     \/ /\ found # Wild
        /\ fs' = [fs EXCEPT !.nodes = Append(@, [name |-> name, driver |-> 0]),
                            !.children = KeAddFsNodeChild(fs, parent, Len(fs.nodes) + 1)]
        /\ UNCHANGED <<handle, stopped>>

----------------------------------------------------------------------------
(* Drivers.  A module gives its driver to the node it has just created. *)

Driverless == {n \in Created(fs) : n = Len(fs.nodes) /\ DriverOf(fs, n) = 0}

\* The module that creates a driver sets its callbacks.  Without memory for the
\* table it does so through the pointer -1.
KeCreateFsDriver(callbacks) ==
  /\ Runs /\ Len(fs.drivers) < MaxDrivers
  /\ \/ Stop("wild")
     \/ /\ fs' = [fs EXCEPT !.drivers = Append(@, [callbacks |-> callbacks, nodes |-> << >>])]
        /\ UNCHANGED <<handle, stopped>>

\* Through a stale pointer the list of nodes is put in freed memory.  Without
\* memory for it the list becomes NULL but keeps its count; one that moves up
\* loses a byte of its first pointer.
KeAddFsNodeToDriver(d, n) ==
  /\ Runs
  /\ \/ (Stale(fs, d) \/ fs.drivers[d].nodes # << >>) /\ Stop("wild")
     \/ /\ fs' = [fs EXCEPT !.nodes[n].driver = d,
                            !.drivers[d].nodes = IF Live(fs, d) THEN Append(@, n) ELSE @]
        /\ UNCHANGED <<handle, stopped>>
     \/ /\ Live(fs, d)
        /\ fs' = [fs EXCEPT !.drivers[d].nodes = [i \in DOMAIN @ |-> Null]]
        /\ UNCHANGED <<handle, stopped>>

\* ModInitHercDebug sets the driver of its node itself.
AttachDriver(d, n) ==
  /\ Runs
  /\ fs' = [fs EXCEPT !.nodes[n].driver = d]
  /\ UNCHANGED <<handle, stopped>>

----------------------------------------------------------------------------
(***************************************************************************)
(* Handles.  A callback of a stale driver is taken from freed memory; what *)
(* it was is still there, or the kernel runs wild.                         *)
(***************************************************************************)
Open == Runs /\ handle # Closed
Driver == DriverOf(fs, handle.node)
ThroughStalePointer == Open /\ Stale(fs, Driver) /\ Stop("wild")

\* Mutant: a node without a driver is opened.
OpenWithoutDriver(path, buffered) ==
  LET n == KeResolveFsPath(fs, path) IN
  /\ Runs /\ handle = Closed /\ n \in Created(fs)
  /\ handle' = [node |-> n, buffered |-> buffered, buf |-> << >>, size |-> 0,
                pending |-> << >>, past |-> 0, up |-> FALSE]
  /\ UNCHANGED <<fs, stopped>>

\* NULL for a path that is not found, or a node without a driver.
KeOpenFsNode(path, buffered) ==
  LET n == KeResolveFsPath(fs, path) IN
  /\ Runs /\ handle = Closed
  /\ \/ n = Wild /\ Stop("wild")
     \/ (IF n = Null THEN TRUE ELSE n # Wild /\ DriverOf(fs, n) = 0) /\ UNCHANGED vars
     \/ /\ n \notin {Null, Wild} /\ DriverOf(fs, n) # 0
        /\ \/ Stop("panic")
           \/ Stale(fs, DriverOf(fs, n)) /\ Stop("wild")
           \/ /\ handle' = [node |-> n, buffered |-> buffered, buf |-> << >>, size |-> 0,
                            pending |-> << >>, past |-> 0, up |-> FALSE]
              /\ UNCHANGED <<fs, stopped>>

\* What is in the buffer is neither written nor freed.
KeCloseFsNode ==
  /\ Open
  /\ handle' = Closed
  /\ UNCHANGED <<fs, stopped>>

(***************************************************************************)
(* `buf' is << >> for NULL.  A new buffer holds junk where the count says  *)
(* that something was.  `pending' and `past' are history: the bytes        *)
(* written since the last flush, and how many were flushed or lost before; *)
(* `up' whether the buffer ever moved up.                                  *)
(***************************************************************************)
Fresh(buf, n) == IF buf = << >> THEN [i \in 1..n |-> Junk] ELSE buf

Concat(byte) ==
  \E up \in {FALSE, handle.buf # << >>} :
    LET moved == [i \in 1..handle.size |->
                    IF up /\ i = 1 THEN Junk ELSE Fresh(handle.buf, handle.size)[i]]
    IN handle' = [handle EXCEPT !.buf = Append(moved, byte), !.size = @ + 1,
                                !.pending = Append(@, byte), !.up = @ \/ up]

KeWriteFsNode(byte) ==
  /\ Open /\ Has(fs, Driver, "write") /\ handle.buffered
  /\ handle.size < MaxWritten
  /\ \/ Concat(byte) /\ UNCHANGED <<fs, stopped>>
     \/ /\ handle' = [handle EXCEPT !.buf = << >>, !.pending = << >>,
                                    !.past = @ + Len(handle.pending)]
        /\ UNCHANGED <<fs, stopped>>
     \/ handle.buf # << >> /\ Stop("wild")

\* What the driver is handed: a NULL buffer is the memory at address 0.
HandedOver == Fresh(handle.buf, handle.size)

\* Mutant: the buffer stays.
FlushKeepsBuffer ==
  /\ Open /\ handle.buffered
  /\ \/ ~Has(fs, Driver, "write") /\ handle.size = 0 /\ Stop("wild")
     \/ /\ Has(fs, Driver, "write")
        /\ handle' = [handle EXCEPT !.pending = << >>,
                                    !.past = @ + Len(handle.pending)]
        /\ UNCHANGED <<fs, stopped>>

\* The buffer is freed and the count, of which only the read buffer's is reset,
\* is kept.  With nothing buffered a driver need not have the callback.
KeFlushFsNode ==
  /\ Open /\ handle.buffered
  /\ \/ ~Has(fs, Driver, "write") /\ handle.size = 0 /\ Stop("wild")
     \/ /\ Has(fs, Driver, "write")
        /\ handle' = [handle EXCEPT !.buf = << >>, !.pending = << >>,
                                    !.past = @ + Len(handle.pending)]
        /\ UNCHANGED <<fs, stopped>>

----------------------------------------------------------------------------
Halted == ~Runs /\ UNCHANGED vars

Init ==
  /\ fs = [nodes |-> << >>, children |-> [n \in {Root} |-> << >>], drivers |-> << >>]
  /\ handle = Closed
  /\ stopped = ""

Next ==
  \/ \E path \in Paths, name \in Names : KeCreateFsNode(path, name)
  \/ \E callbacks \in Kinds : KeCreateFsDriver(callbacks)
  \/ \E d \in DOMAIN fs.drivers, n \in Driverless : KeAddFsNodeToDriver(d, n) \/ AttachDriver(d, n)
  \/ \E path \in Paths, buffered \in BOOLEAN : KeOpenFsNode(path, buffered)
  \/ KeCloseFsNode
  \/ \E byte \in {"a", "b"} : KeWriteFsNode(byte)
  \/ KeFlushFsNode
  \/ ThroughStalePointer
  \/ Halted

Spec == Init /\ [][Next]_vars

----------------------------------------------------------------------------
(* Properties *)

\* The file system, and the handle, which is open on a node with a driver.
TypeOK ==
  /\ FsType(fs)
  /\ handle # Closed => handle.node \in Created(fs) /\ DriverOf(fs, handle.node) # 0
  /\ stopped \in {"", "panic", "wild"}

\* Wherever a path leads, a new node hangs under exactly one parent, once, and
\* that parent is older than it (fs.c:198-202): the tree stays a tree.
NodesFormATree ==
  \A n \in Created(fs) :
    \E p \in 0..n - 1 : \E i \in DOMAIN fs.children[p] :
      \A q \in DOMAIN fs.children : \A j \in DOMAIN fs.children[q] :
        (fs.children[q][j] = n) <=> (q = p /\ j = i)

\* A path that names a node names it for ever, by letters or by names, whatever
\* nodes are created later under equal names (fs.c:107-175), until a driver that
\* takes over the resolution is given to a node or a driver's pointer goes stale.
PathsKeepTheirNode ==
  [][fs'.nodes # fs.nodes
       /\ {n \in Created(fs) : Interferes(fs, n)} = {n \in Created(fs') : Interferes(fs', n)} =>
     \A path \in Paths :
       KeResolveFsPath(fs, path) \notin {Null, Wild} =>
         KeResolveFsPath(fs', path) = KeResolveFsPath(fs, path)]_vars

\* What a flush hands to the driver ends with exactly the bytes written since
\* the last one, in their order, behind one junk byte for each byte flushed or
\* lost to a failed allocation before (fs.c:261-267, 349-354); only the very first
\* byte may be lost, to a buffer that moved up.
HandsOverWhatIsPending ==
  handle # Closed =>
    LET meant == [i \in 1..handle.past |-> Junk] \o handle.pending
    IN /\ Len(HandedOver) = Len(meant)
       /\ \A i \in DOMAIN meant :
            HandedOver[i] = meant[i] \/ (i = 1 /\ handle.up /\ HandedOver[i] = Junk)

\* "This is used so drivers can register nodes and when they need to terminate
\* they can just destroy their registered nodes" (fs.h:79): a registered node
\* refers to an entry of the driver table.
RegisteredNodesHaveTheirDriver ==
  \A d \in DOMAIN fs.drivers : \A i \in DOMAIN fs.drivers[d].nodes :
    LET n == fs.drivers[d].nodes[i] IN n # Null => ~Stale(fs, DriverOf(fs, n))
=============================================================================
