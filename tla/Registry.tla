------------------------------ MODULE Registry ------------------------------
(***************************************************************************)
(* The registry (registry.c): groups of groups and keys, named by paths.   *)
(*                                                                         *)
(* Groups and keys are numbered as they are created; group 0 is the root,  *)
(* which a caller supplies, because KeInitRegistry cannot make one.  The   *)
(* members of a group are in arrays that move with each new member, so the *)
(* pointer to a group is good as long as it is its parent's last; later    *)
(* the group has to be found by name.                                      *)
(***************************************************************************)
EXTENDS Library

CONSTANTS
  Separators,   \* "_-:"
  Names,        \* names that groups and keys are created with
  Paths,
  Leftovers,    \* what memory may hold behind the buffers a resolution allocates, see Leftover
  MaxName,      \* MAX_REGISTRY_NAME and MAX_REGISTRY_KEY
  MaxPath,      \* MAX_REGISTRY_PATH
  MaxMembers    \* bound: groups and keys

\* The bytes behind the copy of the path, and those behind the name made of the first
\* component, of the second, and so on.  Behind the bytes the model knows is a NUL.
Leftover == [path : Seq(Nat), names : Seq(Seq(Nat))]

ASSUME RegistryAssumption ==
  /\ Separators \subseteq Nat \ {NUL}
  /\ Leftovers \subseteq Leftover
  /\ \A left, left2 \in Leftovers : Len(left.path) = Len(left2.path)
  /\ Names \subseteq Seq(Nat \ {NUL}) /\ Paths \subseteq Seq(Nat \ {NUL})
  /\ MaxName \in Nat /\ MaxPath \in Nat /\ MaxMembers \in Nat

VARIABLES
  registry,     \* its groups and keys, each with its parent and its name
  registryEnd   \* "" or why it can no longer be used
registryVars == <<registry, registryEnd>>

Root == 0
Member == [parent : Nat, name : Seq(Nat)]
Groups == 0..Len(registry.groups)

MembersOf(members, g) == {i \in DOMAIN members : members[i].parent = g}
LastOf(g) ==
  LET siblings == MembersOf(registry.groups, g) IN IF siblings = {} THEN 0 ELSE Max(siblings)

----------------------------------------------------------------------------
(* Finding *)

\* The first member of g whose name compares equal, 0 for NULL.
\* Mutant: the last one.
FindLastMember(members, g, name) ==
  LET hits == {i \in MembersOf(members, g) : KeCompareString(members[i].name, name) = 0}
  IN IF hits = {} THEN 0 ELSE Max(hits)
FindMember(members, g, name) ==
  LET hits == {i \in MembersOf(members, g) : KeCompareString(members[i].name, name) = 0}
  IN IF hits = {} THEN 0 ELSE Min(hits)

(***************************************************************************)
(* One component of the path that is at `pos' in the memory m: the name    *)
(* made of it is not ended, so the memory behind it, tail, is compared,    *)
(* too.  Behind the last component the NUL is skipped like a separator, so *)
(* if it names a group, the walk goes on behind the buffer.                *)
(***************************************************************************)
Component(reg, m, tail, s) ==
  LET next  == KeBreakCharPtrString(m, s.pos, Separators)
      name  == UpToNUL(SubSeq(m, s.pos, next - 1) \o tail)
      group == FindMember(reg.groups, s.group, name)
      key   == FindMember(reg.keys, s.group, name)
  IN IF At(m, s.pos) = NUL                        THEN [s EXCEPT !.end = "NULL"]
     ELSE IF next = s.pos \/ Len(name) >= MaxName THEN [s EXCEPT !.end = "panic"]
     ELSE IF group # 0                            THEN [s EXCEPT !.group = group, !.pos = next + 1]
     ELSE IF key # 0                              THEN [s EXCEPT !.key = key, !.end = "key"]
     ELSE [s EXCEPT !.end = "panic"]

BehindName(left, i) == IF i \in DOMAIN left.names THEN left.names[i] ELSE << >>

KeResolveRegistryPath(reg, path, left) ==
  LET m == path \o <<NUL>> \o left.path
      s[i \in 0..Len(m) + 1] ==
        IF i = 0 THEN [group |-> Root, key |-> 0, pos |-> 1,
                       end |-> IF Len(path) >= MaxPath \/ path = << >> THEN "panic" ELSE "none"]
        ELSE LET walk == s[i - 1] IN
             IF walk.end # "none" THEN walk ELSE Component(reg, m, BehindName(left, i), walk)
  IN s[Len(m) + 1]

\* The groups a caller has a good pointer to, or can find.
Findable ==
  LET f[g \in Groups] ==
        \/ g = Root
        \/ /\ f[registry.groups[g].parent]
           /\ FindMember(registry.groups, registry.groups[g].parent, registry.groups[g].name) = g
  IN {g \in Groups : f[g]}
Pointed == {g \in Groups \ {Root} : LastOf(registry.groups[g].parent) = g}
Reachable == Findable \cup Pointed

----------------------------------------------------------------------------
EndsIn(how) == registryEnd' = how /\ UNCHANGED registry

\* A parent that is no group, which the assertion forbids.
KeInitRegistry == EndsIn("panic")

Added(members, parent, name) == Append(members, [parent |-> parent, name |-> name])

\* Where an array moves up, its first member loses the first byte of its name's
\* address (see Library!Backward).
Moves(members, parent) ==
  registryEnd' \in {registryEnd} \cup (IF MembersOf(members, parent) = {} THEN {} ELSE {"damaged"})

KeCreateRegistryGroup(parent, name) ==
  IF parent \notin Reachable THEN EndsIn("wild")
  ELSE IF Len(name) >= MaxName \/ name = << >> THEN EndsIn("panic")
  ELSE /\ registry' = [registry EXCEPT !.groups = Added(@, parent, name)]
       /\ Moves(registry.groups, parent)

KeCreateRegistryKey(parent, name) ==
  IF parent \notin Reachable THEN EndsIn("wild")
  ELSE IF Len(name) >= MaxName THEN EndsIn("panic")
  ELSE /\ registry' = [registry EXCEPT !.keys = Added(@, parent, name)]
       /\ Moves(registry.keys, parent)

Resolve(path, left) ==
  KeResolveRegistryPath(registry, path, left).end = "panic" /\ EndsIn("panic")

\* The member stays in its group, with a name that is freed.
KeDestroyRegistryMember ==
  registry.groups \o registry.keys # << >> /\ EndsIn("wild")

RegistryOutOfMemory == EndsIn("panic")

RegistryInit == registry = [groups |-> << >>, keys |-> << >>] /\ registryEnd = ""

RegistryNext ==
  /\ registryEnd = ""
  /\ \/ KeInitRegistry
     \/ /\ Len(registry.groups) + Len(registry.keys) < MaxMembers
        /\ \E g \in Groups, name \in Names :
             KeCreateRegistryGroup(g, name) \/ KeCreateRegistryKey(g, name)
     \/ \E path \in Paths, left \in Leftovers : Resolve(path, left)
     \/ KeDestroyRegistryMember
     \/ RegistryOutOfMemory

RegistrySpec == RegistryInit /\ [][RegistryNext]_registryVars

----------------------------------------------------------------------------
(* Properties *)

\* Two resolutions of a path read the same, where the first went as far as `walk': the
\* names they make end alike, and what is behind the path is the same, if it was read.
ReadAlike(path, walk, left, left2) ==
  /\ \A i \in DOMAIN left.names \cup DOMAIN left2.names :
       UpToNUL(BehindName(left, i)) = UpToNUL(BehindName(left2, i))
  /\ walk.pos <= Len(path) \/ left.path = left2.path

\* A path that names a key goes on naming it whatever is created afterwards, unless a
\* group is created beside the key that compares equal to it: groups hide keys
\* (registry.c:112-132).  This is as much as can be said only while memory is kind: the
\* names that are looked up have no end (registry.c:122-123), so a key is lost to the
\* panic of line 133 as soon as other bytes are behind the name of a component, and so
\* is one behind the end of the path (registry.c:119), if the bytes there change.
RegistryPathsKeepTheirKey ==
  [][registry' # registry =>
       \A path \in Paths, left \in Leftovers :
         LET before == KeResolveRegistryPath(registry, path, left)
         IN before.end = "key" =>
              \A left2 \in Leftovers : ReadAlike(path, before, left, left2) =>
                LET after == KeResolveRegistryPath(registry', path, left2)
                IN \/ after.end = "key" /\ after.key = before.key
                   \/ /\ Len(registry'.groups) > Len(registry.groups)
                      /\ LET group == Last(registry'.groups) IN
                           /\ group.parent = before.group
                           /\ KeCompareString(group.name, registry.keys[before.key].name) = 0]_registryVars
=============================================================================
