------------------------------- MODULE Users -------------------------------
(***************************************************************************)
(* Accounts and groups of users (user.c): two tables of fixed size that    *)
(* are filled from the front and never emptied.  The lookup of a group     *)
(* runs over as many entries as there may be accounts, so what it answers  *)
(* depends on the memory behind the table of groups, too.                  *)
(***************************************************************************)
EXTENDS Library

CONSTANTS MaxUsers, MaxGroups, UserNames
ASSUME UsersAssumption ==
  /\ MaxUsers \in Nat /\ MaxGroups \in Nat /\ MaxGroups <= MaxUsers
  /\ UserNames \subseteq Seq(Nat \ {NUL})

VARIABLES
  accounts, userGroups, \* the names in g_user_list and g_group_list
  current,              \* current_user
  usersEnd              \* a table was full
usersVars == <<accounts, userGroups, current, usersEnd>>

NoName == <<NUL>>   \* NULL in place of a name
NotFound == -1

\* What the words behind g_group_list are taken for.
Behind == [1..MaxUsers - MaxGroups -> UserNames \cup {NoName}]

----------------------------------------------------------------------------
\* The first that compares equal, counted from 0.
Lookup(names, name) ==
  LET hits == {i \in DOMAIN names : names[i] # NoName /\ KeCompareString(names[i], name) = 0}
  IN IF hits = {} THEN NotFound ELSE Min(hits) - 1

Padded(names, max) == [i \in 1..max |-> IF i \in DOMAIN names THEN names[i] ELSE NoName]

KeGetAccountByName(names, name) == Lookup(names, name)

\* Mutant: from the last entry to the first.
GroupByNameBackward(names, behind, name) ==
  LET read == Reverse(Padded(names, MaxGroups) \o behind)
  IN IF Lookup(read, name) = NotFound THEN NotFound ELSE MaxUsers - 1 - Lookup(read, name)
KeGetUserGroupByName(names, behind, name) == Lookup(Padded(names, MaxGroups) \o behind, name)

KeCreateAccount(name) ==
  /\ IF Len(accounts) < MaxUsers THEN accounts' = Append(accounts, name) /\ UNCHANGED usersEnd
     ELSE usersEnd' = TRUE /\ UNCHANGED accounts
  /\ UNCHANGED <<userGroups, current>>

KeCreateUserGroup(name) ==
  /\ IF Len(userGroups) < MaxGroups THEN userGroups' = Append(userGroups, name) /\ UNCHANGED usersEnd
     ELSE usersEnd' = TRUE /\ UNCHANGED userGroups
  /\ UNCHANGED <<accounts, current>>

\* The number is not checked.
KeSetCurrentAccount(uid) ==
  current' = uid /\ UNCHANGED <<accounts, userGroups, usersEnd>>

UsersOutOfMemory == usersEnd' = TRUE /\ UNCHANGED <<accounts, userGroups, current>>

UsersInit ==
  /\ accounts = << >> /\ userGroups = << >> /\ current = 0 /\ usersEnd = FALSE

UsersNext ==
  /\ ~usersEnd
  /\ \/ \E name \in UserNames : KeCreateAccount(name) \/ KeCreateUserGroup(name)
     \/ \E uid \in 0..MaxUsers - 1 : KeSetCurrentAccount(uid)
     \/ UsersOutOfMemory

UsersSpec == UsersInit /\ [][UsersNext]_usersVars

----------------------------------------------------------------------------
(* Properties *)

\* A number found by name goes on being found by that name.  Only the number of a group
\* that does not exist, found behind the table (user.c:48), gives way to the group, as
\* soon as it is created.
NumbersKeepTheirNames ==
  [][<<accounts, userGroups>>' # <<accounts, userGroups>> =>
     \A name \in UserNames, behind \in Behind :
       LET account == KeGetAccountByName(accounts, name)
           group   == KeGetUserGroupByName(userGroups, behind, name)
           group2  == KeGetUserGroupByName(userGroups', behind, name)
       IN /\ account # NotFound => KeGetAccountByName(accounts', name) = account
          /\ group # NotFound =>
               group2 = group \/ (group >= MaxGroups /\ group2 = Len(userGroups))
          /\ Lookup(userGroups', name) # NotFound => group2 < MaxGroups]_usersVars
=============================================================================
